------------------------- MODULE CloudDiskSharing -------------------------
(***************************************************************************)
(* What one user who asks only for what the lists offer, one request after *)
(* the other and with no failure, finds of his shares: the total, the      *)
(* marks in his list of files and the ranking, while no deletion was       *)
(* misled by what Redis still held of an earlier share; and, for contents  *)
(* of one owner each, that FastDFS holds what is listed and nothing else,  *)
(* and that myfiles shows it.                                              *)
(***************************************************************************)
EXTENDS CloudDiskPagesProofs

(* A program at rest has no user in hand. *)
UsersRest ==
  /\ upload.pc    = "idle" => upload.user    = None
  /\ instant.pc   = "idle" => instant.user   = None
  /\ dealfile.pc  = "idle" => dealfile.user  = None
  /\ dealshare.pc = "idle" => dealshare.user = None

LEMMA StepsRest ==
  ASSUME Typed
  PROVE  /\ UploadStep    => upload' = UploadIdle       \/ upload'.pc # "idle"
         /\ InstantStep   => instant' = InstantIdle     \/ instant'.pc # "idle"
         /\ DealStep      => dealfile' = DealIdle       \/ dealfile'.pc # "idle"
         /\ DealShareStep => dealshare' = DealShareIdle \/ dealshare'.pc # "idle"
<1> USE DEF Typed, TypeOK
<1>1. UploadStep => upload' = UploadIdle \/ upload'.pc # "idle"
  BY DEF UploadTypeOK, UploadReplies, UploadStep, UploadStoreBlob,
    UploadInsertFileInfo, UploadInsertUserFile, UploadSelectCount,
    UploadWriteCount, UploadReply
<1>2. InstantStep => instant' = InstantIdle \/ instant'.pc # "idle"
  BY DEF InstantTypeOK, InstantReplies, InstantStep, InstantUnknown,
    InstantSelectRefs, InstantSelectOwn, InstantWriteRefs,
    InstantInsertUserFile, InstantSelectCount, InstantWriteCount,
    InstantReply
<1>3. DealStep => dealfile' = DealIdle \/ dealfile'.pc # "idle"
  <2> USE DEF DealTypeOK, DealGoes, DealReplies
  <2>1. ShareStep => dealfile'.pc # "idle"
    BY DEF ShareStep, ShareZsetExit, ShareSelect, ShareZaddAgain, ShareMark,
      ShareInsert, ShareSelectTotal, ShareWriteTotal, ShareZadd, ShareHset
  <2>2. DelStep => dealfile' = DealIdle \/ dealfile'.pc # "idle"
    <3>1. CASE DelZsetExit \/ DelNoStatus \/ DelSelectStatus
                 \/ DelDeleteShare \/ DelSelectTotal \/ DelWriteTotal
                 \/ DelZrem \/ DelHdel
      BY <3>1 DEF DelZsetExit, DelNoStatus, DelSelectStatus, DelDeleteShare,
        DelSelectTotal, DelWriteTotal, DelZrem, DelHdel
    <3>2. CASE DelSelectCount \/ DelWriteCount \/ DelDeleteUserFile
                 \/ DelNoRefs \/ DelSelectRefs \/ DelWriteRefs
                 \/ DelSelectFileId \/ DelDeleteFileInfo \/ DelRemoveBlob
                 \/ DelNoFileId \/ DelRemoveNothing
      BY <3>2 DEF DelSelectCount, DelWriteCount, DelDeleteUserFile, DelNoRefs,
        DelSelectRefs, DelWriteRefs, DelSelectFileId, DelDeleteFileInfo,
        DelRemoveBlob, DelNoFileId, DelRemoveNothing
    <3>3. QED
      BY <3>1, <3>2 DEF DelStep, DelHdelDies
  <2>3. PvStep => dealfile'.pc # "idle"
    BY DEF PvStep, PvMissing, PvSelect, PvWrite
  <2>4. QED
    BY <2>1, <2>2, <2>3 DEF DealStep, DealReply
<1>4. DealShareStep => dealshare' = DealShareIdle \/ dealshare'.pc # "idle"
  <2> USE DEF DealShareTypeOK, DealShareGoes, DealShareReplies
  <2>1. SharePvStep => dealshare'.pc # "idle"
    BY DEF SharePvStep, SharePvMissing, SharePvSelect, SharePvWrite,
      SharePvZsetExit, SharePvZincrby, SharePvZadd, SharePvHset
  <2>2. CancelStep => dealshare'.pc # "idle"
    BY DEF CancelStep, CancelMark, CancelSelectTotal, CancelDeleteTotal,
      CancelCrashes, CancelDeleteShare, CancelZrem, CancelHdel,
      CancelHdelDies
  <2>3. SaveStep => dealshare'.pc # "idle"
    BY DEF SaveStep, SaveSelectOwn, SaveUnknown, SaveSelectRefs, SaveWriteRefs
  <2>4. QED
    BY <2>1, <2>2, <2>3 DEF DealShareStep, DealShareReply
<1>5. QED
  BY <1>1, <1>2, <1>3, <1>4

LEMMA UsersKeepResting ==
  ASSUME OneAtATime, Typed, AloneInv, UsersRest, [PagesNext]_pagesVars
  PROVE  UsersRest'
<1>1. /\ UploadIdle.user = None /\ InstantIdle.user = None
      /\ DealIdle.user = None   /\ DealShareIdle.user = None
  BY DEF UploadIdle, InstantIdle, DealIdle, DealShareIdle
<1>2. CASE Still \/ ForgetsAlone
  BY <1>2 DEF Still, ForgetsAlone, RedisForgets, programVars, UsersRest
<1>3. CASE AskAlone
  BY <1>3, AskBegins DEF UsersRest
<1>4. CASE UploadAlone
  BY <1>1, <1>4, StepsRest DEF UploadAlone, UsersRest
<1>5. CASE InstantAlone
  BY <1>1, <1>5, StepsRest DEF InstantAlone, UsersRest
<1>6. CASE DealAlone
  BY <1>1, <1>6, StepsRest DEF DealAlone, UsersRest
<1>7. CASE DealShareAlone
  BY <1>1, <1>7, StepsRest DEF DealShareAlone, UsersRest
<1>8. CASE ListingAlone
  BY <1>8 DEF ListingAlone, UsersRest
<1>9. CASE RevivedAlone
  BY <1>1, <1>9 DEF RevivedAlone, Revived, UsersRest
<1>10. QED
  BY <1>2, <1>3, <1>4, <1>5, <1>6, <1>7, <1>8, <1>9, OneMoves

LEMMA RestUnserved ==
  ASSUME Typed, AllRest, UsersRest
  PROVE  \A u \in Users : Unserved(u)
BY NoneIsNoValue DEF AllRest, UsersRest, UploadRests, InstantRests, DealRests,
  DealShareRests, Unserved

(* No call fails, so that the counters are the rows. *)
CountsInOrder ==
  UsersRest /\ faults = 0 /\ misread = {} /\ DriftInv

LEMMA CountsKeepInOrder ==
  ASSUME OneAtATime, Careful, Typed, AloneInv, CountsInOrder,
         [PagesNext]_pagesVars
  PROVE  CountsInOrder'
<1> USE DEF CountsInOrder
<1>1. UsersRest'
  BY UsersKeepResting
<1>2. CASE UNCHANGED <<user_file_list, user_file_count, upload, instant,
                       dealfile, faults, misread>>
  BY ZenonT(60), <1>1, <1>2 DEF DriftInv, OneRowPerFile, KnowsInv, ServedOnce,
    UploadKnows, InstantKnows, DealKnows, Lists, RowSet, Drift, CountOf,
    Owed, UploadOwes, InstantOwes, DealOwes, Files
<1>3. CASE CloudDiskMoves
  <2>1. Ask => \A u \in Users : Unserved(u)
    <3> SUFFICES ASSUME Ask PROVE \A u \in Users : Unserved(u)
      OBVIOUS
    <3>1. AllRest
      BY <1>3, AskFindsRest
    <3>2. QED
      BY <3>1, RestUnserved
  <2>2. DriftInv'
    BY <1>3, <2>1, DriftInductive DEF CloudDiskMoves
  <2>3. faults' = 0 /\ misread' = {}
    <3>1. ~Faulty
      BY DEF Faulty, OneAtATime
    <3>2. UNCHANGED faults
      BY <1>3, <3>1 DEF CloudDiskMoves, Next, Ask, AskUpload, AskInstant,
        AskDeal, AskSharePv, AskCancel, AskSave, AskListing, Admits,
        UploadRuns, InstantRuns, DealRuns, DealShareRuns, ListingRuns,
        CallFails, Misreads, Killed, Revived, Done, vars, boundVars
    <3>3. QED
      BY <3>2, NothingMisread
  <2>4. QED
    BY <1>1, <2>2, <2>3
<1>4. QED
  BY <1>2, <1>3 DEF PagesNext, AskMyFiles, MyFilesAccept, MyFilesRuns,
    MyFilesStep, MyCountSelect, MyListSelect, MyFilesReply, MyFilesFault,
    MyFilesFails, MyFilesDies, RedisForgets, pagesVars, vars, programVars,
    boundVars, storeVars, mysqlVars

LEMMA CountsInOrderAtFirst == PagesInit => CountsInOrder
<1>1. /\ UploadIdle.user = None /\ InstantIdle.user = None
      /\ DealIdle.user = None   /\ DealShareIdle.user = None
  BY DEF UploadIdle, InstantIdle, DealIdle, DealShareIdle
<1>2. QED
  BY <1>1, DriftAtFirst DEF PagesInit, Init, CountsInOrder, UsersRest

(* What the counter says while nothing is owed *)
LEMMA CountIsCard ==
  ASSUME Typed, CountsInOrder, NEW u \in Users, Owed(u) = 0
  PROVE  CountOf(u) = Cardinality(RowSet(u)) /\ Cardinality(RowSet(u)) \in Nat
<1>1. CountOf(u) \in Int /\ Cardinality(RowSet(u)) \in Nat
  BY NumbersOfUser DEF Typed, TypeOK, CountsInOrder, DriftInv
<1>2. Drift(u) = CountOf(u) - Cardinality(RowSet(u))
  BY <1>1 DEF Drift
<1>3. Drift(u) \in (0 - 0)..0
  BY DEF CountsInOrder, DriftInv
<1>4. QED
  BY <1>1, <1>2, <1>3

(* A user who has a row has a counter. *)
LEMMA ListedIsCounted ==
  ASSUME Typed, CountsInOrder, NEW u \in Users, NEW f \in Files,
         Lists(u, f), Owed(u) = 0
  PROVE  user_file_count[u] # None
<1>1. CountOf(u) = Cardinality(RowSet(u)) /\ IsFiniteSet(RowSet(u))
  BY CountIsCard DEF CountsInOrder, DriftInv
<1>2. RowSet(u) # {}
  <2>1. 1 \in DOMAIN user_file_list[u][f]
    BY RowsNotEmpty DEF Typed, TypeOK
  <2>2. <<f, 1>> \in RowSet(u)
    BY <2>1 DEF RowSet
  <2>3. QED
    BY <2>2
<1>3. Cardinality(RowSet(u)) # 0
  BY <1>1, <1>2, FS_EmptySet
<1>4. QED
  BY <1>1, <1>3 DEF CountOf

-----------------------------------------------------------------------------
(* The shares of one user beside the total, the marks and the ranking *)

SharedFiles == {f \in Files : IsShared(f)}

Marks(f) ==
  UNION {{user_file_list[u][f][i].shared : i \in DOMAIN user_file_list[u][f]} :
         u \in Users}

Total == user_file_count[ShareTotal]

LEMMA MarkOfRow ==
  ASSUME NEW c \in Users, NEW g, NEW i \in DOMAIN user_file_list[c][g]
  PROVE  user_file_list[c][g][i].shared \in Marks(g)
<1> DEFINE marks(u) == {user_file_list[u][g][j].shared :
                          j \in DOMAIN user_file_list[u][g]}
<1>1. user_file_list[c][g][i].shared \in marks(c)
  OBVIOUS
<1>2. Marks(g) = UNION {marks(u) : u \in Users}
  BY DEF Marks
<1> HIDE DEF marks
<1>3. QED
  BY <1>1, <1>2

LEMMA SharedMember ==
  ASSUME NEW f \in Files
  PROVE  /\ f \in SharedFiles <=> IsShared(f)
         /\ f \in SharedFiles' <=> IsShared(f)'
BY DEF SharedFiles, Files

LEMMA InsertedShared ==
  ASSUME StoreTypeOK, NEW c \in Users, NEW g \in Files, InsertShare(c, g)
  PROVE  SharedFiles' = SharedFiles \cup {g}
<1>1. share_file_list'[c][g] # <<>>
  <2>1. share_file_list'[c][g] = Append(share_file_list[c][g], 0)
    BY DEF InsertShare, SetShares, StoreTypeOK
  <2>2. share_file_list[c][g] \in Seq(Nat)
    BY DEF StoreTypeOK
  <2>3. QED
    BY <2>1, <2>2
<1>2. \A u \in Users, f \in Files :
        f # g => share_file_list'[u][f] = share_file_list[u][f]
  BY InsertedShareRows
<1>3. IsShared(g)'
  BY <1>1 DEF IsShared
<1>4. QED
  BY <1>2, <1>3 DEF SharedFiles, IsShared, Files

LEMMA DeletedShared ==
  ASSUME StoreTypeOK, OneUser, NEW c \in Users, NEW g \in Files,
         DeleteShare(c, g)
  PROVE  SharedFiles' = SharedFiles \ {g}
<1>1. share_file_list'[c][g] = <<>>
  BY DEF DeleteShare, SetShares, StoreTypeOK
<1>2. \A u \in Users, f \in Files :
        f # g => share_file_list'[u][f] = share_file_list[u][f]
  BY DEF DeleteShare, SetShares, StoreTypeOK
<1>3. ~IsShared(g)'
  BY <1>1 DEF IsShared, OneUser
<1>4. QED
  BY <1>2, <1>3 DEF SharedFiles, IsShared, Files

LEMMA UpdatedShared ==
  ASSUME StoreTypeOK, NEW g \in Files, NEW n \in Nat, UpdateSharePv(g, n)
  PROVE  SharedFiles' = SharedFiles
<1>1. StoreTypeOK'
  BY UpdateSharePvType
<1>2. ASSUME NEW u \in Users, NEW f \in Files
      PROVE  share_file_list'[u][f] # <<>> <=> share_file_list[u][f] # <<>>
  <2>1. share_file_list'[u][f] \in Seq(Nat) /\ share_file_list[u][f] \in Seq(Nat)
    BY <1>1 DEF StoreTypeOK
  <2>2. DOMAIN share_file_list'[u][f] = DOMAIN share_file_list[u][f]
    BY UpdatedShareRows
  <2>3. QED
    BY <2>1, <2>2, EmptySeq
<1>3. QED
  BY <1>2 DEF SharedFiles, IsShared, Files

(* What the statements on user_file_list make of the marks *)
LEMMA MarksElsewhere ==
  ASSUME StoreTypeOK, NEW c \in Users, NEW g \in Files, NEW rows,
         SetUserRows(c, g, rows), OneUser
  PROVE  /\ \A f \in Files : f # g => Marks(f)' = Marks(f)
         /\ Marks(g)' = {rows[i].shared : i \in DOMAIN rows}
<1>1. user_file_list'[c][g] = rows
  BY DEF SetUserRows, StoreTypeOK
<1>2. \A u \in Users, f \in Files :
        f # g => user_file_list'[u][f] = user_file_list[u][f]
  BY DEF SetUserRows, StoreTypeOK
<1>3. \A f \in Files : f # g => Marks(f)' = Marks(f)
  BY <1>2 DEF Marks
<1>4. \A u \in Users : user_file_list'[u][g] = rows
  BY <1>1 DEF OneUser
<1>5. Marks(g)' = UNION {{rows[i].shared : i \in DOMAIN rows} : u \in Users}
  BY <1>4 DEF Marks
<1>6. QED
  BY <1>3, <1>5

LEMMA ListedDomain ==
  ASSUME StoreTypeOK, NEW c \in Users, NEW g \in Files
  PROVE  Lists(c, g) <=> DOMAIN user_file_list[c][g] # {}
<1>1. PICK n \in Nat : DOMAIN user_file_list[c][g] = 1..n
                        /\ (Lists(c, g) <=> n >= 1)
  BY RowsNotEmpty
<1>2. n >= 1 <=> 1..n # {}
  OBVIOUS
<1>3. QED
  BY <1>1, <1>2

LEMMA MarksOfListed ==
  ASSUME StoreTypeOK, OneUser, NEW c \in Users, NEW g \in Files
  PROVE  Lists(c, g) <=> Marks(g) # {}
<1>1. Lists(c, g) <=> DOMAIN user_file_list[c][g] # {}
  BY ListedDomain
<1>2. \A u \in Users : user_file_list[u][g] = user_file_list[c][g]
  BY DEF OneUser
<1>3. Marks(g) = {user_file_list[c][g][i].shared : i \in DOMAIN user_file_list[c][g]}
  BY <1>2 DEF Marks
<1>4. QED
  BY <1>1, <1>3

LEMMA MarksUpdated ==
  ASSUME StoreTypeOK, OneUser, NEW c \in Users, NEW g \in Files,
         NEW n, UpdateShared(c, g, n)
  PROVE  /\ \A f \in Files : f # g => Marks(f)' = Marks(f)
         /\ Marks(g)' \subseteq {n}
         /\ Marks(g) # {} => Marks(g)' = {n}
<1> DEFINE rows == [i \in DOMAIN user_file_list[c][g] |->
                      [user_file_list[c][g][i] EXCEPT !.shared = n]]
<1>1. SetUserRows(c, g, rows)
  BY DEF UpdateShared
<1> HIDE DEF rows
<1> HIDE DEF rows
<1>2. /\ \A f \in Files : f # g => Marks(f)' = Marks(f)
      /\ Marks(g)' = {rows[i].shared : i \in DOMAIN rows}
  BY <1>1, MarksElsewhere
<1> USE DEF rows
<1> USE DEF rows
<1>3. \A i \in DOMAIN rows : rows[i].shared = n
  <2>1. user_file_list[c][g] \in Seq(UserFileRows)
    BY DEF StoreTypeOK
  <2>2. \A i \in DOMAIN user_file_list[c][g] :
          user_file_list[c][g][i] \in UserFileRows
    BY <2>1
  <2>3. QED
    BY <2>2 DEF UserFileRows
<1>4. Marks(g) # {} => DOMAIN rows # {}
  BY ListedDomain, MarksOfListed
<1> HIDE DEF rows
<1>5. QED
  BY <1>2, <1>3, <1>4

LEMMA MarksOfPv ==
  ASSUME StoreTypeOK, OneUser, NEW c \in Users, NEW g \in Files,
         NEW n, UpdateUserPv(c, g, n)
  PROVE  \A f \in Files : Marks(f)' = Marks(f)
<1> DEFINE rows == [i \in DOMAIN user_file_list[c][g] |->
                      [user_file_list[c][g][i] EXCEPT !.pv = n]]
<1>1. SetUserRows(c, g, rows)
  BY DEF UpdateUserPv
<1> HIDE DEF rows
<1> HIDE DEF rows
<1>2. /\ \A f \in Files : f # g => Marks(f)' = Marks(f)
      /\ Marks(g)' = {rows[i].shared : i \in DOMAIN rows}
  BY <1>1, MarksElsewhere
<1> USE DEF rows
<1> USE DEF rows
<1>3. \A i \in DOMAIN rows : rows[i].shared = user_file_list[c][g][i].shared
  <2>1. user_file_list[c][g] \in Seq(UserFileRows)
    BY DEF StoreTypeOK
  <2>2. \A i \in DOMAIN user_file_list[c][g] :
          user_file_list[c][g][i] \in UserFileRows
    BY <2>1
  <2>3. QED
    BY <2>2 DEF UserFileRows
<1>4. DOMAIN rows = DOMAIN user_file_list[c][g]
  OBVIOUS
<1>5. \A u \in Users : user_file_list[u][g] = user_file_list[c][g]
  BY DEF OneUser
<1> HIDE DEF rows
<1>6. Marks(g)' = {user_file_list[c][g][i].shared : i \in DOMAIN user_file_list[c][g]}
  BY <1>2, <1>3, <1>4
<1>7. Marks(g) = {user_file_list[c][g][i].shared : i \in DOMAIN user_file_list[c][g]}
  BY <1>5 DEF Marks
<1>8. QED
  BY <1>2, <1>6, <1>7

LEMMA MarksInserted ==
  ASSUME StoreTypeOK, OneUser, NEW c \in Users, NEW g \in Files,
         ~Lists(c, g), InsertUserFile(c, g)
  PROVE  /\ \A f \in Files : f # g => Marks(f)' = Marks(f)
         /\ Marks(g) = {} /\ 1 \notin Marks(g)'
<1> DEFINE row == [shared |-> 0, pv |-> 0]
<1>1. SetUserRows(c, g, <<row>>)
  <2>1. user_file_list[c][g] = <<>>
    BY DEF Lists
  <2>2. Append(<<>>, row) = <<row>>
    OBVIOUS
  <2>3. QED
    BY <2>1, <2>2 DEF InsertUserFile
<1>2. /\ \A f \in Files : f # g => Marks(f)' = Marks(f)
      /\ Marks(g)' = {<<row>>[i].shared : i \in DOMAIN <<row>>}
  BY <1>1, MarksElsewhere
<1>3. \A i \in DOMAIN <<row>> : <<row>>[i].shared = 0
  OBVIOUS
<1>4. QED
  BY <1>2, <1>3, MarksOfListed

LEMMA MarksDeleted ==
  ASSUME StoreTypeOK, OneUser, NEW c \in Users, NEW g \in Files,
         DeleteUserFile(c, g)
  PROVE  /\ \A f \in Files : f # g => Marks(f)' = Marks(f)
         /\ Marks(g)' = {}
<1>1. SetUserRows(c, g, <<>>)
  BY DEF DeleteUserFile
<1>2. DOMAIN <<>> = {}
  OBVIOUS
<1>3. QED
  BY <1>1, <1>2, MarksElsewhere

(* What the total says after the statements on it *)
LEMMA TotalUp ==
  ASSUME StoreTypeOK, IncrementCount(ShareTotal, Total)
  PROVE  /\ CountOf(ShareTotal)' = CountOf(ShareTotal) + 1
         /\ UNCHANGED <<user_file_list, share_file_list, zset>>
<1>1. ShareTotal \in Counters /\ Total \in Int \cup {None}
  BY DEF StoreTypeOK, Counters, Total
<1>2. CASE Total = None
  <2>1. SetCount(ShareTotal, 1)
    BY <1>2 DEF IncrementCount, IncrementFails, Total
  <2>2. user_file_count'[ShareTotal] = 1
    BY <1>1, <2>1 DEF SetCount, StoreTypeOK
  <2>3. QED
    BY <1>2, <2>1, <2>2, NoneIsNoValue
       DEF CountOf, SetCount, Total, redisVars
<1>3. CASE Total # None
  <2>1. UpdateCount(ShareTotal, Total + 1)
    BY <1>3 DEF IncrementCount
  <2>2. SetCount(ShareTotal, Total + 1)
    BY <1>3, <2>1 DEF UpdateCount, Total
  <2>3. user_file_count'[ShareTotal] = Total + 1
    BY <1>1, <2>2 DEF SetCount, StoreTypeOK
  <2>4. QED
    BY <1>1, <1>3, <2>2, <2>3, NoneIsNoValue
       DEF CountOf, SetCount, Total, redisVars
<1>4. QED
  BY <1>2, <1>3

LEMMA TotalDown ==
  ASSUME StoreTypeOK, Total # None, UpdateCount(ShareTotal, Total - 1)
  PROVE  /\ CountOf(ShareTotal)' = CountOf(ShareTotal) - 1
         /\ UNCHANGED <<user_file_list, share_file_list, zset>>
<1>1. ShareTotal \in Counters /\ Total \in Int
  BY DEF StoreTypeOK, Counters, Total
<1>2. SetCount(ShareTotal, Total - 1)
  BY DEF UpdateCount, Total
<1>3. user_file_count'[ShareTotal] = Total - 1
  BY <1>1, <1>2 DEF SetCount, StoreTypeOK
<1>4. QED
  BY <1>1, <1>2, <1>3, NoneIsNoValue DEF CountOf, SetCount, Total, redisVars

LEMMA TotalType ==
  ASSUME StoreTypeOK
  PROVE  /\ Total \in Int \cup {None}
         /\ CountOf(ShareTotal) \in Int
         /\ CountOf(ShareTotal) = IF Total = None THEN 0 ELSE Total
<1>1. Total \in Int \cup {None}
  BY DEF StoreTypeOK, Counters, Total
<1>2. QED
  BY <1>1 DEF CountOf, Total

-----------------------------------------------------------------------------
(* One user who asks only what the lists offer.  While no deletion was     *)
(* misled, the statements under way tell how far the total is behind the   *)
(* shares.                                                                 *)
AddsSoon   == {"share: select total", "share: write total"}
TakesSoon  == {"del: select total", "del: write total"}

Behind ==
  IF dealfile.pc \in AddsSoon \/ dealshare.pc = "cancel: delete share" THEN 1
  ELSE IF dealfile.pc \in TakesSoon THEN 0 - 1
  ELSE 0

TotalInv ==
  /\ IsFiniteSet(SharedFiles)
  /\ CountOf(ShareTotal) + Behind = Cardinality(SharedFiles)
  /\ dealfile.pc \in {"share: write total", "del: write total"} =>
       dealfile.count = Total
  /\ dealshare.pc = "cancel: write total" => dealshare.count = Total
  /\ dealshare.pc = "cancel: delete share" => Total = None

(* What the program at work knows of its file *)
Cancels == {"cancel: select total", "cancel: write total",
            "cancel: delete share"}

SharingKnows ==
  /\ dealfile.pc \in {"share: zadd again", "share: select total",
                      "share: write total", "share: zadd",
                      "del: delete share"} => dealfile.file \in SharedFiles
  /\ dealfile.pc \in {"share: mark", "share: insert", "del: select total",
                      "del: write total", "del: zrem", "del: hdel"} =>
       dealfile.file \notin SharedFiles
  /\ dealfile.pc \in {"share: zset_exit", "share: select", "share: mark"} =>
       Marks(dealfile.file) # {}
  /\ dealfile.pc = "share: insert" => Marks(dealfile.file) = {1}
  /\ dealfile.pc \in {"del: select count", "del: write count",
                      "del: delete user file"}
       /\ dealfile.file \in SharedFiles => dealfile.file \in past.brokenOff
  /\ dealshare.pc \in (SharePvSteps \ {"pv: select"})
                        \cup {"cancel: mark"} \cup Cancels =>
       dealshare.file \in SharedFiles
  /\ dealshare.pc \in Cancels => 1 \notin Marks(dealshare.file)
  /\ dealshare.pc \in {"cancel: zrem", "cancel: hdel"} =>
       dealshare.file \notin SharedFiles

(* The marks of a user's files and the shares, but for a file whose share  *)
(* is about to come, or to go together with its row or its mark            *)
MarkLate(f) ==
  dealfile.file = f /\ dealfile.pc \in
    {"share: insert", "del: select total", "del: write total", "del: zrem",
     "del: hdel", "del: select count", "del: write count",
     "del: delete user file"}

MarkGone(f) == dealshare.file = f /\ dealshare.pc \in Cancels

MarkInv ==
  \A f \in Files :
    IF f \in SharedFiles
    THEN Marks(f) = {1} \/ f \in past.brokenOff \/ MarkGone(f)
    ELSE 1 \notin Marks(f) \/ MarkLate(f)

(* What Redis holds is shared, was left behind, or is about to go.         *)
LeavesSoon(f) ==
  \/ dealfile.file = f /\ dealfile.pc \in TakesSoon \cup {"del: zrem"}
  \/ dealshare.file = f /\ dealshare.pc = "cancel: zrem"

LeftInv ==
  /\ Ranked \subseteq Files /\ past.leftBehind \subseteq Ranked \ SharedFiles
  /\ \A f \in Ranked :
       f \in SharedFiles \/ f \in past.leftBehind \/ LeavesSoon(f)

SharingInv == TotalInv /\ SharingKnows /\ MarkInv /\ LeftInv

(* What is remembered, in terms of the files that are shared and ranked *)
LEMMA PastTells ==
  ASSUME PastShape, Remembers, past.leftBehind \subseteq Files,
         JustLeftBehind \subseteq Files
  PROVE  /\ \A f \in Files : f \in past'.brokenOff <=>
              f \in past.brokenOff \cup JustBrokenOff /\ f \in SharedFiles'
         /\ past'.leftBehind = {f \in past.leftBehind \cup JustLeftBehind :
                                  f \in Ranked' \ SharedFiles'}
         /\ past'.misled = (past.misled \/ JustMisled)
<1>1. \A f \in Files : /\ IsShared(f)' <=> f \in SharedFiles'
                       /\ zset'[f] # None <=> f \in Ranked'
  BY SharedMember DEF Ranked, Files
<1>2. QED
  BY <1>1, PastMoves

LEMMA CardOfShares ==
  ASSUME TotalInv
  PROVE  /\ Cardinality(SharedFiles) \in Nat
         /\ Cardinality(SharedFiles) = 0 <=> SharedFiles = {}
BY FS_CardinalityType, FS_EmptySet DEF TotalInv

LEMMA OneMoreShared ==
  ASSUME TotalInv, NEW g, g \notin SharedFiles,
         SharedFiles' = SharedFiles \cup {g}
  PROVE  /\ IsFiniteSet(SharedFiles')
         /\ Cardinality(SharedFiles') = Cardinality(SharedFiles) + 1
BY FS_AddElement DEF TotalInv

LEMMA OneLessShared ==
  ASSUME TotalInv, NEW g \in SharedFiles, SharedFiles' = SharedFiles \ {g}
  PROVE  /\ IsFiniteSet(SharedFiles')
         /\ Cardinality(SharedFiles') = Cardinality(SharedFiles) - 1
BY FS_RemoveElement DEF TotalInv

(* A step that leaves these alone *)
SharesStill  == SharedFiles' = SharedFiles
MarksStill   == \A f \in Files : Marks(f)' = Marks(f)
RankedStill  == Ranked' = Ranked
TotalStill   == user_file_count'[ShareTotal] = user_file_count[ShareTotal]

LEMMA StoresStill ==
  /\ UNCHANGED share_file_list => SharesStill
  /\ UNCHANGED user_file_list  => MarksStill
  /\ UNCHANGED zset            => RankedStill
  /\ UNCHANGED user_file_count => TotalStill
<1>1. UNCHANGED share_file_list => SharesStill
  BY DEF SharesStill, SharedFiles, IsShared, Files
<1>2. UNCHANGED user_file_list => MarksStill
  BY DEF MarksStill, Marks
<1>3. UNCHANGED zset => RankedStill
  BY DEF RankedStill, Ranked, Files
<1>4. UNCHANGED user_file_count => TotalStill
  BY DEF TotalStill
<1>5. QED
  BY <1>1, <1>2, <1>3, <1>4

LEMMA TotalStillCount ==
  ASSUME TotalStill
  PROVE  CountOf(ShareTotal)' = CountOf(ShareTotal) /\ Total' = Total
BY DEF TotalStill, CountOf, Total

(* Nothing but what the program knows changes. *)
AllStill ==
  SharesStill /\ MarksStill /\ RankedStill /\ TotalStill

LEMMA UnchangedStoresStill ==
  ASSUME UNCHANGED storeVars
  PROVE  AllStill
BY StoresStill DEF AllStill, storeVars, mysqlVars, redisVars

(* Two programs at rest, before and after *)
LEMMA SharingStill ==
  ASSUME SharingInv, SharesStill, TotalStill, RankedStill,
         dealfile.pc \in {"idle", "reply"}, dealfile'.pc \in {"idle", "reply"},
         dealshare.pc \in {"idle", "dead", "reply"},
         dealshare'.pc \in {"idle", "dead", "reply"},
         \A f \in Files : 1 \in Marks(f)' => 1 \in Marks(f),
         \A f \in Files : Marks(f) = {1} => Marks(f)' = {1},
         past'.leftBehind = past.leftBehind,
         \A f \in SharedFiles : f \in past.brokenOff => f \in past'.brokenOff
  PROVE  SharingInv'
<1>1. Behind = 0 /\ Behind' = 0
  BY DEF Behind, AddsSoon, TakesSoon
<1>2. TotalInv'
  BY <1>1, TotalStillCount DEF SharingInv, TotalInv, SharesStill
<1>3. SharingKnows'
  BY DEF SharingKnows, SharePvSteps, Cancels
<1>4. MarkInv'
  BY DEF SharingInv, MarkInv, MarkLate, MarkGone, Cancels, SharesStill, Files,
    SharedFiles
<1>5. LeftInv'
  BY DEF SharingInv, LeftInv, LeavesSoon, TakesSoon, SharesStill, RankedStill,
    Files
<1>6. QED
  BY <1>2, <1>3, <1>4, <1>5 DEF SharingInv

DealRemembers ==
  /\ UNCHANGED dealshare /\ dealshare.pc \in {"idle", "dead"}
  /\ dealfile.pc # "idle" => dealfile.user \in Users /\ dealfile.file \in Files
  /\ \A f \in Files :
       f \in past.brokenOff /\ f \in SharedFiles' => f \in past'.brokenOff
  /\ past'.leftBehind = {f \in past.leftBehind \cup JustLeftBehind :
                           f \in Ranked' \ SharedFiles'}
  /\ JustLeftBehind \subseteq {dealfile.file}
  /\ dealfile.pc # "del: write total" \/ dealfile.flag => JustLeftBehind = {}

LEMMA DealRemembersThis ==
  ASSUME Typed, PastShape, SharingInv, DealAlone
  PROVE  DealRemembers
<1>1. UNCHANGED dealshare /\ dealshare.pc \in {"idle", "dead"}
  BY DEF DealAlone, DealShareRests
<1>2. dealfile.pc # "idle" => dealfile.user \in Users /\ dealfile.file \in Files
  BY DEF Typed, DealLocals
<1>3. /\ JustLeftBehind \subseteq {dealfile.file}
      /\ dealfile.pc # "del: write total" \/ dealfile.flag => JustLeftBehind = {}
  BY DEF JustLeftBehind
<1>4. JustLeftBehind \subseteq Files
  BY <1>2, <1>3
<1>5. past.leftBehind \subseteq Files
  BY DEF SharingInv, LeftInv
<1>6. QED
  BY <1>1, <1>2, <1>3, <1>4, <1>5, PastTells DEF DealRemembers, DealAlone

LEMMA ShareKeepsSharing ==
  ASSUME OneUser, Typed, SharingInv, DealRemembers, ShareStep
  PROVE  SharingInv'
<1> USE DEF Typed, TypeOK
<1>g. PICK g : g = dealfile.file
  OBVIOUS
<1> USE <1>g
<1>0. /\ dealshare' = dealshare /\ dealshare.pc \in {"idle", "dead"}
      /\ \A f \in Files :
           f \in past.brokenOff /\ f \in SharedFiles' => f \in past'.brokenOff
  BY DEF DealRemembers
<1>0a. /\ dealfile.user \in Users /\ g \in Files
       /\ past'.leftBehind = {f \in past.leftBehind : f \in Ranked' \ SharedFiles'}
  <2>1. dealfile.pc \notin {"idle", "del: write total"}
    BY DEF ShareStep, ShareZsetExit, ShareSelect, ShareZaddAgain, ShareMark,
      ShareInsert, ShareSelectTotal, ShareWriteTotal, ShareZadd, ShareHset
  <2>2. QED
    BY <2>1 DEF DealRemembers
<1>0b. Files' = Files
  BY DEF Files
<1>1. CASE ShareZsetExit
  <2>1. /\ dealfile.pc = "share: zset_exit" /\ dealfile'.file = g
        /\ dealfile'.pc \in {"share: select", "reply"}
    BY <1>1 DEF ShareZsetExit, DealGoes, DealReplies, DealTypeOK
  <2>2. AllStill
    BY <1>1, UnchangedStoresStill DEF ShareZsetExit
  <2>3. TotalInv'
    BY <1>0, <2>1, <2>2, TotalStillCount DEF SharingInv, TotalInv, Behind,
      AddsSoon, TakesSoon, AllStill, SharesStill
  <2>4. SharingKnows'
    BY <1>0, <1>0a, <2>1, <2>2 DEF SharingInv, SharingKnows, SharePvSteps, Cancels,
      AllStill, SharesStill, MarksStill
  <2>5. MarkInv'
    BY <1>0, <1>0b, <2>1, <2>2 DEF SharingInv, MarkInv, MarkLate, MarkGone, Cancels,
      AllStill, SharesStill, MarksStill
  <2>6. LeftInv'
    BY <1>0, <1>0a, <1>0b, <2>1, <2>2 DEF SharingInv, LeftInv, LeavesSoon, TakesSoon,
      AllStill, SharesStill, RankedStill
  <2>7. QED
    BY <2>3, <2>4, <2>5, <2>6 DEF SharingInv
<1>2. CASE ShareSelect
  <2>1. /\ dealfile.pc = "share: select" /\ dealfile'.file = g
        /\ dealfile'.pc = IF g \in SharedFiles THEN "share: zadd again"
                                               ELSE "share: mark"
    BY <1>0a, <1>2, SharedMember DEF ShareSelect, DealGoes, DealTypeOK
  <2>2. AllStill
    BY <1>2, UnchangedStoresStill DEF ShareSelect
  <2>3. TotalInv'
    BY <1>0, <2>1, <2>2, TotalStillCount DEF SharingInv, TotalInv, Behind,
      AddsSoon, TakesSoon, AllStill, SharesStill
  <2>4. SharingKnows'
    BY <1>0, <1>0a, <2>1, <2>2 DEF SharingInv, SharingKnows, SharePvSteps, Cancels,
      AllStill, SharesStill, MarksStill
  <2>5. MarkInv'
    BY <1>0, <1>0b, <2>1, <2>2 DEF SharingInv, MarkInv, MarkLate, MarkGone, Cancels,
      AllStill, SharesStill, MarksStill
  <2>6. LeftInv'
    BY <1>0, <1>0a, <1>0b, <2>1, <2>2 DEF SharingInv, LeftInv, LeavesSoon, TakesSoon,
      AllStill, SharesStill, RankedStill
  <2>7. QED
    BY <2>3, <2>4, <2>5, <2>6 DEF SharingInv
<1>3. CASE ShareZaddAgain \/ ShareZadd
  <2>1. /\ dealfile.pc \in {"share: zadd again", "share: zadd"} /\ Zadd(g, 0)
        /\ dealfile'.pc \in {"reply", "share: hset"} /\ dealfile'.file = g
    BY <1>3 DEF ShareZaddAgain, ShareZadd, DealReplies, DealGoes, DealTypeOK
  <2>2. Ranked' = Ranked \cup {g} /\ g \in SharedFiles
    <3>1. 0 \in Int
      OBVIOUS
    <3>2. QED
      BY <1>0a, <2>1, <3>1, ZaddRanks DEF SharingInv, SharingKnows
  <2>3. SharesStill /\ MarksStill /\ TotalStill
    BY <2>1, StoresStill DEF Zadd, SetZset, mysqlVars
  <2>4. TotalInv'
    BY <1>0, <2>1, <2>3, TotalStillCount DEF SharingInv, TotalInv, Behind,
      AddsSoon, TakesSoon, SharesStill
  <2>5. SharingKnows'
    BY <1>0, <1>0a, <2>1, <2>3 DEF SharingKnows, SharePvSteps, Cancels
  <2>6. MarkInv'
    BY <1>0, <1>0b, <2>1, <2>3 DEF SharingInv, MarkInv, MarkLate, MarkGone, Cancels,
      SharesStill, MarksStill
  <2>7. LeftInv'
    BY <1>0, <1>0a, <1>0b, <2>1, <2>2, <2>3 DEF SharingInv, LeftInv, LeavesSoon,
      TakesSoon, SharesStill
  <2>8. QED
    BY <2>4, <2>5, <2>6, <2>7 DEF SharingInv
<1>4. CASE ShareMark
  <2>1. /\ dealfile.pc = "share: mark" /\ UpdateShared(dealfile.user, g, 1)
        /\ dealfile'.pc = "share: insert" /\ dealfile'.file = g
    BY <1>4 DEF ShareMark, DealGoes, DealTypeOK
  <2>2. Marks(g)' = {1} /\ \A f \in Files : f # g => Marks(f)' = Marks(f)
    <3>1. Marks(g) # {}
      BY <2>1 DEF SharingInv, SharingKnows
    <3>2. PICK n, u : /\ n = 1 /\ u \in Users /\ u = dealfile.user
                    /\ UpdateShared(u, g, n)
      BY <1>0a, <2>1
    <3>3. /\ \A f \in Files : f # g => Marks(f)' = Marks(f)
          /\ Marks(g) # {} => Marks(g)' = {n}
      BY <1>0a, <3>2, MarksUpdated
    <3>4. QED
      BY <3>1, <3>2, <3>3
  <2>3. SharesStill /\ RankedStill /\ TotalStill
    BY <2>1, StoresStill DEF UpdateShared, SetUserRows, redisVars
  <2>4. g \notin SharedFiles
    BY <2>1 DEF SharingInv, SharingKnows
  <2>5. TotalInv'
    BY <1>0, <2>1, <2>3, TotalStillCount DEF SharingInv, TotalInv, Behind,
      AddsSoon, TakesSoon, SharesStill
  <2>6. SharingKnows'
    BY <1>0, <2>1, <2>2, <2>3, <2>4 DEF SharingKnows, SharePvSteps, Cancels,
      SharesStill
  <2>7. MarkInv'
    BY <1>0, <1>0b, <2>1, <2>2, <2>3, <2>4 DEF SharingInv, MarkInv, MarkLate,
      MarkGone, Cancels, SharesStill
  <2>8. LeftInv'
    BY <1>0, <1>0a, <1>0b, <2>1, <2>3 DEF SharingInv, LeftInv, LeavesSoon,
      TakesSoon, SharesStill, RankedStill
  <2>9. QED
    BY <2>5, <2>6, <2>7, <2>8 DEF SharingInv
<1>5. CASE ShareInsert
  <2>1. /\ dealfile.pc = "share: insert" /\ InsertShare(dealfile.user, g)
        /\ dealfile'.pc = "share: select total" /\ dealfile'.file = g
    BY <1>5 DEF ShareInsert, DealGoes, DealTypeOK
  <2>2. SharedFiles' = SharedFiles \cup {g} /\ g \notin SharedFiles
          /\ Marks(g) = {1}
    BY <1>0a, <2>1, InsertedShared DEF SharingInv, SharingKnows
  <2>3. MarksStill /\ RankedStill /\ TotalStill
    BY <2>1, StoresStill DEF InsertShare, SetShares, redisVars
  <2>4. TotalInv'
    <3>1. /\ IsFiniteSet(SharedFiles')
          /\ Cardinality(SharedFiles') = Cardinality(SharedFiles) + 1
      BY <2>2, OneMoreShared DEF SharingInv
    <3>2. Behind = 0 /\ Behind' = 1
      BY <1>0, <2>1 DEF Behind, AddsSoon, TakesSoon
    <3>3. CountOf(ShareTotal) + 0 = Cardinality(SharedFiles)
            /\ CountOf(ShareTotal) \in Int
      BY <3>2, TotalType DEF SharingInv, TotalInv
    <3>4. CountOf(ShareTotal)' + Behind' = Cardinality(SharedFiles')
      BY <2>3, <3>1, <3>2, <3>3, TotalStillCount
    <3>5. QED
      BY <1>0, <2>1, <3>1, <3>4 DEF SharingInv, TotalInv
  <2>5. SharingKnows'
    BY <1>0, <2>1, <2>2 DEF SharingKnows, SharePvSteps, Cancels
  <2>6. MarkInv'
    BY <1>0, <1>0b, <2>1, <2>2, <2>3 DEF SharingInv, MarkInv, MarkLate, MarkGone,
      Cancels, MarksStill
  <2>7. LeftInv'
    BY <1>0, <1>0a, <1>0b, <2>1, <2>2, <2>3 DEF SharingInv, LeftInv, LeavesSoon,
      TakesSoon, RankedStill
  <2>8. QED
    BY <2>4, <2>5, <2>6, <2>7 DEF SharingInv
<1>6. CASE ShareSelectTotal
  <2>1. /\ dealfile.pc = "share: select total" /\ dealfile'.file = g
        /\ dealfile'.pc = "share: write total" /\ dealfile'.count = Total
    BY <1>6 DEF ShareSelectTotal, DealTypeOK, Total
  <2>2. AllStill
    BY <1>6, UnchangedStoresStill DEF ShareSelectTotal
  <2>3. TotalInv'
    BY <1>0, <2>1, <2>2, TotalStillCount DEF SharingInv, TotalInv, Behind,
      AddsSoon, TakesSoon, AllStill, SharesStill
  <2>4. SharingKnows'
    BY <1>0, <1>0a, <2>1, <2>2 DEF SharingInv, SharingKnows, SharePvSteps, Cancels,
      AllStill, SharesStill
  <2>5. MarkInv'
    BY <1>0, <1>0b, <2>1, <2>2 DEF SharingInv, MarkInv, MarkLate, MarkGone, Cancels,
      AllStill, SharesStill, MarksStill
  <2>6. LeftInv'
    BY <1>0, <1>0a, <1>0b, <2>1, <2>2 DEF SharingInv, LeftInv, LeavesSoon, TakesSoon,
      AllStill, SharesStill, RankedStill
  <2>7. QED
    BY <2>3, <2>4, <2>5, <2>6 DEF SharingInv
<1>7. CASE ShareWriteTotal
  <2>1. dealfile.pc = "share: write total" /\ dealfile.count = Total
    BY <1>7 DEF ShareWriteTotal, SharingInv, TotalInv
  <2>2. dealfile'.pc = "share: zadd" /\ dealfile'.file = g
    BY <1>7, <2>1 DEF ShareWriteTotal, IncrementFails, DealGoes, DealTypeOK,
      Total
  <2>3. /\ CountOf(ShareTotal)' = CountOf(ShareTotal) + 1
        /\ UNCHANGED <<user_file_list, share_file_list, zset>>
    BY <1>7, <2>1, TotalUp DEF ShareWriteTotal
  <2>4. SharesStill /\ MarksStill /\ RankedStill
    BY <2>3, StoresStill
  <2>5. TotalInv'
    <3>1. Behind = 1 /\ Behind' = 0
      BY <1>0, <2>1, <2>2 DEF Behind, AddsSoon, TakesSoon
    <3>2. CountOf(ShareTotal) + 1 = Cardinality(SharedFiles)
            /\ CountOf(ShareTotal) \in Int
      BY <3>1, TotalType DEF SharingInv, TotalInv
    <3>3. CountOf(ShareTotal)' + Behind' = Cardinality(SharedFiles')
      BY <2>3, <2>4, <3>1, <3>2 DEF SharesStill
    <3>4. QED
      BY <1>0, <2>2, <2>4, <3>3 DEF SharingInv, TotalInv, SharesStill
  <2>6. SharingKnows'
    BY <1>0, <2>1, <2>2, <2>4 DEF SharingInv, SharingKnows, SharePvSteps,
      Cancels, SharesStill
  <2>7. MarkInv'
    BY <1>0, <1>0b, <2>1, <2>2, <2>4 DEF SharingInv, MarkInv, MarkLate, MarkGone,
      Cancels, SharesStill, MarksStill
  <2>8. LeftInv'
    BY <1>0, <1>0a, <1>0b, <2>1, <2>2, <2>4 DEF SharingInv, LeftInv, LeavesSoon,
      TakesSoon, SharesStill, RankedStill
  <2>9. QED
    BY <2>5, <2>6, <2>7, <2>8 DEF SharingInv
<1>8. CASE ShareHset
  <2>1. dealfile.pc = "share: hset" /\ dealfile'.pc = "reply"
    BY <1>8 DEF ShareHset, DealReplies, DealTypeOK
  <2>2. AllStill
    BY <1>8, StoresStill DEF ShareHset, Hset, SetHash, mysqlVars, AllStill
  <2>3. TotalInv'
    BY <1>0, <2>1, <2>2, TotalStillCount DEF SharingInv, TotalInv, Behind,
      AddsSoon, TakesSoon, AllStill, SharesStill
  <2>4. SharingKnows'
    BY <1>0, <2>1 DEF SharingKnows, SharePvSteps, Cancels
  <2>5. MarkInv'
    BY <1>0, <1>0b, <2>1, <2>2 DEF SharingInv, MarkInv, MarkLate, MarkGone, Cancels,
      AllStill, SharesStill, MarksStill
  <2>6. LeftInv'
    BY <1>0, <1>0a, <1>0b, <2>1, <2>2 DEF SharingInv, LeftInv, LeavesSoon, TakesSoon,
      AllStill, SharesStill, RankedStill
  <2>7. QED
    BY <2>3, <2>4, <2>5, <2>6 DEF SharingInv
<1>9. QED
  BY <1>1, <1>2, <1>3, <1>4, <1>5, <1>6, <1>7, <1>8 DEF ShareStep

RefSteps == {"del: select refs", "del: write refs", "del: select file_id",
             "del: delete file_info", "del: remove blob"}

LEMMA DelLeavesIdle ==
  ASSUME DelStep
  PROVE  dealfile.pc # "idle"
<1>1. CASE DelZsetExit \/ DelNoStatus \/ DelSelectStatus \/ DelDeleteShare
             \/ DelSelectTotal \/ DelWriteTotal \/ DelZrem \/ DelHdel
  BY <1>1 DEF DelZsetExit, DelNoStatus, DelSelectStatus, DelDeleteShare,
    DelSelectTotal, DelWriteTotal, DelZrem, DelHdel
<1>2. CASE DelSelectCount \/ DelWriteCount \/ DelDeleteUserFile \/ DelNoRefs
             \/ DelSelectRefs \/ DelWriteRefs \/ DelSelectFileId
             \/ DelDeleteFileInfo \/ DelRemoveBlob
  BY <1>2 DEF DelSelectCount, DelWriteCount, DelDeleteUserFile, DelNoRefs,
    DelSelectRefs, DelWriteRefs, DelSelectFileId, DelDeleteFileInfo,
    DelRemoveBlob
<1>3. CASE DelHdelDies \/ DelNoFileId \/ DelRemoveNothing
  BY <1>3 DEF DelHdelDies, DelNoFileId, DelRemoveNothing
<1>4. QED
  BY <1>1, <1>2, <1>3 DEF DelStep

LEMMA DelKeepsSharing ==
  ASSUME OneUser, Typed, CountsInOrder, SharingInv, DealRemembers,
         upload.pc = "idle", instant.pc = "idle", ~JustMisled, DelStep
  PROVE  SharingInv'
<1> USE DEF Typed, TypeOK
<1>g. PICK g : g = dealfile.file
  OBVIOUS
<1> USE <1>g
<1>0. /\ dealshare' = dealshare /\ dealshare.pc \in {"idle", "dead"}
      /\ \A f \in Files :
           f \in past.brokenOff /\ f \in SharedFiles' => f \in past'.brokenOff
  BY DEF DealRemembers
<1>0a. /\ dealfile.user \in Users /\ g \in Files
       /\ dealfile.pc # "del: write total" \/ dealfile.flag =>
            past'.leftBehind = {f \in past.leftBehind : f \in Ranked' \ SharedFiles'}
  <2>1. dealfile.pc # "idle"
    BY DelLeavesIdle
  <2>2. QED
    BY <2>1 DEF DealRemembers
<1>0b. Files' = Files
  BY DEF Files
<1>1. CASE DelZsetExit
  <2>1. /\ dealfile.pc = "del: zset_exit" /\ dealfile'.file = g
        /\ dealfile'.pc \in {"del: delete share", "del: select status", "reply"}
        /\ dealfile'.pc = "del: delete share" =>
             dealfile'.flag /\ 1 \in ZsetExit(g)
    BY <1>1 DEF DelZsetExit, DealGoes, DealReplies, DealTypeOK
  <2>2. AllStill
    BY <1>1, UnchangedStoresStill DEF DelZsetExit
  <2>3. dealfile'.pc = "del: delete share" => g \in SharedFiles
    <3> SUFFICES ASSUME dealfile'.pc = "del: delete share"
                 PROVE  g \in SharedFiles
      OBVIOUS
    <3>1. g \in Ranked
      BY <1>0a, <2>1, ExitFindsMember DEF Ranked
    <3>2. g \notin past.leftBehind
      BY <2>1 DEF JustMisled
    <3>3. QED
      BY <1>0, <2>1, <3>1, <3>2 DEF SharingInv, LeftInv, LeavesSoon, TakesSoon
  <2>4. TotalInv'
    BY <1>0, <2>1, <2>2, TotalStillCount DEF SharingInv, TotalInv, Behind,
      AddsSoon, TakesSoon, AllStill, SharesStill
  <2>5. SharingKnows'
    BY <1>0, <1>0a, <2>1, <2>2, <2>3 DEF SharingInv, SharingKnows, SharePvSteps,
      Cancels, AllStill, SharesStill
  <2>6. MarkInv'
    BY <1>0, <1>0b, <2>1, <2>2 DEF SharingInv, MarkInv, MarkLate, MarkGone,
      Cancels, AllStill, SharesStill, MarksStill
  <2>7. LeftInv'
    BY <1>0, <1>0a, <1>0b, <2>1, <2>2 DEF SharingInv, LeftInv, LeavesSoon,
      TakesSoon, AllStill, SharesStill, RankedStill
  <2>8. QED
    BY <2>4, <2>5, <2>6, <2>7 DEF SharingInv
<1>2. CASE DelSelectStatus
  <2>1. /\ dealfile.pc = "del: select status" /\ dealfile'.file = g
        /\ \/ dealfile'.pc = "del: delete share" /\ 1 \in Marks(g)
           \/ dealfile'.pc = "del: select count" /\ Marks(g) # {1}
    <3>1. PICK i \in DOMAIN user_file_list[dealfile.user][g] :
            LET share == user_file_list[dealfile.user][g][i].shared
            IN dealfile' = [dealfile EXCEPT !.count = share,
                 !.pc = IF share = 1 THEN "del: delete share"
                                     ELSE "del: select count"]
      BY <1>2 DEF DelSelectStatus
    <3>2. PICK s : s = user_file_list[dealfile.user][g][i].shared
      OBVIOUS
    <3>3. s \in Marks(g)
      BY <1>0a, <3>2, MarkOfRow
    <3>4. dealfile.pc = "del: select status"
      BY <1>2 DEF DelSelectStatus
    <3>5. /\ dealfile'.pc = IF s = 1 THEN "del: delete share"
                                     ELSE "del: select count"
          /\ dealfile'.file = g
      BY <3>1, <3>2 DEF DealTypeOK
    <3>6. QED
      BY <3>3, <3>4, <3>5
  <2>2. AllStill
    BY <1>2, UnchangedStoresStill DEF DelSelectStatus
  <2>3. dealfile'.pc = "del: delete share" => g \in SharedFiles
    BY <1>0a, <2>1 DEF SharingInv, MarkInv, MarkLate
  <2>4. dealfile'.pc = "del: select count" /\ g \in SharedFiles =>
          g \in past.brokenOff
    BY <1>0, <1>0a, <2>1 DEF SharingInv, MarkInv, MarkGone, Cancels
  <2>5. TotalInv'
    BY <1>0, <2>1, <2>2, TotalStillCount DEF SharingInv, TotalInv, Behind,
      AddsSoon, TakesSoon, AllStill, SharesStill
  <2>6. SharingKnows'
    BY <1>0, <1>0a, <2>1, <2>2, <2>3, <2>4 DEF SharingKnows, SharePvSteps,
      Cancels, AllStill, SharesStill
  <2>7. MarkInv'
    BY <1>0, <1>0b, <2>1, <2>2 DEF SharingInv, MarkInv, MarkLate, MarkGone,
      Cancels, AllStill, SharesStill, MarksStill
  <2>8. LeftInv'
    BY <1>0, <1>0a, <1>0b, <2>1, <2>2 DEF SharingInv, LeftInv, LeavesSoon,
      TakesSoon, AllStill, SharesStill, RankedStill
  <2>9. QED
    BY <2>5, <2>6, <2>7, <2>8 DEF SharingInv
<1>3. CASE DelDeleteShare
  <2>1. /\ dealfile.pc = "del: delete share"
        /\ DeleteShare(dealfile.user, g)
        /\ dealfile'.pc = "del: select total" /\ dealfile'.file = g
    BY <1>3 DEF DelDeleteShare, DealGoes, DealTypeOK
  <2>2. SharedFiles' = SharedFiles \ {g} /\ g \in SharedFiles
    BY <1>0a, <2>1, DeletedShared DEF SharingInv, SharingKnows
  <2>3. MarksStill /\ RankedStill /\ TotalStill
    BY <2>1, StoresStill DEF DeleteShare, SetShares, redisVars
  <2>4. TotalInv'
    <3>1. /\ IsFiniteSet(SharedFiles')
          /\ Cardinality(SharedFiles') = Cardinality(SharedFiles) - 1
      BY <2>2, OneLessShared DEF SharingInv
    <3>2. Behind = 0 /\ Behind' = 0 - 1
      BY <1>0, <2>1 DEF Behind, AddsSoon, TakesSoon
    <3>3. CountOf(ShareTotal) + 0 = Cardinality(SharedFiles)
            /\ CountOf(ShareTotal) \in Int
      BY <3>2, TotalType DEF SharingInv, TotalInv
    <3>4. CountOf(ShareTotal)' + Behind' = Cardinality(SharedFiles')
      BY <2>3, <3>1, <3>2, <3>3, TotalStillCount
    <3>5. QED
      BY <1>0, <2>1, <3>1, <3>4 DEF SharingInv, TotalInv
  <2>5. SharingKnows'
    BY <1>0, <2>1, <2>2 DEF SharingKnows, SharePvSteps, Cancels
  <2>6. MarkInv'
    BY <1>0, <1>0b, <2>1, <2>2, <2>3 DEF SharingInv, MarkInv, MarkLate,
      MarkGone, Cancels, MarksStill
  <2>7. LeftInv'
    BY <1>0, <1>0a, <1>0b, <2>1, <2>2, <2>3 DEF SharingInv, LeftInv,
      LeavesSoon, TakesSoon, RankedStill
  <2>8. QED
    BY <2>4, <2>5, <2>6, <2>7 DEF SharingInv
<1>4. CASE DelSelectTotal
  <2>1. /\ dealfile.pc = "del: select total" /\ dealfile'.file = g
        /\ dealfile'.pc = "del: write total" /\ dealfile'.count = Total
    <3>1. dealfile.pc = "del: select total"
      BY <1>4 DEF DelSelectTotal
    <3>2. Behind = 0 - 1
      BY <1>0, <3>1 DEF Behind, AddsSoon, TakesSoon
    <3>3. CountOf(ShareTotal) + (0 - 1) = Cardinality(SharedFiles)
            /\ Cardinality(SharedFiles) \in Nat
      BY <3>2, CardOfShares DEF SharingInv, TotalInv
    <3>4. Total # None
      <4>1. Total = None => CountOf(ShareTotal) = 0
        BY TotalType
      <4>2. QED
        BY <3>3, <4>1
    <3>5. QED
      BY <1>4, <3>4 DEF DelSelectTotal, Total, DealTypeOK
  <2>2. AllStill
    BY <1>4, UnchangedStoresStill DEF DelSelectTotal
  <2>3. TotalInv'
    BY <1>0, <2>1, <2>2, TotalStillCount DEF SharingInv, TotalInv, Behind,
      AddsSoon, TakesSoon, AllStill, SharesStill
  <2>4. SharingKnows'
    BY <1>0, <1>0a, <2>1, <2>2 DEF SharingInv, SharingKnows, SharePvSteps,
      Cancels, AllStill, SharesStill
  <2>5. MarkInv'
    BY <1>0, <1>0b, <2>1, <2>2 DEF SharingInv, MarkInv, MarkLate, MarkGone,
      Cancels, AllStill, SharesStill, MarksStill
  <2>6. LeftInv'
    BY <1>0, <1>0a, <1>0b, <2>1, <2>2 DEF SharingInv, LeftInv, LeavesSoon,
      TakesSoon, AllStill, SharesStill, RankedStill
  <2>7. QED
    BY <2>3, <2>4, <2>5, <2>6 DEF SharingInv
<1>5. CASE DelWriteTotal
  <2>1. /\ dealfile.pc = "del: write total" /\ dealfile.count = Total
        /\ dealfile'.pc = (IF dealfile.flag THEN "del: zrem"
                                            ELSE "del: select count")
        /\ dealfile'.file = g /\ UpdateCount(ShareTotal, dealfile.count - 1)
    BY <1>5 DEF DelWriteTotal, SharingInv, TotalInv, DealGoes, DealTypeOK
  <2>2. /\ CountOf(ShareTotal)' = CountOf(ShareTotal) - 1
        /\ UNCHANGED <<user_file_list, share_file_list, zset>>
    <3>1. Total # None
      BY <2>1, NoneIsNoValue DEF DealLocals
    <3>2. QED
      BY <2>1, <3>1, TotalDown
  <2>3. SharesStill /\ MarksStill /\ RankedStill /\ g \notin SharedFiles
    BY <2>1, <2>2, StoresStill DEF SharingInv, SharingKnows
  <2>4. TotalInv'
    <3>1. Behind = 0 - 1 /\ Behind' = 0
      BY <1>0, <2>1 DEF Behind, AddsSoon, TakesSoon
    <3>2. CountOf(ShareTotal) + (0 - 1) = Cardinality(SharedFiles)
            /\ CountOf(ShareTotal) \in Int
      BY <3>1, TotalType DEF SharingInv, TotalInv
    <3>3. CountOf(ShareTotal)' + Behind' = Cardinality(SharedFiles')
      BY <2>2, <2>3, <3>1, <3>2 DEF SharesStill
    <3>4. QED
      BY <1>0, <2>1, <2>3, <3>3 DEF SharingInv, TotalInv, SharesStill
  <2>5. SharingKnows'
    BY <1>0, <2>1, <2>3 DEF SharingKnows, SharePvSteps, Cancels, SharesStill
  <2>6. MarkInv'
    BY <1>0, <1>0b, <2>1, <2>3 DEF SharingInv, MarkInv, MarkLate, MarkGone,
      Cancels, SharesStill, MarksStill
  <2>7. LeftInv'
    <3>1. CASE dealfile.flag
      BY <1>0, <1>0a, <1>0b, <2>1, <2>3, <3>1 DEF SharingInv, LeftInv,
        LeavesSoon, TakesSoon, SharesStill, RankedStill
    <3>2. CASE ~dealfile.flag
      <4>1. JustLeftBehind = {g}
        BY <2>1, <3>2 DEF JustLeftBehind
      <4>2. past'.leftBehind = {f \in past.leftBehind \cup {g} :
                                  f \in Ranked \ SharedFiles}
        BY <2>3, <4>1 DEF DealRemembers, SharesStill, RankedStill
      <4>3. QED
        BY <1>0, <1>0b, <2>1, <2>3, <4>2 DEF SharingInv, LeftInv, LeavesSoon,
          TakesSoon, SharesStill, RankedStill
    <3>3. QED
      BY <3>1, <3>2
  <2>8. QED
    BY <2>4, <2>5, <2>6, <2>7 DEF SharingInv
<1>6. CASE DelZrem
  <2>1. /\ dealfile.pc = "del: zrem" /\ dealfile'.pc = "del: hdel"
        /\ dealfile'.file = g /\ Zrem(g)
    BY <1>6 DEF DelZrem, DealGoes, DealTypeOK
  <2>2. Ranked' = Ranked \ {g}
    BY <1>0a, <2>1, ZremRanks
  <2>3. SharesStill /\ MarksStill /\ TotalStill /\ g \notin SharedFiles
    BY <2>1, StoresStill DEF Zrem, SetZset, mysqlVars, SharingInv, SharingKnows
  <2>4. TotalInv'
    BY <1>0, <2>1, <2>3, TotalStillCount DEF SharingInv, TotalInv, Behind,
      AddsSoon, TakesSoon, SharesStill
  <2>5. SharingKnows'
    BY <1>0, <2>1, <2>3 DEF SharingKnows, SharePvSteps, Cancels, SharesStill
  <2>6. MarkInv'
    BY <1>0, <1>0b, <2>1, <2>3 DEF SharingInv, MarkInv, MarkLate, MarkGone,
      Cancels, SharesStill, MarksStill
  <2>7. LeftInv'
    BY <1>0, <1>0a, <1>0b, <2>1, <2>2, <2>3 DEF SharingInv, LeftInv,
      LeavesSoon, TakesSoon, SharesStill
  <2>8. QED
    BY <2>4, <2>5, <2>6, <2>7 DEF SharingInv
<1>7. CASE DelHdel
  <2>1. /\ dealfile.pc = "del: hdel"
        /\ dealfile'.pc = "del: select count" /\ dealfile'.file = g
    BY <1>7 DEF DelHdel, DealGoes, DealTypeOK
  <2>2. AllStill
    BY <1>7, StoresStill DEF DelHdel, Hdel, SetHash, mysqlVars, AllStill
  <2>3. TotalInv'
    BY <1>0, <2>1, <2>2, TotalStillCount DEF SharingInv, TotalInv, Behind,
      AddsSoon, TakesSoon, AllStill, SharesStill
  <2>4. SharingKnows'
    BY <1>0, <1>0a, <2>1, <2>2 DEF SharingInv, SharingKnows, SharePvSteps,
      Cancels, AllStill, SharesStill
  <2>5. MarkInv'
    BY <1>0, <1>0b, <2>1, <2>2 DEF SharingInv, MarkInv, MarkLate, MarkGone,
      Cancels, AllStill, SharesStill, MarksStill
  <2>6. LeftInv'
    BY <1>0, <1>0a, <1>0b, <2>1, <2>2 DEF SharingInv, LeftInv, LeavesSoon,
      TakesSoon, AllStill, SharesStill, RankedStill
  <2>7. QED
    BY <2>3, <2>4, <2>5, <2>6 DEF SharingInv
<1>8. CASE DelSelectCount
  <2>1. /\ dealfile.pc = "del: select count" /\ dealfile'.file = g
        /\ dealfile'.pc = "del: write count"
    <3>1. dealfile.pc = "del: select count"
      BY <1>8 DEF DelSelectCount
    <3>2. PICK u : u \in Users /\ u = dealfile.user
      BY <1>0a
    <3>3. Lists(u, g) /\ Owed(u) = 0
      BY <3>1, <3>2 DEF CountsInOrder, DriftInv, KnowsInv, DealKnows,
        DelBegins, Owed, UploadOwes, InstantOwes, DealOwes
    <3>4. user_file_count[dealfile.user] # None
      BY <1>0a, <3>2, <3>3, ListedIsCounted
    <3>5. QED
      BY <1>8, <3>4 DEF DelSelectCount, DealTypeOK
  <2>2. AllStill
    BY <1>8, UnchangedStoresStill DEF DelSelectCount
  <2>3. TotalInv'
    BY <1>0, <2>1, <2>2, TotalStillCount DEF SharingInv, TotalInv, Behind,
      AddsSoon, TakesSoon, AllStill, SharesStill
  <2>4. SharingKnows'
    BY <1>0, <1>0a, <2>1, <2>2 DEF SharingInv, SharingKnows, SharePvSteps,
      Cancels, AllStill, SharesStill
  <2>5. MarkInv'
    BY <1>0, <1>0b, <2>1, <2>2 DEF SharingInv, MarkInv, MarkLate, MarkGone,
      Cancels, AllStill, SharesStill, MarksStill
  <2>6. LeftInv'
    BY <1>0, <1>0a, <1>0b, <2>1, <2>2 DEF SharingInv, LeftInv, LeavesSoon,
      TakesSoon, AllStill, SharesStill, RankedStill
  <2>7. QED
    BY <2>3, <2>4, <2>5, <2>6 DEF SharingInv
<1>9. CASE DelWriteCount
  <2>1. /\ dealfile.pc = "del: write count" /\ dealfile'.file = g
        /\ dealfile'.pc = "del: delete user file"
    BY <1>9 DEF DelWriteCount, DealGoes, DealTypeOK
  <2>2. AllStill
    <3>1. /\ UNCHANGED <<user_file_list, share_file_list, zset>>
          /\ TotalStill
      BY <1>9, <1>0a, ShareTotalIsNoUser DEF DelWriteCount, UpdateCount,
        DeleteCount, SetCount, redisVars, TotalStill, StoreTypeOK, Counters
    <3>2. QED
      BY <3>1, StoresStill DEF AllStill
  <2>3. TotalInv'
    BY <1>0, <2>1, <2>2, TotalStillCount DEF SharingInv, TotalInv, Behind,
      AddsSoon, TakesSoon, AllStill, SharesStill
  <2>4. SharingKnows'
    BY <1>0, <1>0a, <2>1, <2>2 DEF SharingInv, SharingKnows, SharePvSteps,
      Cancels, AllStill, SharesStill
  <2>5. MarkInv'
    BY <1>0, <1>0b, <2>1, <2>2 DEF SharingInv, MarkInv, MarkLate, MarkGone,
      Cancels, AllStill, SharesStill, MarksStill
  <2>6. LeftInv'
    BY <1>0, <1>0a, <1>0b, <2>1, <2>2 DEF SharingInv, LeftInv, LeavesSoon,
      TakesSoon, AllStill, SharesStill, RankedStill
  <2>7. QED
    BY <2>3, <2>4, <2>5, <2>6 DEF SharingInv
<1>10. CASE DelDeleteUserFile
  <2>1. /\ dealfile.pc = "del: delete user file"
        /\ DeleteUserFile(dealfile.user, g)
        /\ dealfile'.pc = "del: select refs"
    BY <1>10 DEF DelDeleteUserFile, DealGoes, DealTypeOK
  <2>2. /\ Marks(g)' = {}
        /\ \A f \in Files : f # g => Marks(f)' = Marks(f)
    BY <1>0a, <2>1, MarksDeleted
  <2>3. SharesStill /\ RankedStill /\ TotalStill
    BY <2>1, StoresStill DEF DeleteUserFile, SetUserRows, redisVars
  <2>4. g \in SharedFiles => g \in past.brokenOff
    BY <2>1 DEF SharingInv, SharingKnows
  <2>5. TotalInv'
    BY <1>0, <2>1, <2>3, TotalStillCount DEF SharingInv, TotalInv, Behind,
      AddsSoon, TakesSoon, SharesStill
  <2>6. SharingKnows'
    BY <1>0, <2>1 DEF SharingKnows, SharePvSteps, Cancels
  <2>7. MarkInv'
    BY <1>0, <1>0a, <1>0b, <2>1, <2>2, <2>3, <2>4 DEF SharingInv, MarkInv,
      MarkLate, MarkGone, Cancels, SharesStill
  <2>8. LeftInv'
    BY <1>0, <1>0a, <1>0b, <2>1, <2>3 DEF SharingInv, LeftInv,
      LeavesSoon, TakesSoon, SharesStill, RankedStill
  <2>9. QED
    BY <2>5, <2>6, <2>7, <2>8 DEF SharingInv
<1>11. CASE DelNoRefs \/ DelSelectRefs \/ DelWriteRefs \/ DelSelectFileId
             \/ DelDeleteFileInfo \/ DelRemoveBlob
             \/ DelNoFileId \/ DelRemoveNothing
  <2>1. /\ dealfile.pc  \in RefSteps
        /\ dealfile'.pc \in RefSteps \cup {"reply"}
    BY <1>11 DEF DelNoRefs, DelSelectRefs, DelWriteRefs, DelSelectFileId,
      DelNoFileId, DelRemoveNothing, DelDeleteFileInfo, DelRemoveBlob, DealGoes, DealReplies, DealTypeOK,
      RefSteps
  <2>2. AllStill
    <3>1. UNCHANGED <<user_file_list, share_file_list, zset, user_file_count>>
      BY <1>11 DEF DelNoRefs, DelSelectRefs, DelWriteRefs, DelSelectFileId,
        DelNoFileId, DelRemoveNothing, DelDeleteFileInfo, DelRemoveBlob, UpdateFileInfo, DeleteFileInfo,
        RemoveBlob, storeVars, mysqlVars, redisVars
    <3>2. QED
      BY <3>1, StoresStill DEF AllStill
  <2>3. TotalInv'
    BY <1>0, <2>1, <2>2, TotalStillCount DEF SharingInv, TotalInv, Behind,
      AddsSoon, TakesSoon, AllStill, SharesStill, RefSteps
  <2>4. SharingKnows'
    BY <1>0, <2>1 DEF SharingKnows, SharePvSteps, Cancels, RefSteps
  <2>5. MarkInv'
    BY <1>0, <1>0b, <2>1, <2>2 DEF SharingInv, MarkInv, MarkLate, MarkGone,
      Cancels, AllStill, SharesStill, MarksStill, RefSteps
  <2>6. LeftInv'
    BY <1>0, <1>0a, <1>0b, <2>1, <2>2 DEF SharingInv, LeftInv, LeavesSoon,
      TakesSoon, AllStill, SharesStill, RankedStill, RefSteps
  <2>7. QED
    BY <2>3, <2>4, <2>5, <2>6 DEF SharingInv
<1>12. ~DelNoStatus /\ ~DelHdelDies
  <2>1. dealfile.pc = "del: select status" => Lists(dealfile.user, dealfile.file)
    BY DEF CountsInOrder, DriftInv, KnowsInv, DealKnows, DelBegins
  <2>2. ~DelHdelDies
    BY IdlePcs DEF DelHdelDies, JustMisled
  <2>3. QED
    BY <2>1, <2>2 DEF DelNoStatus
<1>13. QED
  BY <1>1, <1>2, <1>3, <1>4, <1>5, <1>6, <1>7, <1>8, <1>9, <1>10, <1>11, <1>12
     DEF DelStep

LEMMA DealKeepsSharing ==
  ASSUME OneUser, Typed, PastShape, CountsInOrder, SharingInv, DealAlone,
         ~JustMisled
  PROVE  SharingInv'
<1>0. DealRemembers /\ upload.pc = "idle" /\ instant.pc = "idle"
  BY DealRemembersThis DEF DealAlone, UploadRests, InstantRests
<1>1. CASE PvStep \/ DealReply
  <2> USE DEF Typed, TypeOK
  <2>1. /\ dealfile.pc  \in {"pv: select", "pv: write", "reply"}
        /\ dealfile'.pc \in {"pv: write", "reply", "idle"}
    <3>1. DealIdle.pc = "idle"
      BY DEF DealIdle
    <3>2. QED
      BY <1>1, <3>1 DEF PvStep, PvMissing, PvSelect, PvWrite, DealReply,
        DealReplies, DealTypeOK
  <2>2. AllStill
    <3>1. CASE PvWrite
      <4>1. PICK u, g, n : /\ u \in Users /\ g \in Files
                           /\ UpdateUserPv(u, g, n)
        BY <3>1 DEF PvWrite, DealLocals
      <4>2. MarksStill
        BY <4>1, MarksOfPv DEF MarksStill
      <4>3. UNCHANGED <<share_file_list, zset, user_file_count>>
        BY <4>1 DEF UpdateUserPv, SetUserRows, redisVars
      <4>4. QED
        BY <4>2, <4>3, StoresStill DEF AllStill
    <3>2. CASE PvMissing \/ PvSelect \/ DealReply
      BY <3>2, UnchangedStoresStill DEF PvMissing, PvSelect, DealReply
    <3>3. QED
      BY <1>1, <3>1, <3>2 DEF PvStep
  <2>3. /\ dealshare' = dealshare /\ dealshare.pc \in {"idle", "dead"}
        /\ \A f \in Files :
             f \in past.brokenOff /\ f \in SharedFiles' => f \in past'.brokenOff
        /\ past'.leftBehind = {f \in past.leftBehind : f \in Ranked' \ SharedFiles'}
        /\ Files' = Files
    BY <1>0, <2>1 DEF DealRemembers, Files
  <2>4. TotalInv'
    BY <2>1, <2>2, <2>3, TotalStillCount DEF SharingInv, TotalInv, Behind,
      AddsSoon, TakesSoon, AllStill, SharesStill
  <2>5. SharingKnows'
    BY <2>1, <2>3 DEF SharingKnows, SharePvSteps, Cancels
  <2>6. MarkInv'
    BY <2>1, <2>2, <2>3 DEF SharingInv, MarkInv, MarkLate, MarkGone, Cancels,
      AllStill, SharesStill, MarksStill
  <2>7. LeftInv'
    BY <2>1, <2>2, <2>3 DEF SharingInv, LeftInv, LeavesSoon, TakesSoon,
      AllStill, SharesStill, RankedStill
  <2>8. QED
    BY <2>4, <2>5, <2>6, <2>7 DEF SharingInv
<1>2. QED
  BY <1>0, <1>1, ShareKeepsSharing, DelKeepsSharing DEF DealAlone, DealStep

(* dealsharefile *)
DealShareRemembers ==
  /\ UNCHANGED dealfile /\ dealfile.pc = "idle"
  /\ dealshare.pc # "idle" =>
       dealshare.user \in Users /\ dealshare.file \in Files
  /\ \A f \in Files : f \in past'.brokenOff <=>
       f \in past.brokenOff \cup JustBrokenOff /\ f \in SharedFiles'
  /\ past'.leftBehind = {f \in past.leftBehind : f \in Ranked' \ SharedFiles'}

LEMMA DealShareRemembersThis ==
  ASSUME Typed, PastShape, SharingInv, DealShareAlone
  PROVE  DealShareRemembers
<1>1. UNCHANGED dealfile /\ dealfile.pc = "idle"
  BY DEF DealShareAlone, DealRests
<1>2. dealshare.pc # "idle" =>
        dealshare.user \in Users /\ dealshare.file \in Files
  BY DEF Typed, DealShareLocals
<1>3. JustLeftBehind = {}
  BY <1>1 DEF JustLeftBehind
<1>4. past.leftBehind \subseteq Files
  BY DEF SharingInv, LeftInv
<1>5. QED
  BY <1>1, <1>2, <1>3, <1>4, PastTells DEF DealShareRemembers, DealShareAlone

LEMMA SharePvKeepsSharing ==
  ASSUME OneUser, Typed, SharingInv, DealShareRemembers, SharePvStep
  PROVE  SharingInv'
<1> USE DEF Typed, TypeOK
<1>g. PICK g : g = dealshare.file
  OBVIOUS
<1> USE <1>g
<1>1. dealshare.pc \in SharePvSteps
  BY DEF SharePvStep, SharePvMissing, SharePvSelect, SharePvWrite,
    SharePvZsetExit, SharePvZincrby, SharePvZadd, SharePvHset, SharePvSteps
<1>2. dealshare'.pc \in SharePvSteps \cup {"reply"} /\ dealshare'.file = g
  BY DEF SharePvStep, SharePvMissing, SharePvSelect, SharePvWrite,
    SharePvZsetExit, SharePvZincrby, SharePvZadd, SharePvHset, SharePvSteps,
    DealShareGoes, DealShareReplies, DealShareTypeOK
<1>3. /\ dealfile' = dealfile /\ dealfile.pc = "idle"
      /\ dealshare.user \in Users /\ g \in Files
      /\ \A f \in Files :
           f \in past.brokenOff /\ f \in SharedFiles' => f \in past'.brokenOff
      /\ past'.leftBehind = {f \in past.leftBehind : f \in Ranked' \ SharedFiles'}
      /\ Files' = Files
  BY <1>1 DEF DealShareRemembers, SharePvSteps, Files
<1>4. dealshare.pc # "pv: select" => g \in SharedFiles
  BY <1>1 DEF SharingInv, SharingKnows, SharePvSteps
<1>5. SharesStill /\ MarksStill /\ TotalStill
  <2>1. CASE SharePvWrite
    <3>1. dealshare.pc = "pv: write" /\ dealshare.count \in Nat
      BY <2>1 DEF SharePvWrite, DealShareLocals
    <3>2. PICK n : n = dealshare.count + 1 /\ UpdateSharePv(g, n)
      BY <2>1 DEF SharePvWrite
    <3>3. n \in Nat
      <4>1. dealshare.count + 1 \in Nat
        BY <3>1, NatSteps, Zenon
      <4>2. QED
        BY <3>2, <4>1
    <3>4. SharesStill
      BY <1>3, <3>2, <3>3, UpdatedShared DEF SharesStill
    <3>5. UNCHANGED <<user_file_list, user_file_count>>
      BY <3>2 DEF UpdateSharePv, SetShares
    <3>6. QED
      BY <3>4, <3>5, StoresStill
  <2>2. CASE ~SharePvWrite
    <3>1. UNCHANGED <<share_file_list, user_file_list, user_file_count>>
      BY <2>2 DEF SharePvStep, SharePvMissing, SharePvSelect, SharePvZsetExit,
        SharePvZincrby, SharePvZadd, SharePvHset, Zincrby, Zadd, SetZset, Hset,
        SetHash, storeVars, mysqlVars
    <3>2. QED
      BY <3>1, StoresStill
  <2>3. QED
    BY <2>1, <2>2
<1>6. RankedStill \/ (Ranked' = Ranked \cup {g} /\ g \in SharedFiles)
  <2>1. CASE SharePvZincrby
    <3>1. dealshare.pc = "pv: zincrby" /\ Zincrby(g)
      BY <2>1 DEF SharePvZincrby
    <3>2. QED
      BY <1>3, <1>4, <3>1, ZincrbyRanks
  <2>2. CASE SharePvZadd
    <3>1. dealshare.pc = "pv: zadd" /\ Zadd(g, dealshare.count + 1)
      BY <2>2 DEF SharePvZadd
    <3>2. dealshare.count \in Nat
      BY <3>1 DEF DealShareLocals
    <3>3. dealshare.count + 1 \in Int
      BY <3>2
    <3>4. QED
      BY <1>3, <1>4, <3>1, <3>3, ZaddRanks
  <2>3. CASE ~SharePvZincrby /\ ~SharePvZadd
    <3>1. UNCHANGED zset
      BY <2>3 DEF SharePvStep, SharePvMissing, SharePvSelect, SharePvWrite,
        SharePvZsetExit, SharePvHset, UpdateSharePv, SetShares, Hset, SetHash,
        storeVars, redisVars
    <3>2. QED
      BY <3>1, StoresStill
  <2>4. QED
    BY <2>1, <2>2, <2>3
<1>7. dealshare'.pc \in SharePvSteps \ {"pv: select"} => g \in SharedFiles
  <2>1. CASE SharePvSelect
    <3>1. PICK u \in Users : \E i \in DOMAIN share_file_list[u][g] : TRUE
      BY <2>1 DEF SharePvSelect
    <3>2. share_file_list[u][g] # <<>>
      BY <3>1
    <3>3. QED
      BY <1>3, <3>2, SharedMember DEF IsShared
  <2>2. CASE SharePvMissing
    BY <2>2 DEF SharePvMissing, DealShareReplies, DealShareTypeOK, SharePvSteps
  <2>3. CASE ~SharePvSelect /\ ~SharePvMissing
    <3>1. dealshare.pc # "pv: select"
      BY <2>3 DEF SharePvStep, SharePvWrite, SharePvZsetExit, SharePvZincrby,
        SharePvZadd, SharePvHset
    <3>2. QED
      BY <1>4, <3>1
  <2>4. QED
    BY <2>1, <2>2, <2>3
<1>8. TotalInv'
  BY <1>1, <1>2, <1>3, <1>5, TotalStillCount DEF SharingInv, TotalInv, Behind,
    AddsSoon, TakesSoon, SharesStill, SharePvSteps
<1>9. SharingKnows'
  BY <1>2, <1>3, <1>5, <1>7 DEF SharingKnows, SharePvSteps, Cancels,
    SharesStill
<1>10. MarkInv'
  BY <1>1, <1>2, <1>3, <1>5 DEF SharingInv, MarkInv, MarkLate, MarkGone,
    Cancels, SharesStill, MarksStill, SharePvSteps
<1>11. LeftInv'
  BY <1>1, <1>2, <1>3, <1>5, <1>6 DEF SharingInv, LeftInv, LeavesSoon,
    TakesSoon, SharesStill, RankedStill, SharePvSteps
<1>12. QED
  BY <1>8, <1>9, <1>10, <1>11 DEF SharingInv

LEMMA CancelKeepsSharing ==
  ASSUME OneUser, Typed, SharingInv, DealShareRemembers, CancelStep
  PROVE  SharingInv'
<1> USE DEF Typed, TypeOK
<1>g. PICK g : g = dealshare.file
  OBVIOUS
<1> USE <1>g
<1>1. dealshare.pc \in CancelSteps
  BY DEF CancelStep, CancelMark, CancelSelectTotal, CancelDeleteTotal,
    CancelCrashes, CancelDeleteShare, CancelZrem, CancelHdel,
    CancelHdelDies, CancelSteps
<1>2. /\ dealfile' = dealfile /\ dealfile.pc = "idle"
      /\ dealshare.user \in Users /\ g \in Files
      /\ \A f \in Files :
           f \in past.brokenOff /\ f \in SharedFiles' => f \in past'.brokenOff
      /\ past'.leftBehind = {f \in past.leftBehind : f \in Ranked' \ SharedFiles'}
      /\ Files' = Files
  BY <1>1 DEF DealShareRemembers, CancelSteps, Files
<1>3. CASE CancelMark
  <2>1. /\ dealshare.pc = "cancel: mark" /\ UpdateShared(dealshare.user, g, 0)
        /\ dealshare'.pc = "cancel: select total" /\ dealshare'.file = g
    BY <1>3 DEF CancelMark, DealShareGoes, DealShareTypeOK
  <2>2. 1 \notin Marks(g)' /\ \A f \in Files : f # g => Marks(f)' = Marks(f)
    <3>1. PICK u, n : /\ n = 0 /\ u \in Users /\ UpdateShared(u, g, n)
      BY <1>2, <2>1
    <3>2. /\ Marks(g)' \subseteq {n}
          /\ \A f \in Files : f # g => Marks(f)' = Marks(f)
      BY <1>2, <3>1, MarksUpdated
    <3>3. QED
      BY <3>1, <3>2
  <2>3. SharesStill /\ RankedStill /\ TotalStill /\ g \in SharedFiles
    BY <2>1, StoresStill DEF UpdateShared, SetUserRows, redisVars, SharingInv,
      SharingKnows
  <2>4. TotalInv'
    BY <1>2, <2>1, <2>3, TotalStillCount DEF SharingInv, TotalInv, Behind,
      AddsSoon, TakesSoon, SharesStill
  <2>5. SharingKnows'
    BY <1>2, <2>1, <2>2, <2>3 DEF SharingKnows, SharePvSteps, Cancels,
      SharesStill
  <2>6. MarkInv'
    BY <1>2, <2>1, <2>2, <2>3 DEF SharingInv, MarkInv, MarkLate, MarkGone,
      Cancels, SharesStill
  <2>7. LeftInv'
    BY <1>2, <2>1, <2>3 DEF SharingInv, LeftInv, LeavesSoon, TakesSoon,
      SharesStill, RankedStill
  <2>8. QED
    BY <2>4, <2>5, <2>6, <2>7 DEF SharingInv
<1>4. CASE CancelSelectTotal
  <2>1. dealshare.pc = "cancel: select total" /\ g \in SharedFiles
    BY <1>4 DEF CancelSelectTotal, SharingInv, SharingKnows, Cancels
  <2>2. Total # None
    <3>1. Behind = 0
      BY <1>2, <2>1 DEF Behind, AddsSoon, TakesSoon
    <3>2. CountOf(ShareTotal) + 0 = Cardinality(SharedFiles)
            /\ Cardinality(SharedFiles) \in Nat
            /\ Cardinality(SharedFiles) # 0
      BY <2>1, <3>1, CardOfShares DEF SharingInv, TotalInv
    <3>3. Total = None => CountOf(ShareTotal) = 0
      BY TotalType
    <3>4. QED
      BY <3>2, <3>3
  <2>3. /\ dealshare'.pc = "cancel: write total" /\ dealshare'.file = g
        /\ dealshare'.count = Total
    BY <1>4, <2>2 DEF CancelSelectTotal, Total, DealShareTypeOK
  <2>4. AllStill
    BY <1>4, UnchangedStoresStill DEF CancelSelectTotal
  <2>5. TotalInv'
    BY <1>2, <2>1, <2>3, <2>4, TotalStillCount DEF SharingInv, TotalInv, Behind,
      AddsSoon, TakesSoon, AllStill, SharesStill
  <2>6. SharingKnows'
    BY <1>2, <2>1, <2>3, <2>4 DEF SharingInv, SharingKnows, SharePvSteps,
      Cancels, AllStill, SharesStill, MarksStill
  <2>7. MarkInv'
    BY <1>2, <2>1, <2>3, <2>4 DEF SharingInv, MarkInv, MarkLate, MarkGone,
      Cancels, AllStill, SharesStill, MarksStill
  <2>8. LeftInv'
    BY <1>2, <2>1, <2>3, <2>4 DEF SharingInv, LeftInv, LeavesSoon, TakesSoon,
      AllStill, SharesStill, RankedStill
  <2>9. QED
    BY <2>5, <2>6, <2>7, <2>8 DEF SharingInv
<1>5. CASE CancelDeleteTotal
  <2>1. /\ dealshare.pc = "cancel: write total" /\ dealshare.count = 1
        /\ DeleteCount(ShareTotal)
        /\ dealshare'.pc = "cancel: delete share" /\ dealshare'.file = g
    BY <1>5 DEF CancelDeleteTotal, DealShareGoes, DealShareTypeOK
  <2>2. Total = 1 /\ Total' = None
    <3>1. Total = 1
      BY <2>1 DEF SharingInv, TotalInv
    <3>2. user_file_count'[ShareTotal] = None
      BY <2>1 DEF DeleteCount, SetCount, StoreTypeOK, Counters
    <3>3. QED
      BY <3>1, <3>2 DEF Total
  <2>3. SharesStill /\ MarksStill /\ RankedStill
    BY <2>1, StoresStill DEF DeleteCount, SetCount, redisVars
  <2>4. TotalInv'
    <3>1. Behind = 0 /\ Behind' = 1
      BY <1>2, <2>1 DEF Behind, AddsSoon, TakesSoon
    <3>2. CountOf(ShareTotal) = 1 /\ CountOf(ShareTotal)' = 0
      BY <2>2, NoneIsNoValue DEF CountOf, Total
    <3>3. CountOf(ShareTotal) + Behind = Cardinality(SharedFiles)
            /\ SharedFiles' = SharedFiles
      BY <2>3 DEF SharingInv, TotalInv, SharesStill
    <3>4. 1 = Cardinality(SharedFiles)
      BY <3>1, <3>2, <3>3
    <3>5. CountOf(ShareTotal)' + Behind' = Cardinality(SharedFiles')
      BY <3>1, <3>2, <3>3, <3>4
    <3>6. QED
      BY <1>2, <2>1, <2>2, <2>3, <3>5 DEF SharingInv, TotalInv, SharesStill
  <2>5. SharingKnows'
    BY <1>2, <2>1, <2>3 DEF SharingInv, SharingKnows, SharePvSteps,
      Cancels, SharesStill, MarksStill
  <2>6. MarkInv'
    BY <1>2, <2>1, <2>3 DEF SharingInv, MarkInv, MarkLate, MarkGone,
      Cancels, SharesStill, MarksStill
  <2>7. LeftInv'
    BY <1>2, <2>1, <2>3 DEF SharingInv, LeftInv, LeavesSoon, TakesSoon,
      SharesStill, RankedStill
  <2>8. QED
    BY <2>4, <2>5, <2>6, <2>7 DEF SharingInv
<1>6. CASE CancelCrashes
  <2>1. dealshare.pc = "cancel: write total" /\ dealshare'.pc = "dead"
    BY <1>6 DEF CancelCrashes, DealShareGoes, DealShareTypeOK
  <2>2. AllStill
    BY <1>6, UnchangedStoresStill DEF CancelCrashes
  <2>3. g \in SharedFiles /\ g \in past'.brokenOff
    <3>1. g \in SharedFiles
      BY <2>1 DEF SharingInv, SharingKnows, Cancels
    <3>2. g \in JustBrokenOff
      BY <2>1 DEF JustBrokenOff
    <3>3. QED
      BY <1>2, <2>2, <3>1, <3>2 DEF DealShareRemembers, AllStill, SharesStill
  <2>4. TotalInv'
    BY <1>2, <2>1, <2>2, TotalStillCount DEF SharingInv, TotalInv, Behind,
      AddsSoon, TakesSoon, AllStill, SharesStill
  <2>5. SharingKnows'
    BY <1>2, <2>1 DEF SharingKnows, SharePvSteps, Cancels
  <2>6. MarkInv'
    BY <1>2, <2>1, <2>2, <2>3 DEF SharingInv, MarkInv, MarkLate, MarkGone,
      Cancels, AllStill, SharesStill, MarksStill
  <2>7. LeftInv'
    BY <1>2, <2>1, <2>2 DEF SharingInv, LeftInv, LeavesSoon, TakesSoon,
      AllStill, SharesStill, RankedStill
  <2>8. QED
    BY <2>4, <2>5, <2>6, <2>7 DEF SharingInv
<1>7. CASE CancelDeleteShare
  <2>1. /\ dealshare.pc = "cancel: delete share"
        /\ DeleteShare(dealshare.user, g)
        /\ dealshare'.pc = "cancel: zrem" /\ dealshare'.file = g
    BY <1>7 DEF CancelDeleteShare, DealShareGoes, DealShareTypeOK
  <2>2. /\ SharedFiles' = SharedFiles \ {g} /\ g \in SharedFiles
        /\ 1 \notin Marks(g)
    BY <1>2, <2>1, DeletedShared DEF SharingInv, SharingKnows, Cancels
  <2>3. MarksStill /\ RankedStill /\ TotalStill
    BY <2>1, StoresStill DEF DeleteShare, SetShares, redisVars
  <2>4. TotalInv'
    <3>1. /\ IsFiniteSet(SharedFiles')
          /\ Cardinality(SharedFiles') = Cardinality(SharedFiles) - 1
      BY <2>2, OneLessShared DEF SharingInv
    <3>2. Behind = 1 /\ Behind' = 0
      BY <1>2, <2>1 DEF Behind, AddsSoon, TakesSoon
    <3>3. CountOf(ShareTotal) + 1 = Cardinality(SharedFiles)
            /\ CountOf(ShareTotal) \in Int
      BY <3>2, TotalType DEF SharingInv, TotalInv
    <3>4. CountOf(ShareTotal)' + Behind' = Cardinality(SharedFiles')
      BY <2>3, <3>1, <3>2, <3>3, TotalStillCount
    <3>5. QED
      BY <1>2, <2>1, <3>1, <3>4 DEF SharingInv, TotalInv
  <2>5. SharingKnows'
    BY <1>2, <2>1, <2>2 DEF SharingKnows, SharePvSteps, Cancels
  <2>6. MarkInv'
    BY <1>2, <2>1, <2>2, <2>3 DEF SharingInv, MarkInv, MarkLate, MarkGone,
      Cancels, MarksStill
  <2>7. LeftInv'
    BY <1>2, <2>1, <2>2, <2>3 DEF SharingInv, LeftInv, LeavesSoon, TakesSoon,
      RankedStill
  <2>8. QED
    BY <2>4, <2>5, <2>6, <2>7 DEF SharingInv
<1>8. CASE CancelZrem
  <2>1. /\ dealshare.pc = "cancel: zrem" /\ Zrem(g) /\ dealshare'.file = g
        /\ dealshare'.pc \in {"reply", "cancel: hdel"}
    BY <1>8 DEF CancelZrem, DealShareGoes, DealShareReplies, DealShareTypeOK
  <2>2. Ranked' = Ranked \ {g}
    BY <1>2, <2>1, ZremRanks
  <2>3. SharesStill /\ MarksStill /\ TotalStill /\ g \notin SharedFiles
    BY <2>1, StoresStill DEF Zrem, SetZset, mysqlVars, SharingInv, SharingKnows
  <2>4. TotalInv'
    BY <1>2, <2>1, <2>3, TotalStillCount DEF SharingInv, TotalInv, Behind,
      AddsSoon, TakesSoon, SharesStill
  <2>5. SharingKnows'
    BY <1>2, <2>1, <2>3 DEF SharingKnows, SharePvSteps, Cancels, SharesStill
  <2>6. MarkInv'
    BY <1>2, <2>1, <2>3 DEF SharingInv, MarkInv, MarkLate, MarkGone,
      Cancels, SharesStill, MarksStill
  <2>7. LeftInv'
    BY <1>2, <2>1, <2>2, <2>3 DEF SharingInv, LeftInv, LeavesSoon, TakesSoon,
      SharesStill
  <2>8. QED
    BY <2>4, <2>5, <2>6, <2>7 DEF SharingInv
<1>9. CASE CancelHdel
  <2>1. dealshare.pc = "cancel: hdel" /\ dealshare'.pc = "reply"
    BY <1>9 DEF CancelHdel, DealShareReplies, DealShareTypeOK
  <2>2. AllStill
    BY <1>9, StoresStill DEF CancelHdel, Hdel, SetHash, mysqlVars, AllStill
  <2>3. TotalInv'
    BY <1>2, <2>1, <2>2, TotalStillCount DEF SharingInv, TotalInv, Behind,
      AddsSoon, TakesSoon, AllStill, SharesStill
  <2>4. SharingKnows'
    BY <1>2, <2>1 DEF SharingKnows, SharePvSteps, Cancels
  <2>5. MarkInv'
    BY <1>2, <2>1, <2>2 DEF SharingInv, MarkInv, MarkLate, MarkGone,
      Cancels, AllStill, SharesStill, MarksStill
  <2>6. LeftInv'
    BY <1>2, <2>1, <2>2 DEF SharingInv, LeftInv, LeavesSoon, TakesSoon,
      AllStill, SharesStill, RankedStill
  <2>7. QED
    BY <2>3, <2>4, <2>5, <2>6 DEF SharingInv
<1>10. CASE CancelHdelDies
  <2>1. dealshare.pc = "cancel: hdel" /\ dealshare'.pc = "dead"
    BY <1>10 DEF CancelHdelDies, DealShareGoes, DealShareTypeOK
  <2>2. AllStill
    BY <1>10, UnchangedStoresStill DEF CancelHdelDies
  <2>3. TotalInv'
    BY <1>2, <2>1, <2>2, TotalStillCount DEF SharingInv, TotalInv, Behind,
      AddsSoon, TakesSoon, AllStill, SharesStill
  <2>4. SharingKnows'
    BY <1>2, <2>1 DEF SharingKnows, SharePvSteps, Cancels
  <2>5. MarkInv'
    BY <1>2, <2>1, <2>2 DEF SharingInv, MarkInv, MarkLate, MarkGone,
      Cancels, AllStill, SharesStill, MarksStill
  <2>6. LeftInv'
    BY <1>2, <2>1, <2>2 DEF SharingInv, LeftInv, LeavesSoon, TakesSoon,
      AllStill, SharesStill, RankedStill
  <2>7. QED
    BY <2>3, <2>4, <2>5, <2>6 DEF SharingInv
<1>11. QED
  BY <1>3, <1>4, <1>5, <1>6, <1>7, <1>8, <1>9, <1>10 DEF CancelStep

LEMMA DealShareKeepsSharing ==
  ASSUME OneUser, Typed, PastShape, SharingInv, DealShareAlone
  PROVE  SharingInv'
<1>0. DealShareRemembers
  BY DealShareRemembersThis
<1>1. CASE SaveStep \/ DealShareReply
  <2>1. /\ dealshare.pc \in SaveSteps \cup {"reply"}
        /\ dealshare'.pc \in {"save: select refs", "save: write refs", "reply",
                              "dead", "idle"}
    <3>1. DealShareIdle.pc = "idle"
      BY DEF DealShareIdle
    <3>2. QED
      BY <1>1, <3>1 DEF SaveStep, SaveSelectOwn, SaveUnknown, SaveSelectRefs,
        SaveWriteRefs, SaveSteps, DealShareReply, DealShareReplies,
        DealShareGoes, DealShareTypeOK, Typed, TypeOK
  <2>2. AllStill
    BY <1>1, UnchangedStoresStill DEF SaveStep, SaveSelectOwn, SaveUnknown,
      SaveSelectRefs, SaveWriteRefs, DealShareReply
  <2>3. /\ dealfile' = dealfile /\ dealfile.pc = "idle" /\ Files' = Files
        /\ \A f \in Files :
             f \in past.brokenOff /\ f \in SharedFiles' => f \in past'.brokenOff
        /\ past'.leftBehind = {f \in past.leftBehind : f \in Ranked' \ SharedFiles'}
    BY <1>0 DEF DealShareRemembers, Files
  <2>4. TotalInv'
    BY <2>1, <2>2, <2>3, TotalStillCount DEF SharingInv, TotalInv, Behind,
      AddsSoon, TakesSoon, AllStill, SharesStill, SaveSteps
  <2>5. SharingKnows'
    BY <2>1, <2>3 DEF SharingKnows, SharePvSteps, Cancels
  <2>6. MarkInv'
    BY <2>1, <2>2, <2>3 DEF SharingInv, MarkInv, MarkLate, MarkGone, Cancels,
      AllStill, SharesStill, MarksStill, SaveSteps
  <2>7. LeftInv'
    BY <2>1, <2>2, <2>3 DEF SharingInv, LeftInv, LeavesSoon, TakesSoon,
      AllStill, SharesStill, RankedStill, SaveSteps
  <2>8. QED
    BY <2>4, <2>5, <2>6, <2>7 DEF SharingInv
<1>2. QED
  BY <1>0, <1>1, SharePvKeepsSharing, CancelKeepsSharing DEF DealShareAlone,
    DealShareStep

(* What is remembered when neither dealfile nor dealsharefile moves on *)
LEMMA OthersRemember ==
  ASSUME PastShape, SharingInv, Remembers, dealfile.pc = "idle",
         dealshare.pc \in {"idle", "dead"}
  PROVE  /\ \A f \in Files :
              f \in past.brokenOff /\ f \in SharedFiles' => f \in past'.brokenOff
         /\ past'.leftBehind = {f \in past.leftBehind : f \in Ranked' \ SharedFiles'}
         /\ SharesStill /\ RankedStill =>
              /\ past'.leftBehind = past.leftBehind
              /\ \A f \in SharedFiles :
                   f \in past.brokenOff => f \in past'.brokenOff
<1>1. JustLeftBehind = {} /\ past.leftBehind \subseteq Files
  BY DEF JustLeftBehind, SharingInv, LeftInv
<1>2. /\ \A f \in Files :
           f \in past.brokenOff /\ f \in SharedFiles' => f \in past'.brokenOff
      /\ past'.leftBehind = {f \in past.leftBehind : f \in Ranked' \ SharedFiles'}
  BY <1>1, PastTells
<1>3. SharedFiles \subseteq Files
  BY DEF SharedFiles
<1>4. past.leftBehind \subseteq Ranked \ SharedFiles
  BY DEF SharingInv, LeftInv
<1>5. QED
  BY <1>2, <1>3, <1>4 DEF SharesStill, RankedStill

(* upload and md5 insert a row without a mark, of a file that the user     *)
(* does not have.                                                          *)
LEMMA NewRowMarks ==
  ASSUME Typed, OneUser, DriftInv,
         UploadInsertUserFile \/ InstantInsertUserFile
  PROVE  \A f \in Files : /\ 1 \in Marks(f)' => 1 \in Marks(f)
                          /\ Marks(f) = {1} => Marks(f)' = {1}
<1>1. PICK u \in Users, g \in Files : ~Lists(u, g) /\ InsertUserFile(u, g)
  BY DEF UploadInsertUserFile, InstantInsertUserFile, Typed, UploadLocals,
    InstantLocals, DriftInv, KnowsInv, UploadKnows, InstantKnows
<1>2. /\ \A f \in Files : f # g => Marks(f)' = Marks(f)
      /\ Marks(g) = {} /\ 1 \notin Marks(g)'
  BY <1>1, MarksInserted DEF Typed, TypeOK
<1>3. QED
  BY <1>2

LEMMA UploadKeepsSharing ==
  ASSUME OneUser, Typed, PastShape, CountsInOrder, SharingInv,
         UploadAlone \/ InstantAlone
  PROVE  SharingInv'
<1>1. /\ UNCHANGED <<dealfile, dealshare>> /\ Remembers
      /\ dealfile.pc = "idle" /\ dealshare.pc \in {"idle", "dead"}
      /\ UploadStep \/ InstantStep
  BY DEF UploadAlone, InstantAlone, DealRests, DealShareRests
<1>2. SharesStill /\ RankedStill /\ TotalStill
  <2>1. UNCHANGED <<share_file_list, zset>>
    BY <1>1, OthersKeepShares, UploadKeepsRedis DEF redisVars
  <2>2. RankKept
    BY <1>1, UploadSameRank, InstantSameRank
  <2>3. QED
    BY <2>1, <2>2, StoresStill DEF RankKept, TotalStill
<1>3. \A f \in Files : /\ 1 \in Marks(f)' => 1 \in Marks(f)
                       /\ Marks(f) = {1} => Marks(f)' = {1}
  <2>1. CASE UploadInsertUserFile \/ InstantInsertUserFile
    BY <2>1, NewRowMarks DEF CountsInOrder
  <2>2. CASE ~UploadInsertUserFile /\ ~InstantInsertUserFile
    <3>1. UNCHANGED user_file_list
      <4>1. CASE UploadStep
        BY <2>2, <4>1 DEF UploadStep, UploadStoreBlob, UploadInsertFileInfo,
          UploadSelectCount, UploadWriteCount, UploadReply, StoreBlob,
          InsertFileInfo, IncrementCount, UpdateCount, SetCount, storeVars,
          mysqlVars
      <4>2. CASE InstantStep
        BY <2>2, <4>2 DEF InstantStep, InstantUnknown, InstantSelectRefs,
          InstantSelectOwn, InstantWriteRefs, InstantSelectCount,
          InstantWriteCount, InstantReply, UpdateFileInfo, IncrementCount,
          UpdateCount, SetCount, storeVars, mysqlVars
      <4>3. QED
        BY <1>1, <4>1, <4>2
    <3>2. MarksStill
      BY <3>1, StoresStill
    <3>3. QED
      BY <3>2 DEF MarksStill
  <2>3. QED
    BY <2>1, <2>2
<1>4. QED
  BY <1>1, <1>2, <1>3, OthersRemember, SharingStill

(* sharefiles writes Redis alone, and what it reloads is shared. *)
LEMMA ListingRanks ==
  ASSUME Typed, SharesInv, misread = {}, ScoreInv, ListingStep
  PROVE  \/ RankedStill
         \/ Ranked' = {}
         \/ \E f \in SharedFiles : Ranked' = Ranked \cup {f}
<1>1. CASE RankDelZset
  BY <1>1, DelZsetRanks DEF RankDelZset
<1>2. CASE RankZadd
  <2>1. PICK row \in listing.rows : Zadd(row.file, row.pv)
    BY <1>2 DEF RankZadd
  <2>2. row \in SharedRows
    BY <1>2, <2>1 DEF RankZadd, ScoreInv
  <2>3. row.file \in Files /\ row.pv \in Nat /\ IsShared(row.file)
    BY <2>2, SharedRowPv DEF SharesInv, Typed, TypeOK
  <2>4. row.pv \in Int
    BY <2>3
  <2>5. Ranked' = Ranked \cup {row.file}
    BY <2>1, <2>3, <2>4, ZaddRanks DEF Typed, TypeOK
  <2>6. row.file \in SharedFiles
    BY <2>3 DEF SharedFiles
  <2>7. QED
    BY <2>5, <2>6
<1>3. CASE ~RankDelZset /\ ~RankZadd
  <2>1. UNCHANGED zset
    BY <1>3, ListingRedisFrame DEF Typed, TypeOK, RankDelHash, DelHash,
      RankHset, Hset, SetHash, redisVars
  <2>2. QED
    BY <2>1, StoresStill
<1>4. QED
  BY <1>1, <1>2, <1>3

LEMMA ListingKeepsSharing ==
  ASSUME Typed, PastShape, SharesInv, misread = {}, ScoreInv, SharingInv,
         ListingAlone
  PROVE  SharingInv'
<1>1. /\ UNCHANGED <<dealfile, dealshare>> /\ Remembers
      /\ dealfile.pc = "idle" /\ dealshare.pc \in {"idle", "dead"}
      /\ UNCHANGED mysqlVars
  BY ListingKeepsTables DEF ListingAlone, DealRests, DealShareRests
<1>2. SharesStill /\ TotalStill /\ MarksStill
  BY <1>1, StoresStill DEF mysqlVars
<1>3. CASE RankedStill
  BY <1>1, <1>2, <1>3, OthersRemember, SharingStill DEF MarksStill
<1>4. CASE Ranked' = {} \/ \E f \in SharedFiles : Ranked' = Ranked \cup {f}
  <2>1. /\ \A f \in Files :
             f \in past.brokenOff /\ f \in SharedFiles' => f \in past'.brokenOff
        /\ past'.leftBehind = {f \in past.leftBehind : f \in Ranked' \ SharedFiles'}
    BY <1>1, OthersRemember
  <2>2. Files' = Files /\ SharedFiles \subseteq Files
    BY DEF Files, SharedFiles
  <2>3. TotalInv'
    BY <1>1, <1>2, TotalStillCount DEF SharingInv, TotalInv, Behind,
      AddsSoon, TakesSoon, SharesStill
  <2>4. SharingKnows'
    BY <1>1 DEF SharingKnows, SharePvSteps, Cancels
  <2>5. MarkInv'
    BY <1>1, <1>2, <2>1, <2>2 DEF SharingInv, MarkInv, MarkLate, MarkGone,
      Cancels, SharesStill, MarksStill
  <2>6. LeftInv'
    BY <1>1, <1>2, <1>4, <2>1, <2>2 DEF SharingInv, LeftInv, LeavesSoon,
      TakesSoon, SharesStill
  <2>7. QED
    BY <2>3, <2>4, <2>5, <2>6 DEF SharingInv
<1>5. QED
  BY <1>3, <1>4, ListingRanks DEF ListingAlone

(* A careful user shares what the list of files shows, and cancels what    *)
(* the list of shares shows.                                               *)
LEMMA CarefulAsks ==
  ASSUME OneUser, Careful, Typed, AskAlone
  PROVE  /\ dealfile'.pc = "share: zset_exit" => Marks(dealfile'.file) # {}
         /\ dealshare'.pc = "cancel: mark" => dealshare'.file \in SharedFiles
<1>1. CASE dealfile'.pc = "share: zset_exit"
  <2>1. dealfile' # dealfile
    BY <1>1 DEF AskAlone, AllRest, DealRests
  <2>2. PICK u \in Users, f \in Files :
          \E cmd \in {"share", "del", "pv"} : AskDeal(cmd, u, f)
    BY <2>1 DEF AskAlone, Ask, AskUpload, AskInstant, AskSharePv, AskCancel,
      AskSave, AskListing
  <2>3. Lists(u, f) /\ dealfile'.file = f
    BY <2>2 DEF AskDeal, DealAccept, DealIdle
  <2>4. Marks(f) # {}
    BY <2>3, MarksOfListed DEF Typed, TypeOK
  <2>5. QED
    <3>1. dealshare' = dealshare
      BY <2>2 DEF AskDeal
    <3>2. QED
      BY <2>3, <2>4, <3>1 DEF AskAlone, AllRest, DealShareRests
<1>2. CASE dealshare'.pc = "cancel: mark"
  <2>1. dealshare' # dealshare
    BY <1>2 DEF AskAlone, AllRest, DealShareRests
  <2>2. PICK u \in Users, f \in Files :
          AskSharePv(u, f) \/ AskCancel(u, f) \/ AskSave(u, f)
    BY <2>1 DEF AskAlone, Ask, AskUpload, AskInstant, AskDeal, AskListing
  <2>3. AskCancel(u, f)
    BY <1>2, <2>2 DEF AskSharePv, AskSave, DealShareAccept, DealShareIdle
  <2>4. share_file_list[u][f] # <<>> /\ dealshare'.file = f
    BY <2>3 DEF AskCancel, DealShareAccept, DealShareIdle
  <2>5. f \in SharedFiles
    BY <2>4 DEF SharedFiles, IsShared
  <2>6. QED
    <3>1. dealfile' = dealfile
      BY <2>3 DEF AskCancel
    <3>2. QED
      BY <2>4, <2>5, <3>1 DEF AskAlone, AllRest, DealRests
<1>3. QED
  BY <1>1, <1>2

LEMMA AskKeepsSharing ==
  ASSUME OneUser, Careful, Typed, PastShape, SharingInv, AskAlone
  PROVE  SharingInv'
<1>1. /\ dealfile.pc = "idle" /\ dealshare.pc \in {"idle", "dead"}
      /\ Remembers /\ AllStill
  BY UnchangedStoresStill DEF AskAlone, AllRest, DealRests, DealShareRests
<1>2. /\ \A f \in SharedFiles : f \in past.brokenOff => f \in past'.brokenOff
      /\ past'.leftBehind = past.leftBehind
  BY <1>1, OthersRemember DEF AllStill
<1>3. /\ dealfile'.pc \in {"idle", "share: zset_exit", "del: zset_exit",
                           "pv: select"}
      /\ dealshare'.pc \in {"idle", "dead", "pv: select", "cancel: mark",
                            "save: select own"}
  BY <1>1, AskBegins
<1>g. PICK g : g = dealfile'.file
  OBVIOUS
<1>4. /\ dealfile'.pc = "share: zset_exit" => Marks(g)' # {}
      /\ dealshare'.pc = "cancel: mark" => dealshare'.file \in SharedFiles'
  <2>1. ASSUME dealfile'.pc = "share: zset_exit"
        PROVE  Marks(g)' # {}
    <3>1. dealfile' # dealfile
      BY <1>1, <2>1
    <3>2. PICK u \in Users, f \in Files :
            \E cmd \in {"share", "del", "pv"} : AskDeal(cmd, u, f)
      BY <3>1 DEF AskAlone, Ask, AskUpload, AskInstant, AskSharePv, AskCancel,
        AskSave, AskListing
    <3>3. dealfile'.file = f
      BY <3>2 DEF AskDeal, DealAccept, DealIdle
    <3>4. g \in Files
      BY <1>g, <3>3
    <3>5. Marks(g) # {}
      BY <1>g, <2>1, CarefulAsks
    <3>6. Marks(g)' = Marks(g)
      BY <1>1, <3>4 DEF AllStill, MarksStill
    <3>7. QED
      BY <3>5, <3>6
  <2>2. dealshare'.pc = "cancel: mark" => dealshare'.file \in SharedFiles'
    BY <1>1, CarefulAsks DEF AllStill, SharesStill
  <2>3. QED
    BY <2>1, <2>2
<1>5. SharedFiles \subseteq Files /\ Files' = Files
  BY DEF SharedFiles, Files
<1>6. TotalInv'
  BY <1>1, <1>3, TotalStillCount DEF SharingInv, TotalInv, Behind, AddsSoon,
    TakesSoon, AllStill, SharesStill
<1>7. SharingKnows'
  BY <1>g, <1>3, <1>4 DEF SharingKnows, SharePvSteps, Cancels
<1>8. MarkInv'
  BY <1>1, <1>2, <1>3, <1>5 DEF SharingInv, MarkInv, MarkLate, MarkGone,
    Cancels, AllStill, SharesStill, MarksStill
<1>9. LeftInv'
  BY <1>1, <1>2, <1>3, <1>5 DEF SharingInv, LeftInv, LeavesSoon, TakesSoon,
    AllStill, SharesStill, RankedStill
<1>10. QED
  BY <1>6, <1>7, <1>8, <1>9 DEF SharingInv

LEMMA SharingInductive ==
  ASSUME OneAtATime, OneUser, Careful, Typed, SharesInv, AloneInv, PastShape,
         ScoreInv, CountsInOrder, ~past.misled => SharingInv,
         [PagesNext]_pagesVars
  PROVE  (~past.misled => SharingInv)'
<1> SUFFICES ASSUME ~past'.misled PROVE SharingInv'
  OBVIOUS
<1>1. CASE UNCHANGED past /\ Still
  <2>1. /\ UNCHANGED <<user_file_list, share_file_list, user_file_count, zset,
                       dealfile, dealshare>>
        /\ past' = past /\ Files' = Files
    BY <1>1 DEF Still, storeVars, mysqlVars, redisVars, programVars, Files
  <2>2. SharesStill /\ MarksStill /\ RankedStill /\ TotalStill
    BY <2>1, StoresStill
  <2>3. SharingInv
    BY <2>1
  <2>4. TotalInv'
    BY <2>1, <2>2, <2>3, TotalStillCount DEF SharingInv, TotalInv, Behind,
      SharesStill
  <2>g. PICK g : g = dealfile.file
    OBVIOUS
  <2>h. PICK h : h = dealshare.file
    OBVIOUS
  <2>5. SharingKnows'
    <3>1. Marks(g)' = Marks(g) /\ Marks(h)' = Marks(h)
      BY <2>1 DEF Marks
    <3>2. dealfile'.file = g /\ dealshare'.file = h
      BY <2>1, <2>g, <2>h
    <3>3. SharedFiles' = SharedFiles
      BY <2>2 DEF SharesStill
    <3>4. QED
      BY <2>1, <2>3, <2>g, <2>h, <3>1, <3>2, <3>3 DEF SharingInv, SharingKnows
  <2>6. MarkInv'
    BY <2>1, <2>2, <2>3 DEF SharingInv, MarkInv, MarkLate, MarkGone,
      SharesStill, MarksStill
  <2>7. LeftInv'
    BY <2>1, <2>2, <2>3 DEF SharingInv, LeftInv, LeavesSoon, SharesStill,
      RankedStill
  <2>8. QED
    BY <2>4, <2>5, <2>6, <2>7 DEF SharingInv
<1>2. CASE ForgetsAlone
  <2>1. /\ past'.leftBehind = {} /\ past'.brokenOff = past.brokenOff
        /\ past'.misled = past.misled
    BY <1>2, PastForgets DEF ForgetsAlone
  <2>2. SharingInv
    BY <2>1
  <2>3. /\ UNCHANGED <<user_file_list, share_file_list, user_file_count,
                       dealfile, dealshare>>
        /\ Ranked' = {} /\ Files' = Files
    BY <1>2 DEF ForgetsAlone, RedisForgets, mysqlVars, programVars, Ranked,
      Files
  <2>4. SharesStill /\ MarksStill /\ TotalStill
    BY <2>3, StoresStill
  <2>5. dealfile.pc = "idle" /\ dealshare.pc \in {"idle", "dead"}
    BY <1>2 DEF ForgetsAlone, AllRest, DealRests, DealShareRests
  <2>6. TotalInv'
    BY <2>2, <2>3, <2>4, TotalStillCount DEF SharingInv, TotalInv, Behind,
      SharesStill
  <2>7. SharingKnows'
    BY <2>3, <2>5 DEF SharingKnows, SharePvSteps, Cancels
  <2>8. MarkInv'
    BY <2>1, <2>2, <2>3, <2>4 DEF SharingInv, MarkInv, MarkLate, MarkGone,
      SharesStill, MarksStill
  <2>9. LeftInv'
    BY <2>1, <2>3 DEF LeftInv
  <2>10. QED
    BY <2>6, <2>7, <2>8, <2>9 DEF SharingInv
<1>3. CASE Remembers
  <2>1. ~past.misled /\ ~JustMisled /\ SharingInv
    BY <1>3, PastMoves DEF PastShape
  <2>2. CASE \/ Still /\ AllQuiet
             \/ RevivedAlone
    <3>1. /\ UNCHANGED storeVars /\ UNCHANGED dealfile
          /\ dealfile.pc = "idle" /\ dealshare.pc \in {"idle", "dead"}
          /\ dealshare'.pc \in {"idle", "dead"}
      <4>1. AllQuiet
        BY <2>2 DEF RevivedAlone, Revived
      <4>2. dealfile.pc = "idle" /\ dealshare.pc \in {"idle", "dead"}
        BY <4>1, NobodyAtWork DEF DealRests, DealShareRests
      <4>3. UNCHANGED storeVars /\ UNCHANGED dealfile
        BY <2>2 DEF RevivedAlone, Revived, Still, programVars
      <4>4. dealshare' = dealshare \/ dealshare'.pc = "idle"
        <5>1. DealShareIdle.pc = "idle"
          BY DEF DealShareIdle
        <5>2. QED
          BY <2>2, <5>1 DEF RevivedAlone, Revived, Still, programVars
      <4>5. QED
        BY <4>2, <4>3, <4>4
    <3>2. AllStill
      BY <3>1, UnchangedStoresStill
    <3>3. QED
      BY <1>3, <2>1, <3>1, <3>2, OthersRemember, SharingStill DEF AllStill,
        MarksStill
  <2>3. CASE AskAlone
    BY <2>1, <2>3, AskKeepsSharing
  <2>4. CASE UploadAlone \/ InstantAlone
    BY <2>1, <2>4, UploadKeepsSharing
  <2>5. CASE DealAlone
    BY <2>1, <2>5, DealKeepsSharing
  <2>6. CASE DealShareAlone
    BY <2>1, <2>6, DealShareKeepsSharing
  <2>7. CASE ListingAlone
    BY <2>1, <2>7, ListingKeepsSharing DEF AloneInv
  <2>8. CASE UNCHANGED past /\ Still
    BY <1>1, <2>8
  <2>9. QED
    BY <1>2, <2>2, <2>3, <2>4, <2>5, <2>6, <2>7, <2>8, OneMoves DEF Still
<1>4. QED
  BY <1>1, <1>2, <1>3, OneMoves DEF Still, UploadAlone, InstantAlone,
    DealAlone, DealShareAlone, ListingAlone, AskAlone, RevivedAlone

LEMMA SharingAtFirst == PagesInit => SharingInv
<1> SUFFICES ASSUME PagesInit PROVE SharingInv
  OBVIOUS
<1>1. /\ share_file_list = [u \in Users |-> [f \in Files |-> <<>>]]
      /\ user_file_list = [u \in Users |-> [f \in Files |-> <<>>]]
      /\ user_file_count = [c \in Counters |-> None]
      /\ zset = [f \in Files |-> None]
      /\ dealfile = DealIdle /\ dealshare = DealShareIdle
  BY DEF PagesInit, Init, StoreInit
<1>2. SharedFiles = {} /\ Ranked = {}
  BY <1>1 DEF SharedFiles, IsShared, Ranked
<1>3. dealfile.pc = "idle" /\ dealshare.pc = "idle"
  BY <1>1 DEF DealIdle, DealShareIdle
<1>4. \A f \in Files : 1 \notin Marks(f)
  <2>1. DOMAIN <<>> = {}
    OBVIOUS
  <2>2. QED
    BY <1>1, <2>1 DEF Marks
<1>5. TotalInv
  <2>1. CountOf(ShareTotal) = 0
    BY <1>1 DEF CountOf, Counters
  <2>2. Behind = 0
    BY <1>3 DEF Behind, AddsSoon, TakesSoon
  <2>3. QED
    BY <1>2, <1>3, <2>1, <2>2, FS_EmptySet DEF TotalInv
<1>6. SharingKnows
  BY <1>3 DEF SharingKnows, SharePvSteps, Cancels
<1>7. MarkInv
  BY <1>2, <1>4 DEF MarkInv
<1>8. LeftInv
  BY <1>2 DEF LeftInv, PagesInit
<1>9. QED
  BY <1>5, <1>6, <1>7, <1>8 DEF SharingInv

LEMMA ShareRowFile ==
  ASSUME NEW row \in AllShareRows
  PROVE  row[1][2] \in SharedFiles
<1>1. PICK u \in Users, f \in Files :
        row \in {<<u, f>>} \X DOMAIN share_file_list[u][f]
  BY DEF AllShareRows
<1>2. PICK i \in DOMAIN share_file_list[u][f] : row = <<<<u, f>>, i>>
  BY <1>1
<1>3. share_file_list[u][f] # <<>>
  <2>1. DOMAIN <<>> = {}
    OBVIOUS
  <2>2. QED
    BY <1>2, <2>1
<1>4. QED
  BY <1>2, <1>3 DEF SharedFiles, IsShared

(* A shared file has one row, so that counting the rows counts the files. *)
LEMMA RowsAreFiles ==
  ASSUME Typed, OneShareRowPerFile, misread = {}, IsFiniteSet(SharedFiles)
  PROVE  Cardinality(AllShareRows) = Cardinality(SharedFiles)
<1> DEFINE At(f) == CHOOSE row \in AllShareRows : row[1][2] = f
           at    == [f \in SharedFiles |-> At(f)]
<1>1. \A row \in AllShareRows : row[1][2] \in SharedFiles
  BY ShareRowFile
<1>2. ASSUME NEW f \in SharedFiles
      PROVE  \E row \in AllShareRows : row[1][2] = f
  <2>1. f \in Files /\ IsShared(f)
    BY DEF SharedFiles
  <2>2. PICK u \in Users : share_file_list[u][f] # <<>>
    BY <2>1 DEF IsShared
  <2>3. share_file_list[u][f] \in Seq(Nat)
    BY <2>1 DEF Typed, TypeOK, StoreTypeOK
  <2>4. 1 \in DOMAIN share_file_list[u][f]
    BY <2>2, <2>3
  <2>5. <<<<u, f>>, 1>> \in {<<u, f>>} \X DOMAIN share_file_list[u][f]
    BY <2>4
  <2> DEFINE rows(v, g) == {<<v, g>>} \X DOMAIN share_file_list[v][g]
  <2>6. <<<<u, f>>, 1>> \in AllShareRows
    <3>1. AllShareRows = UNION {rows(v, g) : v \in Users, g \in Files}
      BY DEF AllShareRows
    <3>2. <<<<u, f>>, 1>> \in rows(u, f)
      BY <2>5
    <3> HIDE DEF rows
    <3>3. rows(u, f) \in {rows(v, g) : v \in Users, g \in Files}
      BY <2>1
    <3>4. QED
      BY <3>1, <3>2, <3>3
  <2>7. QED
    BY <2>6
<1>3. ASSUME NEW r \in AllShareRows, NEW s \in AllShareRows,
             r[1][2] = s[1][2]
      PROVE  r = s
  <2>1. PICK u \in Users, f \in Files :
          r \in {<<u, f>>} \X DOMAIN share_file_list[u][f]
    BY DEF AllShareRows
  <2>2. PICK i \in DOMAIN share_file_list[u][f] : r = <<<<u, f>>, i>>
    BY <2>1
  <2>3. PICK v \in Users, g \in Files :
          s \in {<<v, g>>} \X DOMAIN share_file_list[v][g]
    BY DEF AllShareRows
  <2>4. PICK j \in DOMAIN share_file_list[v][g] : s = <<<<v, g>>, j>>
    BY <2>3
  <2>5. f = g
    BY <1>3, <2>2, <2>4
  <2>6. u = v /\ i = j
    BY <2>5, OnlyRow DEF Typed, TypeOK
  <2>7. QED
    BY <2>2, <2>4, <2>5, <2>6
<1>4. \A f \in SharedFiles : at[f] \in AllShareRows /\ at[f][1][2] = f
  BY <1>2
<1>5. at \in [SharedFiles -> AllShareRows]
  BY <1>4
<1>6. \A row \in AllShareRows : at[row[1][2]] = row
  BY <1>1, <1>3, <1>4
<1> HIDE DEF at
<1>7. at \in Surjection(SharedFiles, AllShareRows)
  BY <1>1, <1>5, <1>6 DEF Surjection
<1>8. at \in Injection(SharedFiles, AllShareRows)
  BY <1>4, <1>5 DEF Injection, IsInjective
<1>9. QED
  BY <1>7, <1>8, FS_Surjection

(* What is true of every step of one careful user *)
SharingAlways ==
  /\ PagesInv /\ AloneInv /\ PastShape /\ ScoreInv /\ CountsInOrder
  /\ ~past.misled => SharingInv

LEMMA SharingHolds ==
  ASSUME OneAtATime, OneUser, Careful
  PROVE  PagesSpec => []SharingAlways
<1>1. PagesInit => SharingAlways
  BY InitTyped, CountsAtFirst, SharesAtFirst, BlobsAtFirst, AloneAtFirst,
     PastAtFirst, ScoreAtFirst, CountsInOrderAtFirst, SharingAtFirst
     DEF PagesInit, PagesInv, SharingAlways
<1>2. SharingAlways /\ [PagesNext]_pagesVars => SharingAlways'
  <2> SUFFICES ASSUME SharingAlways, [PagesNext]_pagesVars
               PROVE  SharingAlways'
    OBVIOUS
  <2>1. PagesInv' /\ AloneInv' /\ PastShape' /\ ScoreInv' /\ CountsInOrder'
    BY PagesKeep, AloneKeeps, PastKeeps, ScoreInductive, CountsKeepInOrder
       DEF SharingAlways, PagesInv
  <2>2. (~past.misled => SharingInv)'
    BY SharingInductive DEF SharingAlways, PagesInv
  <2>3. QED
    BY <2>1, <2>2 DEF SharingAlways
<1>3. QED
  BY <1>1, <1>2, PTL DEF PagesSpec

(* One careful user, one request after the other, no failure: between two  *)
(* requests the total in user_file_count is the number of                  *)
(* rows of share_file_list, until a deletion that ZLEXCOUNT told nothing   *)
(* of the share leaves its member in Redis and a later one takes it for a  *)
(* share (dealfile_cgi.c:314).                                             *)
THEOREM TotalFollowsShares ==
  ASSUME OneAtATime, OneUser, Careful
  PROVE  PagesSpec => []TotalCountsShares
<1>1. SharingAlways => TotalCountsShares
  <2> SUFFICES ASSUME SharingAlways, AllQuiet, ~past.misled
               PROVE  CountOf(ShareTotal) = Cardinality(AllShareRows)
    BY DEF TotalCountsShares
  <2>1. dealfile.pc = "idle" /\ dealshare.pc \in {"idle", "dead"}
    BY NobodyAtWork DEF SharingAlways, PagesInv, DealRests, DealShareRests
  <2>2. Behind = 0
    BY <2>1 DEF Behind, AddsSoon, TakesSoon
  <2>3. IsFiniteSet(SharedFiles)
          /\ CountOf(ShareTotal) + 0 = Cardinality(SharedFiles)
    BY <2>2 DEF SharingAlways, SharingInv, TotalInv
  <2>4. CountOf(ShareTotal) \in Int
    BY TotalType DEF SharingAlways, PagesInv, Typed, TypeOK
  <2>5. Cardinality(AllShareRows) = Cardinality(SharedFiles)
    BY <2>3, RowsAreFiles DEF SharingAlways, PagesInv, SharesInv, AloneInv
  <2>6. QED
    BY <2>3, <2>4, <2>5
<1>2. QED
  BY <1>1, SharingHolds, PTL

(* As long, a file marked as shared in user_file_list has its row in       *)
(* share_file_list, and one that is not marked has one only when cancel    *)
(* was broken off before its rows were deleted.                            *)
THEOREM MarksFollowShares ==
  ASSUME OneAtATime, OneUser, Careful
  PROVE  PagesSpec => []SharedMarkIsRow
<1>1. SharingAlways => SharedMarkIsRow
  <2> SUFFICES ASSUME SharingAlways, AllQuiet, ~past.misled,
                      NEW u \in Users, NEW f \in Files,
                      NEW i \in DOMAIN user_file_list[u][f]
               PROVE  IF user_file_list[u][f][i].shared = 1
                      THEN share_file_list[u][f] # <<>>
                      ELSE share_file_list[u][f] # <<>> => f \in past.brokenOff
    BY DEF SharedMarkIsRow
  <2>1. dealfile.pc = "idle" /\ dealshare.pc \in {"idle", "dead"}
    BY NobodyAtWork DEF SharingAlways, PagesInv, DealRests, DealShareRests
  <2>2. user_file_list[u][f][i].shared \in Marks(f)
    BY MarkOfRow
  <2>3. f \in SharedFiles <=> share_file_list[u][f] # <<>>
    BY DEF SharedFiles, IsShared, OneUser
  <2>4. IF f \in SharedFiles
        THEN Marks(f) = {1} \/ f \in past.brokenOff
        ELSE 1 \notin Marks(f)
    BY <2>1 DEF SharingAlways, SharingInv, MarkInv, MarkLate, MarkGone, Cancels
  <2>5. QED
    BY <2>2, <2>3, <2>4
<1>2. QED
  BY <1>1, SharingHolds, PTL

-----------------------------------------------------------------------------
(* The ranking of one careful user *)

RankStarts == {"rank: select total", "rank: zcard", "rank: del zset",
               "rank: del hash", "rank: select shares", "rank: zadd",
               "rank: hset", "rank: zrevrange"}
RankReads  == {"rank: hget", "rank: zscore"}

(* What is in Redis is what is shared, unless a deletion left a file there. *)
Exact == SharedFiles = Ranked \/ Ranked \cap past.leftBehind # {}

RowFiles == {row.file : row \in listing.rows}

ExactInv ==
  /\ listing.pc = "count: select"  => listing.cmd = "count"
  /\ listing.pc = "normal: select" => listing.cmd = "normal"
  /\ listing.pc \in RankStarts => listing.shown = {}
  /\ listing.pc \in RankStarts \cup RankReads =>
       listing.mysql /\ listing.code # "ok"
  /\ listing.pc = "rank: zcard" => listing.total = CountOf(ShareTotal)
  /\ listing.pc \in {"rank: del hash", "rank: select shares"} => Ranked = {}
  /\ listing.pc \in {"rank: zadd", "rank: hset"} =>
       SharedFiles = Ranked \cup RowFiles
  /\ listing.pc \in RankReads \cup {"rank: zrevrange"} => Exact
  /\ listing.pc \in RankReads => listing.left \cup listing.shown = Ranked
  /\ listing.pc = "rank: zscore" => listing.row \in listing.left
  /\ listing.pc = "reply" /\ listing.cmd = "pvdesc" =>
       /\ listing.code = "ok"  => Exact /\ listing.shown = Ranked
       /\ listing.code = "015" =>
            SharedFiles = {} \/ Ranked \cap past.sharedAgain # {}

(* sharefiles at work while the others rest *)
ReadsAlone ==
  /\ dealfile.pc = "idle" /\ dealshare.pc \in {"idle", "dead"}
  /\ SharedFiles' = SharedFiles
  /\ RankedStill => past'.leftBehind = past.leftBehind

LEMMA ListingReadsAlone ==
  ASSUME PastShape, SharingInv, ListingAlone
  PROVE  ReadsAlone
<1>1. /\ dealfile.pc = "idle" /\ dealshare.pc \in {"idle", "dead"}
      /\ UNCHANGED share_file_list /\ Remembers
  BY ListingKeepsTables DEF ListingAlone, DealRests, DealShareRests, mysqlVars
<1>2. SharesStill
  BY <1>1, StoresStill
<1>3. QED
  BY <1>1, <1>2, OthersRemember DEF ReadsAlone, SharesStill

(* ZCARD agrees with the total. *)
LEMMA SameNumberSameFiles ==
  ASSUME Typed, SharingInv, ReadsAlone, CountOf(ShareTotal) = Cardinality(Ranked)
  PROVE  Exact
<1>1. Behind = 0
  BY DEF ReadsAlone, Behind, AddsSoon, TakesSoon
<1>2. /\ IsFiniteSet(SharedFiles)
      /\ CountOf(ShareTotal) + 0 = Cardinality(SharedFiles)
  BY <1>1 DEF SharingInv, TotalInv
<1>3. CountOf(ShareTotal) \in Int
  BY TotalType DEF Typed, TypeOK
<1>4. Cardinality(SharedFiles) = Cardinality(Ranked)
  BY <1>2, <1>3
<1>5. \A f \in Ranked : f \in SharedFiles \/ f \in past.leftBehind
  BY DEF SharingInv, LeftInv, LeavesSoon, TakesSoon, ReadsAlone
<1>6. CASE Ranked \cap past.leftBehind = {}
  <2>1. Ranked \subseteq SharedFiles
    BY <1>5, <1>6
  <2>2. Ranked = SharedFiles
    BY <1>2, <1>4, <2>1, FS_Subset
  <2>3. QED
    BY <2>2 DEF Exact
<1>7. QED
  BY <1>6 DEF Exact

LEMMA NoTotalNoShares ==
  ASSUME Typed, SharingInv, ReadsAlone, Total = None
  PROVE  SharedFiles = {}
<1>1. Behind = 0
  BY DEF ReadsAlone, Behind, AddsSoon, TakesSoon
<1>2. CountOf(ShareTotal) = 0
  BY TotalType DEF Typed, TypeOK
<1>3. 0 + 0 = Cardinality(SharedFiles)
  BY <1>1, <1>2 DEF SharingInv, TotalInv
<1>4. QED
  BY <1>3, CardOfShares DEF SharingInv

LEMMA RowFilesAreShared ==
  ASSUME Typed, SharesInv, misread = {}, listing'.rows = SharedRows,
         SharedFiles' = SharedFiles
  PROVE  RowFiles' = SharedFiles
<1>1. ASSUME NEW row \in SharedRows PROVE row.file \in SharedFiles
  BY SharedRowPv DEF SharesInv, Typed, TypeOK, SharedFiles
<1>2. ASSUME NEW f \in SharedFiles PROVE \E row \in SharedRows : row.file = f
  BY SharedHasRow DEF SharedFiles, Typed, TypeOK
<1>3. QED
  BY <1>1, <1>2 DEF RowFiles

(* A statement that leaves Redis and what is remembered of it *)
LEMMA ExactSame ==
  ASSUME ReadsAlone, UNCHANGED zset
  PROVE  /\ Ranked' = Ranked /\ SharedFiles' = SharedFiles
         /\ Exact' <=> Exact
<1>1. RankedStill
  BY StoresStill
<1>2. QED
  BY <1>1 DEF ReadsAlone, Exact, RankedStill

LEMMA RankEndKeepsExact ==
  ASSUME Typed, ExactInv, ReadsAlone, RankZrevrange \/ RankZscore
  PROVE  ExactInv'
<1> USE DEF Typed, TypeOK, ListingTypeOK, ListingStates
<1>0. /\ Ranked' = Ranked /\ SharedFiles' = SharedFiles
      /\ Exact' <=> Exact
  BY ExactSame DEF RankZrevrange, RankZscore, storeVars, redisVars
<1>1. CASE RankZrevrange
  <2>1. /\ listing.pc = "rank: zrevrange" /\ listing.shown = {}
        /\ Exact /\ listing.mysql
    BY <1>1 DEF RankZrevrange, ExactInv, RankStarts
  <2>2. /\ listing'.pc = IF Ranked = {} THEN "reply" ELSE "rank: hget"
        /\ listing'.code = IF Ranked = {} THEN "ok" ELSE ""
        /\ listing'.left = Ranked /\ listing'.shown = listing.shown
        /\ listing'.mysql = listing.mysql
    BY <1>1 DEF RankZrevrange
  <2>3. QED
    BY <1>0, <2>1, <2>2 DEF ExactInv, RankStarts, RankReads
<1>2. CASE RankZscore
  <2>1. /\ listing.pc = "rank: zscore" /\ listing.row \in listing.left
        /\ listing.left \cup listing.shown = Ranked /\ Exact /\ listing.mysql
    BY <1>2 DEF RankZscore, ExactInv, RankReads
  <2>2. zset[listing.row] # None
    BY <2>1 DEF Ranked
  <2>3. PICK rest : rest = listing.left \ {listing.row}
    OBVIOUS
  <2>4. /\ listing'.left = rest
        /\ listing'.shown = listing.shown \cup {listing.row}
        /\ listing'.pc = IF rest = {} THEN "reply" ELSE "rank: hget"
        /\ listing'.code = IF rest = {} THEN "ok" ELSE ""
        /\ listing'.mysql = listing.mysql
    BY ZenonT(60), <1>2, <2>2, <2>3 DEF RankZscore
  <2>5. listing'.left \cup listing'.shown = Ranked
    BY <2>1, <2>3, <2>4
  <2>6. rest = {} => listing'.shown = Ranked
    BY <2>4, <2>5
  <2>7. QED
    BY <1>0, <2>1, <2>4, <2>5, <2>6 DEF ExactInv, RankStarts, RankReads
<1>3. QED
  BY <1>1, <1>2

LEMMA RankHgetKeepsExact ==
  ASSUME Typed, PastShape, NamesInv, SharingInv, ExactInv, ReadsAlone,
         Remembers, RankHget
  PROVE  ExactInv'
<1> USE DEF Typed, TypeOK, ListingTypeOK, ListingStates
<1>0. /\ Ranked' = Ranked /\ SharedFiles' = SharedFiles
      /\ Exact' <=> Exact
  BY ExactSame DEF RankHget, storeVars, redisVars
<1>0a. hash' = hash
  BY DEF RankHget, storeVars, redisVars
<1>1. /\ listing.pc = "rank: hget" /\ listing.left \cup listing.shown = Ranked
      /\ Exact /\ listing.mysql /\ listing.code # "ok"
  BY DEF RankHget, ExactInv, RankReads
<1>2. PICK f \in listing.left :
        IF f \in hash
        THEN listing' = [listing EXCEPT !.pc = "rank: zscore", !.row = f]
        ELSE ListingReplies("015")
  BY DEF RankHget
<1>3. CASE f \in hash
  <2>1. /\ listing'.pc = "rank: zscore" /\ listing'.row = f
        /\ listing'.left = listing.left /\ listing'.shown = listing.shown
        /\ listing'.mysql = listing.mysql /\ listing'.code = listing.code
    BY <1>2, <1>3
  <2>2. /\ listing'.mysql /\ listing'.code # "ok" /\ Exact'
        /\ listing'.left \cup listing'.shown = Ranked'
    BY <1>0, <1>1, <2>1
  <2>3. listing'.row \in listing'.left
    BY <2>1
  <2>4. QED
    BY <2>1, <2>2, <2>3 DEF ExactInv, RankStarts, RankReads
<1>4. CASE f \notin hash
  <2>1. listing'.pc = "reply" /\ listing'.code = "015"
    BY <1>2, <1>4 DEF ListingReplies
  <2>2. f \in Ranked \ hash
    BY <1>1, <1>4
  <2>3. f \in past.sharedAgain
    BY <1>1, <2>2 DEF NamesInv, NameIsNext, ReadsAlone
  <2>4. f \in past'.sharedAgain
    <3>1. past'.sharedAgain = (past.sharedAgain \cup JustSharedAgain) \ hash'
      BY PastMoves
    <3>2. f \notin hash'
      BY <1>0a, <1>4, Zenon
    <3>3. QED
      BY <2>3, <3>1, <3>2, Zenon
  <2>5. Ranked' \cap past'.sharedAgain # {}
    BY <1>0, <2>2, <2>4
  <2>6. QED
    BY <2>1, <2>5 DEF ExactInv, RankStarts, RankReads
<1>5. QED
  BY <1>3, <1>4

LEMMA RankBeginKeepsExact ==
  ASSUME Typed, SharesInv, misread = {}, SharingInv, ExactInv, ReadsAlone,
         RankSelectTotal \/ RankZcard \/ RankSelectShares
  PROVE  ExactInv'
<1> USE DEF Typed, TypeOK, ListingTypeOK, ListingStates
<1>0. /\ Ranked' = Ranked /\ SharedFiles' = SharedFiles
      /\ Exact' <=> Exact
      /\ CountOf(ShareTotal)' = CountOf(ShareTotal)
  <2>1. UNCHANGED storeVars
    BY DEF RankSelectTotal, RankZcard, RankSelectShares
  <2>2. QED
    BY <2>1, ExactSame DEF storeVars, redisVars, mysqlVars, CountOf
<1>1. CASE RankSelectTotal
  <2>1. /\ listing.pc = "rank: select total" /\ listing.shown = {}
        /\ listing.mysql /\ listing.code # "ok"
    BY <1>1 DEF RankSelectTotal, ExactInv, RankStarts
  <2>2. CASE Total = None
    <3>1. listing'.pc = "reply" /\ listing'.code = "015"
      BY <1>1, <2>2 DEF RankSelectTotal, ListingReplies, Total
    <3>2. SharedFiles' = {}
      BY <1>0, <2>2, NoTotalNoShares
    <3>3. QED
      BY <3>1, <3>2 DEF ExactInv, RankStarts, RankReads
  <2>3. CASE Total # None
    <3>1. /\ listing'.pc = "rank: zcard" /\ listing'.total = Total
          /\ listing'.shown = {} /\ listing'.mysql /\ listing'.code # "ok"
      BY <1>1, <2>1, <2>3 DEF RankSelectTotal, Total
    <3>2. listing'.total = CountOf(ShareTotal)
      BY <2>3, <3>1 DEF CountOf, Total
    <3>3. QED
      BY <1>0, <3>1, <3>2 DEF ExactInv, RankStarts, RankReads
  <2>4. QED
    BY <2>2, <2>3
<1>2. CASE RankZcard
  <2>1. /\ listing.pc = "rank: zcard" /\ listing.shown = {}
        /\ listing.mysql /\ listing.code # "ok"
        /\ listing.total = CountOf(ShareTotal)
    BY <1>2 DEF RankZcard, ExactInv, RankStarts
  <2>2. /\ listing'.pc = IF listing.total = Cardinality(Ranked)
                         THEN "rank: zrevrange" ELSE "rank: del zset"
        /\ listing'.shown = {} /\ listing'.mysql /\ listing'.code # "ok"
    BY <1>2, <2>1 DEF RankZcard, ListingGoes
  <2>3. listing.total = Cardinality(Ranked) => Exact'
    BY <1>0, <2>1, SameNumberSameFiles
  <2>4. QED
    BY <2>2, <2>3 DEF ExactInv, RankStarts, RankReads
<1>3. CASE RankSelectShares
  <2>1. /\ listing.pc = "rank: select shares" /\ listing.shown = {}
        /\ listing.mysql /\ listing.code # "ok" /\ Ranked = {}
    BY <1>3 DEF RankSelectShares, ExactInv, RankStarts
  <2>2. CASE SharedRows # {}
    <3>1. PICK rows : rows = SharedRows
      OBVIOUS
    <3>2. listing' = [listing EXCEPT !.pc = "rank: zadd", !.rows = rows]
      BY <1>3, <2>1, <2>2, <3>1 DEF RankSelectShares
    <3>3. /\ listing'.pc = "rank: zadd" /\ listing'.rows = rows
          /\ listing'.shown = {} /\ listing'.mysql /\ listing'.code # "ok"
      BY <2>1, <3>2
    <3>4. RowFiles' = SharedFiles
      BY <1>0, <3>1, <3>3, RowFilesAreShared
    <3>5. SharedFiles' = Ranked' \cup RowFiles'
      BY <1>0, <2>1, <3>4
    <3>6. QED
      BY <3>3, <3>5 DEF ExactInv, RankStarts, RankReads
  <2>3. CASE SharedRows = {}
    <3>1. listing'.pc = "reply" /\ listing'.code = "015"
      BY <1>3, <2>3 DEF RankSelectShares, ListingReplies
    <3>2. SharedFiles' = {}
      <4>1. \A f \in SharedFiles : FALSE
        BY <2>3, SharedHasRow DEF SharedFiles
      <4>2. QED
        BY <1>0, <4>1
    <3>3. QED
      BY <3>1, <3>2 DEF ExactInv, RankStarts, RankReads
  <2>4. QED
    BY <2>2, <2>3
<1>4. QED
  BY <1>1, <1>2, <1>3

LEMMA RankReloadKeepsExact ==
  ASSUME Typed, SharesInv, misread = {}, ScoreInv, ExactInv, ReadsAlone,
         RankDelZset \/ RankDelHash \/ RankZadd \/ RankHset
  PROVE  ExactInv'
<1> USE DEF Typed, TypeOK, ListingTypeOK, ListingStates
<1>0. SharedFiles' = SharedFiles
  BY DEF ReadsAlone
<1>1. CASE RankDelZset
  <2>1. /\ listing.shown = {} /\ listing.mysql /\ listing.code # "ok"
        /\ listing'.pc = "rank: del hash" /\ listing'.shown = listing.shown
        /\ listing'.mysql = listing.mysql /\ listing'.code = listing.code
    BY <1>1 DEF RankDelZset, ListingGoes, ExactInv, RankStarts
  <2>2. Ranked' = {}
    BY <1>1, DelZsetRanks DEF RankDelZset
  <2>3. QED
    BY <2>1, <2>2 DEF ExactInv, RankStarts, RankReads
<1>2. CASE RankDelHash
  <2>1. /\ listing.shown = {} /\ listing.mysql /\ listing.code # "ok"
        /\ Ranked = {}
        /\ listing'.pc = "rank: select shares" /\ listing'.shown = listing.shown
        /\ listing'.mysql = listing.mysql /\ listing'.code = listing.code
    BY <1>2 DEF RankDelHash, ListingGoes, ExactInv, RankStarts
  <2>2. Ranked' = {}
    BY <1>2, <2>1, ExactSame DEF RankDelHash, DelHash, SetHash
  <2>3. QED
    BY <2>1, <2>2 DEF ExactInv, RankStarts, RankReads
<1>3. CASE RankZadd
  <2>1. PICK row \in listing.rows :
          /\ Zadd(row.file, row.pv)
          /\ listing' = [listing EXCEPT !.pc = "rank: hset", !.row = row.file,
                                        !.rows = @ \ {row}]
    BY <1>3 DEF RankZadd
  <2>2. /\ listing.pc = "rank: zadd" /\ listing.shown = {} /\ listing.mysql
        /\ listing.code # "ok" /\ SharedFiles = Ranked \cup RowFiles
    BY <1>3 DEF RankZadd, ExactInv, RankStarts
  <2>3. PICK rest : rest = listing.rows \ {row}
    OBVIOUS
  <2>4. /\ listing'.pc = "rank: hset" /\ listing'.rows = rest
        /\ listing'.shown = {} /\ listing'.mysql /\ listing'.code # "ok"
    BY <2>1, <2>2, <2>3
  <2>5. Ranked' = Ranked \cup {row.file}
    <3>1. row \in SharedRows
      BY <2>1, <2>2 DEF ScoreInv
    <3>2. row.file \in Files /\ row.pv \in Nat
      BY <3>1, SharedRowPv DEF SharesInv
    <3>3. row.pv \in Int
      BY <3>2, NatSteps, Zenon
    <3>4. QED
      BY <2>1, <3>2, <3>3, ZaddRanks
  <2>6. RowFiles' = {r.file : r \in rest}
    BY <2>4 DEF RowFiles
  <2>7. RowFiles = {r.file : r \in rest} \cup {row.file}
    BY <2>1, <2>3 DEF RowFiles
  <2>8. SharedFiles' = Ranked' \cup RowFiles'
    BY <1>0, <2>2, <2>5, <2>6, <2>7
  <2>9. QED
    BY <2>4, <2>8 DEF ExactInv, RankStarts, RankReads
<1>4. CASE RankHset
  <2>1. /\ listing.pc = "rank: hset" /\ listing.shown = {} /\ listing.mysql
        /\ listing.code # "ok" /\ SharedFiles = Ranked \cup RowFiles
    BY <1>4 DEF RankHset, ExactInv, RankStarts
  <2>2. /\ listing'.pc = IF listing.rows = {} THEN "rank: zrevrange"
                                              ELSE "rank: zadd"
        /\ listing'.rows = listing.rows
        /\ listing'.shown = {} /\ listing'.mysql /\ listing'.code # "ok"
    BY <1>4, <2>1 DEF RankHset, ListingGoes
  <2>3. Ranked' = Ranked /\ (Exact' <=> Exact)
    BY <1>4, ExactSame DEF RankHset, Hset, SetHash
  <2>4. RowFiles' = RowFiles
    BY <2>2 DEF RowFiles
  <2>5. listing.rows = {} => Exact'
    <3>1. listing.rows = {} => RowFiles = {}
      BY DEF RowFiles
    <3>2. QED
      BY <2>1, <2>3, <3>1 DEF Exact
  <2>6. QED
    BY <1>0, <2>1, <2>2, <2>3, <2>4, <2>5 DEF ExactInv, RankStarts, RankReads
<1>5. QED
  BY <1>1, <1>2, <1>3, <1>4

LEMMA ListingKeepsExact ==
  ASSUME Typed, PastShape, NamesInv, SharesInv, misread = {}, ScoreInv,
         SharingInv, ExactInv, ListingAlone
  PROVE  ExactInv'
<1>0. ReadsAlone /\ Remembers /\ ListingStep
  BY ListingReadsAlone DEF ListingAlone
<1>1. CASE CountSelect \/ NormalSelect
  <2>1. listing'.pc = "reply" /\ listing'.cmd # "pvdesc"
    BY <1>1 DEF CountSelect, NormalSelect, ExactInv, Typed, TypeOK,
      ListingTypeOK, ListingStates
  <2>2. QED
    BY <2>1 DEF ExactInv, RankStarts, RankReads
<1>2. CASE ListingReply
  <2>1. listing'.pc = "idle"
    BY <1>2 DEF ListingReply, ListingIdle
  <2>2. QED
    BY <2>1 DEF ExactInv, RankStarts, RankReads
<1>3. QED
  BY <1>0, <1>1, <1>2, RankBeginKeepsExact, RankReloadKeepsExact,
     RankHgetKeepsExact, RankEndKeepsExact DEF ListingStep, RankStep

LEMMA AskKeepsExact ==
  ASSUME AskAlone
  PROVE  ExactInv'
<1>1. CASE UNCHANGED listing
  <2>1. listing'.pc = "idle"
    BY <1>1 DEF AskAlone, AllRest, ListingRests
  <2>2. QED
    BY <2>1 DEF ExactInv, RankStarts, RankReads
<1>2. CASE \E cmd \in {"count", "normal", "pvdesc"} : AskListing(cmd)
  <2>1. PICK cmd \in {"count", "normal", "pvdesc"} : AskListing(cmd)
    BY <1>2
  <2>2. PICK pc : /\ listing' = [ListingIdle EXCEPT !.pc = pc, !.cmd = cmd]
                  /\ pc = CASE cmd = "count"  -> "count: select"
                            [] cmd = "normal" -> "normal: select"
                            [] cmd = "pvdesc" -> "rank: select total"
    BY <2>1 DEF AskListing, ListingAccept
  <2>3. /\ listing'.pc = pc /\ listing'.cmd = cmd /\ listing'.mysql
        /\ listing'.shown = {} /\ listing'.code = ""
    BY <2>2 DEF ListingIdle
  <2>4. \/ pc = "count: select" /\ cmd = "count"
        \/ pc = "normal: select" /\ cmd = "normal"
        \/ pc = "rank: select total"
    BY <2>2
  <2>5. QED
    BY <2>3, <2>4 DEF ExactInv, RankStarts, RankReads
<1>3. QED
  BY <1>1, <1>2 DEF AskAlone, Ask, AskUpload, AskInstant, AskDeal, AskSharePv,
    AskCancel, AskSave

LEMMA ExactInductive ==
  ASSUME OneAtATime, Typed, SharesInv, AloneInv, PastShape, NamesInv,
         ScoreInv, ~past.misled => SharingInv, ~past.misled => ExactInv,
         [PagesNext]_pagesVars
  PROVE  (~past.misled => ExactInv)'
<1> SUFFICES ASSUME ~past'.misled PROVE ExactInv'
  OBVIOUS
<1>1. CASE listing'.pc = "idle"
  BY <1>1 DEF ExactInv, RankStarts, RankReads
<1>2. CASE AskAlone
  BY <1>2, AskKeepsExact
<1>3. CASE ListingAlone
  <2>1. ~past.misled
    BY <1>3, PastMoves DEF ListingAlone, PastShape
  <2>2. QED
    BY <1>3, <2>1, ListingKeepsExact DEF AloneInv
<1>4. CASE Still /\ UNCHANGED past
  <2>1. /\ UNCHANGED <<share_file_list, user_file_count, zset, listing>>
        /\ past' = past /\ Files' = Files
    BY <1>4 DEF Still, storeVars, mysqlVars, redisVars, programVars, Files
  <2>2. SharesStill /\ RankedStill /\ TotalStill
    BY <2>1, StoresStill
  <2>3. /\ SharedFiles' = SharedFiles /\ Ranked' = Ranked
        /\ CountOf(ShareTotal)' = CountOf(ShareTotal)
    BY <2>2, TotalStillCount DEF SharesStill, RankedStill
  <2>4. RowFiles' = RowFiles /\ listing' = listing
    BY <2>1 DEF RowFiles
  <2>5. ExactInv
    BY <2>1
  <2>6. QED
    BY <2>1, <2>3, <2>4, <2>5 DEF ExactInv, Exact
<1>5. CASE Still /\ AllQuiet
  <2>1. listing.pc = "idle" /\ listing' = listing
    BY <1>5, NobodyAtWork DEF Still, programVars, ListingRests
  <2>2. QED
    BY <1>1, <2>1
<1>6. CASE UploadAlone \/ InstantAlone \/ DealAlone \/ DealShareAlone
  BY <1>1, <1>6 DEF UploadAlone, InstantAlone, DealAlone, DealShareAlone,
    ListingRests
<1>7. CASE RevivedAlone
  <2>1. listing.pc = "idle" /\ listing' = listing
    BY <1>7, NobodyAtWork DEF RevivedAlone, Revived, ListingRests
  <2>2. QED
    BY <1>1, <2>1
<1>8. CASE ForgetsAlone
  <2>1. listing.pc = "idle" /\ listing' = listing
    BY <1>8 DEF ForgetsAlone, RedisForgets, programVars, AllRest, ListingRests
  <2>2. QED
    BY <1>1, <2>1
<1>9. QED
  BY <1>2, <1>3, <1>4, <1>5, <1>6, <1>7, <1>8, OneMoves DEF Still

LEMMA ExactAtFirst == PagesInit => ExactInv
<1> SUFFICES ASSUME PagesInit PROVE ExactInv
  OBVIOUS
<1>1. listing.pc = "idle"
  BY DEF PagesInit, Init, ListingIdle
<1>2. QED
  BY <1>1 DEF ExactInv, RankStarts, RankReads

RankingAlways ==
  SharingAlways /\ NamesInv /\ (~past.misled => ExactInv)

LEMMA RankingHolds ==
  ASSUME OneAtATime, OneUser, Careful
  PROVE  PagesSpec => []RankingAlways
<1> DEFINE Ranking == NamesInv /\ (~past.misled => ExactInv)
<1>1. PagesInit => Ranking
  BY NamesAtFirst, ExactAtFirst
<1>2. SharingAlways /\ Ranking /\ [PagesNext]_pagesVars => Ranking'
  BY NamesInductive, ExactInductive DEF SharingAlways, PagesInv
<1>3. SharingAlways /\ Ranking => RankingAlways
  BY DEF RankingAlways
<1> HIDE DEF Ranking
<1>4. QED
  BY <1>1, <1>2, <1>3, SharingHolds, PTL DEF PagesSpec

(* As long, a ranking that answers shows the files that are shared, no     *)
(* more and no less, unless it shows one that a deletion left in Redis:    *)
(* that ZCARD agrees with the total (sharefiles_cgi.c:299) is enough, and  *)
(* the reload repairs what does not agree.                                 *)
THEOREM RankingStaysExact ==
  ASSUME OneAtATime, OneUser, Careful
  PROVE  PagesSpec => []RankingIsExact
<1>1. RankingAlways => RankingIsExact
  <2> SUFFICES ASSUME RankingAlways, listing.pc = "reply",
                      listing.cmd = "pvdesc", listing.code = "ok",
                      ~past.misled
               PROVE  \/ \A f \in Files : f \in listing.shown <=> IsShared(f)
                      \/ listing.shown \cap past.leftBehind # {}
    BY DEF RankingIsExact
  <2>1. Exact /\ listing.shown = Ranked
    BY DEF RankingAlways, ExactInv
  <2>2. QED
    BY <2>1, SharedMember DEF Exact
<1>2. QED
  BY <1>1, RankingHolds, PTL

(* As long, a ranking answers 015 while something is shared only for a     *)
(* file whose member came back without its name.                           *)
THEOREM RankingFailsNamelessAlways ==
  ASSUME OneAtATime, OneUser, Careful
  PROVE  PagesSpec => []RankingFailsOnlyNameless
<1>1. RankingAlways => RankingFailsOnlyNameless
  <2> SUFFICES ASSUME RankingAlways, listing.pc = "reply",
                      listing.cmd = "pvdesc", listing.code = "015",
                      ~past.misled, AllShareRows # {}
               PROVE  Ranked \cap past.sharedAgain # {}
    BY DEF RankingFailsOnlyNameless
  <2>1. SharedFiles = {} \/ Ranked \cap past.sharedAgain # {}
    BY DEF RankingAlways, ExactInv
  <2>2. SharedFiles # {}
    BY ShareRowFile
  <2>3. QED
    BY <2>1, <2>2
<1>2. QED
  BY <1>1, RankingHolds, PTL

-----------------------------------------------------------------------------
(* The contents and their blobs *)

(* No content has two owners: md5 is not served, or there is one user with *)
(* one name for each content.  A second owner is one that del takes two    *)
(* counts off for (dealfile_cgi.c:403-404).                                *)
OneOwnerEach ==
  "md5" \notin Served \/ (OneUser /\ \A n, o \in Names : n = o)

InfoRows(m) == DOMAIN file_info[m]

(* The content m has its row, and that counts one owner. *)
CountedOnce(m) == InfoRows(m) = {1} /\ file_info[m][1].count = 1

Owned(m) == \E u \in Users, f \in Files : f.md5 = m /\ Lists(u, f)

OwnedOnce ==
  \A u, v \in Users, f, g \in Files :
    Lists(u, f) /\ Lists(v, g) /\ f.md5 = g.md5 => u = v /\ f = g

(* A row of file_info without an owner is one that upload has inserted and *)
(* not yet listed, or one that del is about to delete.                     *)
UploadHolds(m) == upload.pc = "insert user file" /\ upload.file.md5 = m
DelUnlists     == RefSteps \ {"del: remove blob"}
DelHolds(m)    == dealfile.pc \in DelUnlists /\ dealfile.file.md5 = m

RowsInv ==
  \A m \in Md5s :
    /\ InfoRows(m) \in {{}, {1}}
    /\ Owned(m) => CountedOnce(m)
    /\ InfoRows(m) = {1} => Owned(m) \/ UploadHolds(m) \/ DelHolds(m)

(* What upload and md5 know of the content in their hands: md5 never finds *)
(* a row, and upload finds none.                                           *)
UploadContent ==
  /\ upload.pc \in {"store blob", "insert file_info"} =>
       InfoRows(upload.file.md5) = {}
  /\ upload.pc = "insert user file" =>
       CountedOnce(upload.file.md5) /\ ~Owned(upload.file.md5)

InstantContent ==
  /\ instant.pc \in {"idle", "select refs", "reply"}
  /\ instant.pc = "select refs" => InfoRows(instant.file.md5) = {}

DelContent ==
  /\ dealfile.pc \in DelUnlists =>
       InfoRows(dealfile.file.md5) = {1} /\ ~Owned(dealfile.file.md5)
  /\ dealfile.pc = "del: select refs" => CountedOnce(dealfile.file.md5)
  /\ dealfile.pc = "del: write refs" => dealfile.count = 0
  /\ dealfile.pc = "del: delete file_info" =>
       file_info[dealfile.file.md5][1].file_id = dealfile.id

(* The storage holds what file_info lists, the blob that upload has stored *)
(* and not yet listed, and the one that del has unlisted and not removed.  *)
StoredInv ==
  storage = Listed
      \cup {id \in {upload.id}   : upload.pc = "insert file_info"}
      \cup {id \in {dealfile.id} : dealfile.pc = "del: remove blob"}

ContentInv ==
  /\ RowsInv /\ OwnedOnce
  /\ UploadContent /\ InstantContent /\ DelContent
  /\ StoredInv

(* What leaves the contents alone *)
ListsStay ==
  \A u \in Users, f \in Files : Lists(u, f)' <=> Lists(u, f)

UploadStays ==
  \/ UNCHANGED upload
  \/ /\ upload.pc  \notin {"insert file_info", "insert user file"}
     /\ upload'.pc \notin {"insert file_info", "insert user file"}
     /\ upload'.pc = "store blob" => file_info[upload'.file.md5] = <<>>

InstantStays ==
  \/ UNCHANGED instant
  \/ /\ instant'.pc \in {"idle", "select refs", "reply"}
     /\ instant'.pc = "select refs" => file_info[instant'.file.md5] = <<>>

DealStays ==
  \/ UNCHANGED dealfile
  \/ dealfile.pc \notin RefSteps /\ dealfile'.pc \notin RefSteps

LEMMA OwnedNext ==
  ASSUME ListsStay
  PROVE  /\ \A m : Owned(m)' <=> Owned(m)
         /\ OwnedOnce => OwnedOnce'
<1>1. \A m : Owned(m)' <=> Owned(m)
  BY DEF ListsStay, Owned, Files
<1>2. OwnedOnce => OwnedOnce'
  BY DEF ListsStay, OwnedOnce, Files
<1>3. QED
  BY <1>1, <1>2

LEMMA ContentStays ==
  ASSUME ContentInv, UNCHANGED <<file_info, storage>>, ListsStay,
         UploadStays, InstantStays, DealStays
  PROVE  ContentInv'
<1>1. /\ \A m : Owned(m)' <=> Owned(m)
      /\ OwnedOnce'
  BY OwnedNext DEF ContentInv
<1>2. /\ \A m : InfoRows(m)' = InfoRows(m)
      /\ \A m : CountedOnce(m)' <=> CountedOnce(m)
      /\ Listed' = Listed
  BY DEF InfoRows, CountedOnce, Listed
<1>3. DOMAIN <<>> = {}
  OBVIOUS
<1>4. RowsInv'
  <2> SUFFICES ASSUME NEW m \in Md5s
               PROVE  /\ InfoRows(m)' \in {{}, {1}}
                      /\ Owned(m)' => CountedOnce(m)'
                      /\ InfoRows(m)' = {1} =>
                           Owned(m)' \/ UploadHolds(m)' \/ DelHolds(m)'
    BY DEF RowsInv
  <2>1. UploadHolds(m) => UploadHolds(m)'
    BY DEF UploadStays, UploadHolds
  <2>2. DelHolds(m) => DelHolds(m)'
    BY DEF DealStays, DelHolds, DelUnlists
  <2>3. QED
    BY <1>1, <1>2, <2>1, <2>2 DEF ContentInv, RowsInv
<1>5. UploadContent'
  BY <1>1, <1>2, <1>3 DEF UploadStays, ContentInv, UploadContent, InfoRows
<1>6. InstantContent'
  BY <1>1, <1>2, <1>3 DEF InstantStays, ContentInv, InstantContent, InfoRows
<1>7. DelContent'
  BY <1>1, <1>2 DEF DealStays, ContentInv, DelContent, DelUnlists, RefSteps
<1>8. StoredInv'
  <2>1. (upload'.pc = "insert file_info" \/ upload.pc = "insert file_info") =>
           UNCHANGED upload
    BY DEF UploadStays
  <2>2. (dealfile'.pc = "del: remove blob" \/ dealfile.pc = "del: remove blob") =>
           UNCHANGED dealfile
    BY DEF DealStays, RefSteps
  <2>3. QED
    BY <1>2, <2>1, <2>2 DEF ContentInv, StoredInv
<1>9. QED
  BY <1>1, <1>4, <1>5, <1>6, <1>7, <1>8 DEF ContentInv

LEMMA SameRows ==
  ASSUME UNCHANGED file_info
  PROVE  /\ \A m : InfoRows(m)' = InfoRows(m)
         /\ \A m : CountedOnce(m)' <=> CountedOnce(m)
         /\ Listed' = Listed
BY DEF InfoRows, CountedOnce, Listed

LEMMA CalmListsStay ==
  ASSUME StoreTypeOK, StoreTypeOK', \A u \in Users : Calm(u)
  PROVE  ListsStay
BY CalmKeeps DEF ListsStay

LEMMA SameListsStay ==
  ASSUME UNCHANGED user_file_list
  PROVE  ListsStay
BY DEF ListsStay, Lists

LEMMA ListsAfter ==
  ASSUME StoreTypeOK, NEW c \in Users, NEW g \in Files, NEW rows,
         SetUserRows(c, g, rows)
  PROVE  /\ Lists(c, g)' <=> rows # <<>>
         /\ \A u \in Users, f \in Files :
              u # c \/ f # g => (Lists(u, f)' <=> Lists(u, f))
<1>1. user_file_list'[c][g] = rows
  BY SetUserRowsElsewhere
<1>2. \A u \in Users, f \in Files :
        u # c \/ f # g => user_file_list'[u][f] = user_file_list[u][f]
  BY DEF SetUserRows, StoreTypeOK
<1>3. QED
  BY <1>1, <1>2 DEF Lists

(* The rows of a content *)
LEMMA InfoRowsType ==
  ASSUME StoreTypeOK, NEW m \in Md5s
  PROVE  /\ file_info[m] \in Seq(FileInfoRows)
         /\ InfoRows(m) = {} <=> file_info[m] = <<>>
         /\ InfoRows(m) = {1} => /\ file_info[m][1] \in FileInfoRows
                                /\ Len(file_info[m]) = 1
<1>1. file_info[m] \in Seq(FileInfoRows)
  BY DEF StoreTypeOK
<1>2. PICK n \in Nat : n = Len(file_info[m]) /\ InfoRows(m) = 1..n
  BY <1>1, LenProperties DEF InfoRows
<1>3. InfoRows(m) = {} <=> file_info[m] = <<>>
  <2>1. n = 0 <=> file_info[m] = <<>>
    BY <1>1, <1>2, EmptySeq
  <2>2. 1..n = {} <=> n = 0
    OBVIOUS
  <2>3. QED
    BY <1>2, <2>1, <2>2
<1>4. ASSUME InfoRows(m) = {1}
      PROVE  file_info[m][1] \in FileInfoRows /\ n = 1
  <2>1. n = 1
    <3>1. 1..n = {1}
      BY <1>2, <1>4
    <3>2. 1 \in 1..n /\ (n >= 2 => 2 \in 1..n)
      BY <3>1
    <3>3. QED
      BY <3>1, <3>2
  <2>2. 1 \in 1..Len(file_info[m])
    BY <1>2, <2>1
  <2>3. QED
    BY <1>1, <2>1, <2>2, ElementOfSeq
<1>5. QED
  BY <1>1, <1>2, <1>3, <1>4

LEMMA UploadKeepsContent ==
  ASSUME Typed, BlobsInv, DriftInv, ContentInv, UploadAlone
  PROVE  ContentInv'
<1> USE DEF Typed, TypeOK
<1>0. /\ UNCHANGED <<instant, dealfile>> /\ dealfile.pc = "idle"
      /\ InstantStays /\ DealStays
  BY DEF UploadAlone, InstantStays, DealStays, DealRests
<1>a. PICK c, g, m : c = upload.user /\ g = upload.file /\ m = g.md5
  OBVIOUS
<1>b. upload.pc # "idle" => c \in Users /\ g \in Files /\ m \in Md5s
  BY <1>a DEF UploadLocals, Files
<1>1. CASE UploadStoreBlob
  <2>1. /\ UNCHANGED <<file_info, user_file_list>>
        /\ storage' = storage \cup {uploaded + 1}
        /\ upload.pc = "store blob"
    BY <1>1 DEF UploadStoreBlob, StoreBlob, mysqlVars
  <2>2. /\ upload'.pc = "insert file_info" /\ upload'.id = uploaded + 1
        /\ upload'.file = upload.file
    BY <1>1 DEF UploadStoreBlob, UploadTypeOK
  <2>3. /\ \A n : Owned(n)' <=> Owned(n)
        /\ OwnedOnce'
    BY <2>1, SameListsStay, OwnedNext DEF ContentInv
  <2>4. /\ \A n : InfoRows(n)' = InfoRows(n)
        /\ \A n : CountedOnce(n)' <=> CountedOnce(n)
        /\ Listed' = Listed
    BY <2>1, SameRows
  <2>5. RowsInv'
    BY <1>0, <2>1, <2>2, <2>3, <2>4
       DEF ContentInv, RowsInv, UploadHolds, DelHolds
  <2>6. UploadContent'
    BY <2>1, <2>2, <2>4 DEF ContentInv, UploadContent
  <2>7. InstantContent' /\ DelContent'
    BY <1>0, <2>1, <2>3, <2>4 DEF ContentInv, InstantContent, DelContent
  <2>8. StoredInv'
    BY <1>0, <2>1, <2>2, <2>4 DEF ContentInv, StoredInv
  <2>9. QED
    BY <2>3, <2>5, <2>6, <2>7, <2>8 DEF ContentInv
<1>2. CASE UploadInsertFileInfo
  <2>1. /\ UNCHANGED <<user_file_list, storage>>
        /\ file_info' = [file_info EXCEPT ![m] =
                           Append(@, [file_id |-> upload.id, count |-> 1])]
        /\ upload.pc = "insert file_info" /\ InsertFileInfo(m, upload.id)
    BY <1>a, <1>2 DEF UploadInsertFileInfo, InsertFileInfo, blobVars
  <2>2. upload'.pc = "insert user file" /\ upload'.file = upload.file
    BY <1>2 DEF UploadInsertFileInfo, UploadTypeOK
  <2>3. m \in Md5s /\ upload.id \in Nat
    BY <1>b, <2>1 DEF UploadTypeOK
  <2>4. file_info[m] = <<>> /\ InfoRows(m) = {}
    BY <2>1, <2>3, InfoRowsType, <1>a DEF ContentInv, UploadContent
  <2>5. file_info'[m] = <<[file_id |-> upload.id, count |-> 1]>>
    <3>1. file_info'[m] =
            Append(file_info[m], [file_id |-> upload.id, count |-> 1])
      BY <2>1, <2>3 DEF StoreTypeOK
    <3>2. \A row : Append(<<>>, row) = <<row>>
      OBVIOUS
    <3>3. QED
      BY <2>4, <3>1, <3>2
  <2>6. CountedOnce(m)'
    BY <2>5 DEF CountedOnce, InfoRows
  <2>7. \A n \in Md5s : n # m => file_info'[n] = file_info[n]
    BY <2>1, <2>3 DEF StoreTypeOK
  <2>8. /\ \A n : Owned(n)' <=> Owned(n)
        /\ OwnedOnce'
    BY <2>1, SameListsStay, OwnedNext DEF ContentInv
  <2>9. ~Owned(m)
    BY <2>3, <2>4 DEF ContentInv, RowsInv, CountedOnce
  <2>10. RowsInv'
    <3> SUFFICES ASSUME NEW n \in Md5s
                 PROVE  /\ InfoRows(n)' \in {{}, {1}}
                        /\ Owned(n)' => CountedOnce(n)'
                        /\ InfoRows(n)' = {1} =>
                             Owned(n)' \/ UploadHolds(n)' \/ DelHolds(n)'
      BY DEF RowsInv
    <3>1. CASE n = m
      BY <1>a, <2>2, <2>6, <3>1 DEF CountedOnce, UploadHolds
    <3>2. CASE n # m
      <4>1. InfoRows(n)' = InfoRows(n) /\ (CountedOnce(n)' <=> CountedOnce(n))
        BY <2>7, <3>2 DEF InfoRows, CountedOnce
      <4>2. ~UploadHolds(n) /\ ~DelHolds(n)
        BY <1>0, <2>1 DEF UploadHolds, DelHolds, DelUnlists, RefSteps
      <4>3. QED
        BY <2>8, <4>1, <4>2 DEF ContentInv, RowsInv
    <3>3. QED
      BY <3>1, <3>2
  <2>11. UploadContent'
    BY <1>a, <2>2, <2>6, <2>8, <2>9 DEF UploadContent
  <2>12. InstantContent' /\ DelContent'
    <3>1. instant.pc # "select refs"
      BY DEF UploadAlone, InstantRests
    <3>2. QED
      BY <1>0, <3>1 DEF ContentInv, InstantContent, DelContent, DelUnlists,
        RefSteps
  <2>13. StoredInv'
    <3>1. \A id : id \in Listed' <=> id \in Listed \/ id = upload.id
      <4>1. \A id : Named(id)' <=> Named(id) \/ id = upload.id
        BY <2>1, <2>3, InsertNames
      <4>2. \A id : (id \in Listed)' <=> Named(id)'
        BY ListedAreNamed DEF Listed, Named, HasId
      <4>3. QED
        BY <4>1, <4>2, ListedAreNamed
    <3>2. QED
      BY <1>0, <2>1, <2>2, <3>1 DEF ContentInv, StoredInv
  <2>14. QED
    BY <2>8, <2>10, <2>11, <2>12, <2>13 DEF ContentInv
<1>3. CASE UploadInsertUserFile
  <2>1. /\ UNCHANGED <<file_info, storage>>
        /\ upload.pc = "insert user file" /\ m \in Md5s
        /\ c \in Users /\ g \in Files
    BY <1>0, <1>a, <1>b, <1>3 DEF UploadInsertUserFile, InsertUserFile, SetUserRows,
      blobVars
  <2>2. upload'.pc = "select count"
    BY <1>3 DEF UploadInsertUserFile, UploadTypeOK
  <2>3. /\ Lists(c, g)'
        /\ \A u \in Users, f \in Files :
             u # c \/ f # g =>
               (Lists(u, f)' <=> Lists(u, f))
    <3>1. PICK rows : /\ rows = Append(user_file_list[c][g],
                                       [shared |-> 0, pv |-> 0])
                      /\ SetUserRows(c, g, rows)
      BY <1>a, <1>3 DEF UploadInsertUserFile, InsertUserFile
    <3>2. rows # <<>>
      <4>1. user_file_list[c][g] \in Seq(UserFileRows)
        BY <2>1, RowsNotEmpty
      <4>2. QED
        BY <3>1, <4>1
    <3>3. StoreTypeOK
      OBVIOUS
    <3>4. /\ Lists(c, g)' <=> rows # <<>>
          /\ \A u \in Users, f \in Files :
               u # c \/ f # g => (Lists(u, f)' <=> Lists(u, f))
      BY ZenonT(60), <2>1, <3>1, <3>3, ListsAfter
    <3>5. QED
      BY <3>2, <3>4
  <2>4. /\ ~Owned(m) /\ CountedOnce(m)
    BY <1>a, <2>1 DEF ContentInv, UploadContent
  <2>5. /\ \A n : InfoRows(n)' = InfoRows(n)
        /\ \A n : CountedOnce(n)' <=> CountedOnce(n)
        /\ Listed' = Listed
    BY <2>1, SameRows
  <2>6. Owned(m)'
    BY <1>a, <2>1, <2>3 DEF Owned, Files
  <2>7. \A n : n # m => (Owned(n)' <=> Owned(n))
    BY <1>a, <2>1, <2>3 DEF Owned, Files
  <2>8. \A u \in Users, f \in Files : f.md5 = m => ~Lists(u, f)
    BY <2>4 DEF Owned
  <2>9. OwnedOnce'
    <3> SUFFICES ASSUME NEW u \in Users, NEW v \in Users,
                        NEW f \in Files, NEW h \in Files,
                        Lists(u, f)', Lists(v, h)', f.md5 = h.md5
                 PROVE  u = v /\ f = h
      BY DEF OwnedOnce, Files
    <3>1. CASE f.md5 = m
      BY <1>a, <2>3, <2>8, <3>1
    <3>2. CASE f.md5 # m
      BY <1>a, <2>3, <3>2 DEF ContentInv, OwnedOnce
    <3>3. QED
      BY <3>1, <3>2
  <2>10. RowsInv'
    <3> SUFFICES ASSUME NEW n \in Md5s
                 PROVE  /\ InfoRows(n)' \in {{}, {1}}
                        /\ Owned(n)' => CountedOnce(n)'
                        /\ InfoRows(n)' = {1} =>
                             Owned(n)' \/ UploadHolds(n)' \/ DelHolds(n)'
      BY DEF RowsInv
    <3>1. CASE n = m
      BY <2>4, <2>5, <2>6, <3>1 DEF CountedOnce
    <3>2. CASE n # m
      <4>1. ~UploadHolds(n) /\ ~DelHolds(n)
        BY <1>0, <1>a, <3>2 DEF UploadHolds, DelHolds, DelUnlists, RefSteps
      <4>2. QED
        BY <2>5, <2>7, <3>2, <4>1 DEF ContentInv, RowsInv
    <3>3. QED
      BY <3>1, <3>2
  <2>11. UploadContent'
    BY <2>2 DEF UploadContent
  <2>12. InstantContent' /\ DelContent'
    <3>1. instant.pc # "select refs"
      BY DEF UploadAlone, InstantRests
    <3>2. QED
      BY <1>0, <3>1 DEF ContentInv, InstantContent, DelContent, DelUnlists,
        RefSteps
  <2>13. StoredInv'
    BY <1>0, <2>1, <2>2, <2>5 DEF ContentInv, StoredInv
  <2>14. QED
    BY <2>9, <2>10, <2>11, <2>12, <2>13 DEF ContentInv
<1>4. CASE UploadSelectCount \/ UploadWriteCount \/ UploadReply
  <2>1. UNCHANGED <<file_info, storage, user_file_list>>
    BY <1>4 DEF UploadSelectCount, UploadWriteCount, UploadReply,
      IncrementCount, UpdateCount, SetCount, storeVars, mysqlVars, blobVars
  <2>2. /\ upload.pc \in {"select count", "write count", "reply"}
        /\ upload'.pc \in {"write count", "reply", "idle"}
    <3>1. CASE UploadSelectCount
      BY <3>1 DEF UploadSelectCount, UploadTypeOK
    <3>2. CASE UploadWriteCount
      BY <3>2 DEF UploadWriteCount, UploadReplies, UploadTypeOK
    <3>3. CASE UploadReply
      BY <3>3, IdlePcs DEF UploadReply
    <3>4. QED
      BY <1>4, <3>1, <3>2, <3>3
  <2>3. UploadStays
    BY <2>2 DEF UploadStays
  <2>4. QED
    BY <1>0, <2>1, <2>3, SameListsStay, ContentStays
<1>5. QED
  BY <1>1, <1>2, <1>3, <1>4 DEF UploadAlone, UploadStep

(* md5 finds no row of a content that it is asked for. *)
LEMMA InstantKeepsContent ==
  ASSUME Typed, ContentInv, InstantAlone
  PROVE  ContentInv'
<1> USE DEF Typed, TypeOK
<1>1. /\ UNCHANGED <<upload, dealfile>> /\ UploadStays /\ DealStays
  BY DEF InstantAlone, UploadStays, DealStays
<1>2. InstantUnknown \/ InstantReply
  <2>1. ~InstantSelectRefs
    BY DEF ContentInv, InstantContent, InstantSelectRefs, InfoRows
  <2>2. instant.pc \in {"idle", "select refs", "reply"}
    BY DEF ContentInv, InstantContent
  <2>3. QED
    BY <2>1, <2>2 DEF InstantAlone, InstantStep, InstantSelectOwn,
      InstantWriteRefs, InstantInsertUserFile, InstantSelectCount,
      InstantWriteCount
<1>3. UNCHANGED storeVars /\ instant'.pc \in {"reply", "idle"}
  BY <1>2, IdlePcs DEF InstantUnknown, InstantReply, InstantReplies,
    InstantTypeOK
<1>4. UNCHANGED <<file_info, storage, user_file_list>>
  BY <1>3 DEF storeVars, mysqlVars, blobVars
<1>5. InstantStays
  BY <1>3 DEF InstantStays
<1>6. QED
  BY <1>1, <1>4, <1>5, SameListsStay, ContentStays

(* dealfile changes nothing of a content before it has unlisted it. *)
LEMMA DealContentFrame ==
  ASSUME DealTypeOK, DealStep
  PROVE  \/ DelDeleteUserFile \/ DelNoRefs \/ DelSelectRefs \/ DelWriteRefs
         \/ DelSelectFileId \/ DelDeleteFileInfo \/ DelRemoveBlob
         \/ DelNoFileId \/ DelRemoveNothing
         \/ dealfile.pc \notin RefSteps /\ dealfile'.pc \notin RefSteps
<1> USE DEF DealTypeOK, DealGoes, DealReplies, RefSteps
<1>1. CASE ShareZsetExit \/ ShareSelect \/ ShareZaddAgain \/ ShareMark
             \/ ShareInsert
  BY ZenonT(60), <1>1 DEF ShareZsetExit, ShareSelect, ShareZaddAgain,
    ShareMark, ShareInsert
<1>2. CASE ShareSelectTotal \/ ShareWriteTotal \/ ShareZadd \/ ShareHset
  BY ZenonT(60), <1>2 DEF ShareSelectTotal, ShareWriteTotal, ShareZadd,
    ShareHset
<1>3. CASE DelZsetExit \/ DelNoStatus \/ DelSelectStatus \/ DelDeleteShare
  BY <1>3 DEF DelZsetExit, DelNoStatus, DelSelectStatus, DelDeleteShare
<1>4. CASE DelSelectTotal \/ DelWriteTotal \/ DelZrem \/ DelHdel
             \/ DelSelectCount \/ DelWriteCount
  BY <1>4 DEF DelSelectTotal, DelWriteTotal, DelZrem, DelHdel,
    DelSelectCount, DelWriteCount
<1>5. CASE PvStep
  BY ZenonT(60), <1>5 DEF PvStep, PvMissing, PvSelect, PvWrite
<1>6. CASE DealReply
  BY <1>6 DEF DealReply, DealIdle
<1>7. CASE DelHdelDies
  BY <1>7, IdlePcs DEF DelHdelDies
<1>8. QED
  BY <1>1, <1>2, <1>3, <1>4, <1>5, <1>6, <1>7
    DEF DealStep, DelStep, ShareStep

(* A statement on the rows of one content that nobody owns *)
LEMMA RowsElsewhere ==
  ASSUME RowsInv, ListsStay, NEW m, ~Owned(m), upload.pc = "idle",
         \A n \in Md5s : n # m => file_info'[n] = file_info[n],
         InfoRows(m)' \in {{}, {1}},
         InfoRows(m)' = {1} => DelHolds(m)',
         \A n : DelHolds(n) => n = m
  PROVE  RowsInv'
<1> SUFFICES ASSUME NEW n \in Md5s
             PROVE  /\ InfoRows(n)' \in {{}, {1}}
                    /\ Owned(n)' => CountedOnce(n)'
                    /\ InfoRows(n)' = {1} =>
                         Owned(n)' \/ UploadHolds(n)' \/ DelHolds(n)'
  BY DEF RowsInv
<1>1. \A k : Owned(k)' <=> Owned(k)
  BY OwnedNext
<1>2. CASE n = m
  BY <1>1, <1>2
<1>3. CASE n # m
  <2>1. InfoRows(n)' = InfoRows(n) /\ (CountedOnce(n)' <=> CountedOnce(n))
    BY <1>3 DEF InfoRows, CountedOnce
  <2>2. ~UploadHolds(n) /\ ~DelHolds(n)
    BY <1>3 DEF UploadHolds
  <2>3. QED
    BY <1>1, <2>1, <2>2 DEF RowsInv
<1>4. QED
  BY <1>2, <1>3

LEMMA DelUnlistsContent ==
  ASSUME Typed, DriftInv, ContentInv, DelDeleteUserFile,
         UNCHANGED <<upload, instant>>, upload.pc = "idle", instant.pc = "idle"
  PROVE  ContentInv'
<1> USE DEF Typed, TypeOK
<1>1. PICK c, g, m : c = dealfile.user /\ g = dealfile.file /\ m = g.md5
  OBVIOUS
<1>2. c \in Users /\ g \in Files /\ m \in Md5s
  BY <1>1 DEF DelDeleteUserFile, DealLocals, Files
<1>3. /\ UNCHANGED <<file_info, storage>>
      /\ dealfile.pc = "del: delete user file" /\ DeleteUserFile(c, g)
  BY <1>1 DEF DelDeleteUserFile, DeleteUserFile, SetUserRows, blobVars
<1>4. dealfile'.pc = "del: select refs" /\ dealfile'.file = dealfile.file
  BY DEF DelDeleteUserFile, DealGoes, DealTypeOK
<1>5. Lists(c, g)
  BY <1>1, <1>3 DEF DriftInv, KnowsInv, DealKnows, DelBegins
<1>6. /\ ~Lists(c, g)'
      /\ \A u \in Users, f \in Files :
           u # c \/ f # g => (Lists(u, f)' <=> Lists(u, f))
  BY <1>2, <1>3, ListsAfter DEF DeleteUserFile
<1>7. /\ \A n : InfoRows(n)' = InfoRows(n)
      /\ \A n : CountedOnce(n)' <=> CountedOnce(n)
      /\ Listed' = Listed
  BY <1>3, SameRows
<1>8. ~Owned(m)'
  <2> SUFFICES ASSUME NEW u \in Users, NEW f \in Files, f.md5 = m, Lists(u, f)'
               PROVE  FALSE
    BY DEF Owned, Files
  <2>1. u # c \/ f # g
    BY <1>6
  <2>2. Lists(u, f)
    BY <1>6, <2>1
  <2>3. QED
    BY <1>1, <1>2, <1>5, <2>1, <2>2 DEF ContentInv, OwnedOnce
<1>9. \A n : n # m => (Owned(n)' <=> Owned(n))
  BY <1>1, <1>6 DEF Owned, Files
<1>10. CountedOnce(m)
  BY <1>1, <1>2, <1>5 DEF ContentInv, RowsInv, Owned
<1>11. OwnedOnce'
  <2>1. \A u \in Users, f \in Files : Lists(u, f)' => Lists(u, f)
    BY <1>5, <1>6
  <2>2. QED
    BY <2>1 DEF ContentInv, OwnedOnce, Files
<1>12. RowsInv'
  <2> SUFFICES ASSUME NEW n \in Md5s
               PROVE  /\ InfoRows(n)' \in {{}, {1}}
                      /\ Owned(n)' => CountedOnce(n)'
                      /\ InfoRows(n)' = {1} =>
                           Owned(n)' \/ UploadHolds(n)' \/ DelHolds(n)'
    BY DEF RowsInv
  <2>1. CASE n = m
    <3>1. DelHolds(m)'
      BY <1>1, <1>4 DEF DelHolds, DelUnlists, RefSteps
    <3>2. QED
      BY <1>7, <1>8, <1>10, <2>1, <3>1 DEF CountedOnce
  <2>2. CASE n # m
    <3>1. ~UploadHolds(n) /\ ~DelHolds(n)
      BY <1>3 DEF UploadHolds, DelHolds, DelUnlists, RefSteps
    <3>2. QED
      BY <1>7, <1>9, <2>2, <3>1 DEF ContentInv, RowsInv
  <2>3. QED
    BY <2>1, <2>2
<1>13. UploadContent'
  BY DEF UploadContent
<1>14. InstantContent'
  BY DEF InstantContent
<1>15. DelContent'
  <2>1. dealfile'.file.md5 = m
    BY <1>1, <1>4
  <2>2. CountedOnce(m)' /\ InfoRows(m)' = {1} /\ ~Owned(m)'
    BY <1>7, <1>8, <1>10 DEF CountedOnce
  <2>3. QED
    BY <1>4, <2>1, <2>2 DEF DelContent
<1>16. StoredInv'
  BY <1>3, <1>4, <1>7 DEF ContentInv, StoredInv
<1>17. QED
  BY <1>11, <1>12, <1>13, <1>14, <1>15, <1>16 DEF ContentInv

(* The statements of del on the content that it has unlisted *)
LEMMA DelCountsContent ==
  ASSUME Typed, ContentInv, UNCHANGED <<upload, instant>>, upload.pc = "idle",
         instant.pc = "idle",
         DelNoRefs \/ DelSelectRefs \/ DelWriteRefs \/ DelSelectFileId
  PROVE  ContentInv'
<1> USE DEF Typed, TypeOK
<1>1. PICK m : m = dealfile.file.md5
  OBVIOUS
<1>2. dealfile.pc \in DelUnlists \ {"del: delete file_info"} /\ m \in Md5s
  BY <1>1 DEF DelNoRefs, DelSelectRefs, DelWriteRefs, DelSelectFileId,
    DelUnlists, RefSteps, DealLocals, Files
<1>3. InfoRows(m) = {1} /\ ~Owned(m)
  BY <1>1, <1>2 DEF ContentInv, DelContent
<1>4. file_info[m] # <<>> /\ file_info[m] \in Seq(FileInfoRows)
        /\ file_info[m][1] \in FileInfoRows
  BY <1>2, <1>3, InfoRowsType
<1>5. UNCHANGED <<storage, user_file_list>>
  BY DEF DelNoRefs, DelSelectRefs, DelWriteRefs, DelSelectFileId,
    UpdateFileInfo, storeVars, mysqlVars, blobVars
<1>6. ListsStay
  BY <1>5, SameListsStay
<1>7. /\ \A n : Owned(n)' <=> Owned(n)
      /\ OwnedOnce'
  BY <1>6, OwnedNext DEF ContentInv
<1>8. \A n : DelHolds(n) => n = m
  BY <1>1 DEF DelHolds
<1>9. UploadContent'
  BY DEF UploadContent
<1>10. InstantContent'
  BY DEF InstantContent
<1>11. CASE DelNoRefs
  BY <1>1, <1>4, <1>11 DEF DelNoRefs
<1>12. CASE DelSelectRefs
  <2>1. UNCHANGED file_info /\ dealfile.pc = "del: select refs"
    BY <1>12 DEF DelSelectRefs, storeVars, mysqlVars
  <2>2. CountedOnce(m)
    BY <1>1, <2>1 DEF ContentInv, DelContent
  <2>3. PICK i \in DOMAIN file_info[m] :
          dealfile' = [dealfile EXCEPT !.pc = "del: write refs",
                                       !.count = file_info[m][i].count - 1]
    BY <1>1, <1>12 DEF DelSelectRefs
  <2>4. file_info[m][i].count - 1 = 0
    BY <2>2, <2>3 DEF CountedOnce, InfoRows
  <2>5. /\ dealfile'.pc = "del: write refs" /\ dealfile'.count = 0
        /\ dealfile'.file.md5 = m
    BY <1>1, <2>3, <2>4 DEF DealTypeOK
  <2>6. /\ \A n : InfoRows(n)' = InfoRows(n)
        /\ Listed' = Listed
    BY <2>1, SameRows
  <2>7. RowsInv'
    <3>1. DelHolds(m)'
      BY <2>5 DEF DelHolds, DelUnlists, RefSteps
    <3>2. QED
      BY <1>3, <1>6, <1>8, <2>1, <2>6, <3>1, RowsElsewhere DEF ContentInv
  <2>8. DelContent'
    BY <1>3, <1>7, <2>5, <2>6 DEF DelContent
  <2>9. StoredInv'
    BY <1>5, <2>1, <2>5, <2>6 DEF ContentInv, StoredInv
  <2>10. QED
    BY <1>7, <1>9, <1>10, <2>7, <2>8, <2>9 DEF ContentInv
<1>13. CASE DelSelectFileId
  <2>1. UNCHANGED file_info /\ dealfile.pc = "del: select file_id"
    BY <1>13 DEF DelSelectFileId, storeVars, mysqlVars
  <2>2. PICK i \in DOMAIN file_info[m] :
          dealfile' = [dealfile EXCEPT !.pc = "del: delete file_info",
                                       !.id = file_info[m][i].file_id]
    BY <1>1, <1>13 DEF DelSelectFileId
  <2>3. i = 1
    BY <1>3, <2>2 DEF InfoRows
  <2>4. /\ dealfile'.pc = "del: delete file_info"
        /\ dealfile'.id = file_info[m][1].file_id
        /\ dealfile'.file.md5 = m
    BY <1>1, <2>2, <2>3 DEF DealTypeOK
  <2>5. /\ \A n : InfoRows(n)' = InfoRows(n)
        /\ Listed' = Listed
    BY <2>1, SameRows
  <2>6. RowsInv'
    <3>1. DelHolds(m)'
      BY <2>4 DEF DelHolds, DelUnlists, RefSteps
    <3>2. QED
      BY <1>3, <1>6, <1>8, <2>1, <2>5, <3>1, RowsElsewhere DEF ContentInv
  <2>7. DelContent'
    BY <1>3, <1>7, <2>1, <2>4, <2>5 DEF DelContent
  <2>8. StoredInv'
    BY <1>5, <2>1, <2>4, <2>5 DEF ContentInv, StoredInv
  <2>9. QED
    BY <1>7, <1>9, <1>10, <2>6, <2>7, <2>8 DEF ContentInv
<1>14. CASE DelWriteRefs
  <2>1. dealfile.pc = "del: write refs" /\ dealfile.count = 0
    BY <1>14 DEF DelWriteRefs, ContentInv, DelContent
  <2>2. UpdateFileInfo(m, 0 - 1)
    BY <1>1, <1>14, <2>1 DEF DelWriteRefs
  <2>3. /\ dealfile'.pc = "del: select file_id" /\ dealfile'.file.md5 = m
    BY <1>1, <1>14, <2>1 DEF DelWriteRefs, DealGoes, DealTypeOK
  <2>4. /\ \A n \in Md5s : n # m => file_info'[n] = file_info[n]
        /\ DOMAIN file_info'[m] = DOMAIN file_info[m]
    BY <1>2, <2>2 DEF UpdateFileInfo, StoreTypeOK
  <2>5. InfoRows(m)' = {1}
    BY <1>3, <2>4 DEF InfoRows
  <2>6. RowsInv'
    <3>1. DelHolds(m)'
      BY <2>3 DEF DelHolds, DelUnlists, RefSteps
    <3>2. QED
      BY <1>3, <1>6, <1>8, <2>4, <2>5, <3>1, RowsElsewhere DEF ContentInv
  <2>7. DelContent'
    BY <1>3, <1>7, <2>3, <2>5 DEF DelContent
  <2>8. Listed' = Listed
    <3>1. \A id : Named(id)' <=> Named(id)
      <4>1. 0 - 1 \in Int
        OBVIOUS
      <4>2. QED
        BY <1>2, <2>2, <4>1, UpdateKeepsNames
    <3>2. \A id : (id \in Listed)' <=> Named(id)'
      BY ListedAreNamed DEF Listed, Named, HasId
    <3>3. QED
      BY <3>1, <3>2, ListedAreNamed
  <2>9. StoredInv'
    BY <1>5, <2>1, <2>3, <2>8 DEF ContentInv, StoredInv
  <2>10. QED
    BY <1>7, <1>9, <1>10, <2>6, <2>7, <2>9 DEF ContentInv
<1>15. QED
  BY <1>11, <1>12, <1>13, <1>14

LEMMA DelForgetsContent ==
  ASSUME Typed, BlobsInv, ContentInv, DelDeleteFileInfo,
         UNCHANGED <<upload, instant>>, upload.pc = "idle", instant.pc = "idle"
  PROVE  ContentInv'
<1> USE DEF Typed, TypeOK
<1>1. PICK m, d : m = dealfile.file.md5 /\ d = dealfile.id
  OBVIOUS
<1>2. /\ UNCHANGED <<storage, user_file_list>>
      /\ dealfile.pc = "del: delete file_info" /\ DeleteFileInfo(m)
  BY <1>1 DEF DelDeleteFileInfo, DeleteFileInfo, blobVars
<1>3. m \in Md5s
  BY <1>1, <1>2 DEF DealLocals, Files
<1>4. dealfile'.pc = "del: remove blob" /\ dealfile'.id = d
  BY <1>1 DEF DelDeleteFileInfo, DealGoes, DealTypeOK
<1>5. InfoRows(m) = {1} /\ ~Owned(m) /\ file_info[m][1].file_id = d
  BY <1>1, <1>2 DEF ContentInv, DelContent, DelUnlists, RefSteps
<1>6. /\ \A n \in Md5s : n # m => file_info'[n] = file_info[n]
      /\ file_info'[m] = <<>>
  BY <1>2, <1>3 DEF DeleteFileInfo, StoreTypeOK
<1>7. ListsStay
  BY <1>2, SameListsStay
<1>8. OwnedOnce'
  BY <1>7, OwnedNext DEF ContentInv
<1>9. InfoRows(m)' = {}
  <2>1. DOMAIN <<>> = {}
    OBVIOUS
  <2>2. QED
    BY <1>6, <2>1 DEF InfoRows
<1>10. RowsInv'
  <2>1. \A n : DelHolds(n) => n = m
    BY <1>1 DEF DelHolds
  <2>2. {} # {1}
    OBVIOUS
  <2>3. QED
    BY <1>5, <1>6, <1>7, <1>9, <2>1, <2>2, RowsElsewhere DEF ContentInv
<1>11. UploadContent' /\ InstantContent'
  BY DEF UploadContent, InstantContent
<1>12. DelContent'
  BY <1>4 DEF DelContent, DelUnlists
<1>13. storage = Listed
  BY <1>2 DEF ContentInv, StoredInv
<1>14. StoredInv'
  <2>1. \A x : HasId(file_info[m], x) <=> x = d
    BY <1>5 DEF HasId, InfoRows
  <2>2. \A x \in storage : Named(x)' <=> Named(x) /\ x # d
    BY <1>2, <1>3, <2>1, DeleteNames
  <2>3. \A x : Named(x)' => Named(x)
    BY <1>2, <1>3, DeleteFileInfoNames DEF Named
  <2>4. \A x : (x \in Listed)' <=> Named(x)'
    BY ListedAreNamed DEF Listed, Named, HasId
  <2>5. Named(d)
    BY <1>3, <2>1 DEF Named
  <2>6. \A x : x \in Listed' <=> x \in Listed /\ x # d
    BY <1>13, <2>2, <2>3, <2>4, ListedAreNamed
  <2>7. d \in Listed
    BY <2>5, ListedAreNamed
  <2>8. storage' = Listed' \cup {d}
    BY <1>2, <1>13, <2>6, <2>7
  <2>9. QED
    BY <1>4, <2>8 DEF StoredInv
<1>15. QED
  BY <1>8, <1>10, <1>11, <1>12, <1>14 DEF ContentInv

LEMMA DelRemovesContent ==
  ASSUME Typed, BlobsInv, ContentInv, DelRemoveBlob,
         UNCHANGED <<upload, instant>>, upload.pc = "idle", instant.pc = "idle"
  PROVE  ContentInv'
<1> USE DEF Typed, TypeOK
<1>1. /\ UNCHANGED <<file_info, user_file_list>>
      /\ storage' = storage \ {dealfile.id}
      /\ dealfile.pc = "del: remove blob"
  BY DEF DelRemoveBlob, RemoveBlob, mysqlVars
<1>2. dealfile'.pc = "reply"
  BY DEF DelRemoveBlob, DealReplies, DealTypeOK
<1>3. dealfile.id \notin Listed
  <2>1. \A n \in Md5s : ~HasId(file_info[n], dealfile.id)
    BY <1>1 DEF BlobsInv
  <2>2. QED
    BY <2>1, ListedAreNamed DEF Named
<1>4. /\ \A n : Owned(n)' <=> Owned(n)
      /\ OwnedOnce'
  BY <1>1, SameListsStay, OwnedNext DEF ContentInv
<1>5. /\ \A n : InfoRows(n)' = InfoRows(n)
      /\ \A n : CountedOnce(n)' <=> CountedOnce(n)
      /\ Listed' = Listed
  BY <1>1, SameRows
<1>6. RowsInv'
  <2>1. \A n : ~UploadHolds(n) /\ ~DelHolds(n)
    BY <1>1 DEF UploadHolds, DelHolds, DelUnlists
  <2>2. QED
    BY <1>4, <1>5, <2>1 DEF ContentInv, RowsInv
<1>7. UploadContent' /\ InstantContent'
  BY DEF UploadContent, InstantContent
<1>8. DelContent'
  BY <1>2 DEF DelContent, DelUnlists, RefSteps
<1>9. StoredInv'
  <2>1. storage = Listed \cup {dealfile.id}
    BY <1>1 DEF ContentInv, StoredInv
  <2>2. storage' = Listed'
    BY <1>1, <1>3, <1>5, <2>1
  <2>3. QED
    BY <1>2, <2>2 DEF StoredInv
<1>10. QED
  BY <1>4, <1>6, <1>7, <1>8, <1>9 DEF ContentInv

(* del finds the row it looks for, and the id of a blob in it *)
LEMMA DelKnowsBlob ==
  ASSUME Typed, BlobsInv, ContentInv
  PROVE  ~DelNoFileId /\ ~DelRemoveNothing
<1>1. ASSUME DelNoFileId PROVE FALSE
  <2>1. PICK m : m = dealfile.file.md5
    OBVIOUS
  <2>2. dealfile.pc = "del: select file_id" /\ file_info[m] = <<>>
    BY <1>1, <2>1 DEF DelNoFileId
  <2>3. m \in Md5s
    BY <2>1, <2>2 DEF Typed, TypeOK, DealTypeOK, DealLocals, Files
  <2>4. InfoRows(m) = {1}
    BY <2>1, <2>2 DEF ContentInv, DelContent, DelUnlists, RefSteps
  <2>5. QED
    BY <2>2, <2>3, <2>4, InfoRowsType DEF Typed, TypeOK
<1>2. ASSUME DelRemoveNothing PROVE FALSE
  BY <1>2 DEF DelRemoveNothing, ContentInv, StoredInv, BlobsInv
<1>3. QED
  BY <1>1, <1>2

LEMMA DealKeepsContent ==
  ASSUME Typed, Typed', BlobsInv, DriftInv, ContentInv, DealAlone
  PROVE  ContentInv'
<1>1. /\ DealStep /\ UNCHANGED <<upload, instant>>
      /\ upload.pc = "idle" /\ instant.pc = "idle"
  BY DEF DealAlone, UploadRests, InstantRests
<1>2. CASE DelDeleteUserFile
  BY <1>1, <1>2, DelUnlistsContent
<1>3. CASE DelNoRefs \/ DelSelectRefs \/ DelWriteRefs \/ DelSelectFileId
  BY <1>1, <1>3, DelCountsContent
<1>4. CASE DelDeleteFileInfo
  BY <1>1, <1>4, DelForgetsContent
<1>5. CASE DelRemoveBlob
  BY <1>1, <1>5, DelRemovesContent
<1>8. ~DelNoFileId /\ ~DelRemoveNothing
  BY DelKnowsBlob
<1>6. CASE dealfile.pc \notin RefSteps /\ dealfile'.pc \notin RefSteps
             /\ ~DelDeleteUserFile
  <2>1. UNCHANGED <<file_info, storage>>
    <3>1. ~DelWriteRefs /\ ~DelSelectFileId /\ ~DelDeleteFileInfo
            /\ ~DelRemoveBlob
      BY <1>6 DEF DelWriteRefs, DelSelectFileId, DelDeleteFileInfo,
        DelRemoveBlob, RefSteps
    <3>2. DealTypeOK
      BY DEF Typed, TypeOK
    <3>3. QED
      BY <1>1, <3>1, <3>2, DealBlobFrame
  <2>2. ListsStay
    <3>1. CASE DelWriteCount
      BY <3>1, SameListsStay DEF DelWriteCount, DeleteCount, UpdateCount,
        SetCount
    <3>2. CASE ~DelWriteCount
      <4>1. \A u \in Users : Calm(u)
        BY <1>1, <1>6, <3>2, DealCalmSteps
      <4>2. QED
        BY <4>1, CalmListsStay DEF Typed, TypeOK
    <3>3. QED
      BY <3>1, <3>2
  <2>3. UploadStays /\ InstantStays /\ DealStays
    BY <1>1, <1>6 DEF UploadStays, InstantStays, DealStays
  <2>4. QED
    BY <2>1, <2>2, <2>3, ContentStays
<1>7. QED
  BY <1>1, <1>2, <1>3, <1>4, <1>5, <1>6, <1>8, DealContentFrame
    DEF Typed, TypeOK

(* What a careful user asks for *)
LEMMA AskKeepsContent ==
  ASSUME Careful, OneOwnerEach, Typed, ContentInv, AskAlone
  PROVE  ContentInv'
<1>1. /\ UNCHANGED <<file_info, storage>> /\ ListsStay
      /\ upload.pc = "idle" /\ instant.pc = "idle" /\ dealfile.pc = "idle"
  BY SameListsStay DEF AskAlone, AllRest, UploadRests, InstantRests,
    DealRests, storeVars, mysqlVars, blobVars
<1>2. UNCHANGED dealfile \/ dealfile'.pc \notin RefSteps
  BY AskBegins DEF RefSteps
<1>3. DealStays
  BY <1>1, <1>2 DEF DealStays, RefSteps
<1>4. UploadStays
  <2>1. CASE UNCHANGED upload
    BY <2>1 DEF UploadStays
  <2>2. CASE \E u \in Users, f \in Files : AskUpload(u, f)
    <3>1. PICK u \in Users, f \in Files : AskUpload(u, f)
      BY <2>2
    <3>2. file_info[f.md5] = <<>>
      BY <3>1 DEF AskUpload
    <3>3. upload'.pc = "store blob" /\ upload'.file = f
      BY <3>1 DEF AskUpload, UploadAccept, UploadIdle
    <3>4. QED
      BY <1>1, <3>2, <3>3 DEF UploadStays
  <2>3. QED
    BY <2>1, <2>2 DEF AskAlone, Ask, AskInstant, AskDeal, AskSharePv,
      AskCancel, AskSave, AskListing
<1>5. InstantStays
  <2>1. CASE UNCHANGED instant
    BY <2>1 DEF InstantStays
  <2>2. CASE \E u \in Users, f \in Files : AskInstant(u, f)
    <3>1. PICK u \in Users, f \in Files : AskInstant(u, f)
      BY <2>2
    <3>2. ~Lists(u, f) /\ OneUser /\ \A n, o \in Names : n = o
      BY <3>1 DEF AskInstant, Admits, OneOwnerEach
    <3>3. \A v \in Users, g \in Files : g.md5 = f.md5 => v = u /\ g = f
      BY <3>2 DEF OneUser, Files
    <3>4. ~Owned(f.md5)
      BY <3>2, <3>3 DEF Owned
    <3>5. ~UploadHolds(f.md5) /\ ~DelHolds(f.md5)
      BY <1>1 DEF UploadHolds, DelHolds, DelUnlists, RefSteps
    <3>6. f.md5 \in Md5s
      BY DEF Files
    <3>7. InfoRows(f.md5) = {}
      BY <3>4, <3>5, <3>6 DEF ContentInv, RowsInv
    <3>8. file_info[f.md5] = <<>>
      BY <3>6, <3>7, InfoRowsType DEF Typed, TypeOK
    <3>9. instant'.pc = "select refs" /\ instant'.file = f
      BY <3>1 DEF AskInstant, InstantAccept, InstantIdle
    <3>10. QED
      BY <1>1, <3>8, <3>9 DEF InstantStays
  <2>3. QED
    BY <2>1, <2>2 DEF AskAlone, Ask, AskUpload, AskDeal, AskSharePv,
      AskCancel, AskSave, AskListing
<1>6. QED
  BY <1>1, <1>3, <1>4, <1>5, ContentStays

LEMMA DealShareBlobFrame ==
  ASSUME DealShareStep
  PROVE  UNCHANGED <<file_info, storage, uploaded>>
BY DEF DealShareStep, SharePvStep, CancelStep, SaveStep,
  SharePvMissing, SharePvSelect, SharePvWrite, SharePvZsetExit,
  SharePvZincrby, SharePvZadd, SharePvHset, CancelMark, CancelSelectTotal,
  CancelDeleteTotal, CancelCrashes, CancelDeleteShare, CancelZrem,
  CancelHdel, CancelHdelDies, SaveSelectOwn, SaveUnknown, SaveSelectRefs,
  SaveWriteRefs,
  DealShareReply, UpdateSharePv, DeleteShare, SetShares, UpdateShared,
  SetUserRows, DeleteCount, SetCount, Zincrby, Zadd, Zrem, SetZset, Hset,
  Hdel, SetHash, storeVars, mysqlVars, blobVars

LEMMA ContentInductive ==
  ASSUME OneAtATime, Careful, OneOwnerEach, Typed, Typed', BlobsInv, AloneInv,
         DriftInv, ContentInv, [PagesNext]_pagesVars
  PROVE  ContentInv'
<1>1. CASE /\ UNCHANGED <<file_info, storage, upload, instant, dealfile>>
           /\ ListsStay
  BY <1>1, ContentStays DEF UploadStays, InstantStays, DealStays
<1>2. CASE Still \/ RevivedAlone \/ ForgetsAlone
  <2>1. UNCHANGED <<file_info, storage, user_file_list, upload, instant,
                    dealfile>>
    BY <1>2 DEF Still, RevivedAlone, Revived, ForgetsAlone, RedisForgets,
      programVars, storeVars, mysqlVars, blobVars
  <2>2. QED
    BY <1>1, <2>1, SameListsStay
<1>3. CASE ListingAlone
  <2>1. UNCHANGED <<file_info, storage, user_file_list, upload, instant,
                    dealfile>>
    BY <1>3, ListingKeepsTables DEF ListingAlone, mysqlVars, blobVars
  <2>2. QED
    BY <1>1, <2>1, SameListsStay
<1>4. CASE DealShareAlone
  <2>1. \A u \in Users : Calm(u)
    BY <1>4, DealShareCalm DEF DealShareAlone
  <2>2. ListsStay
    BY <2>1, CalmListsStay DEF Typed, TypeOK
  <2>3. UNCHANGED <<file_info, storage, upload, instant, dealfile>>
    BY <1>4, DealShareBlobFrame DEF DealShareAlone
  <2>4. QED
    BY <1>1, <2>2, <2>3
<1>5. CASE AskAlone
  BY <1>5, AskKeepsContent
<1>6. CASE UploadAlone
  BY <1>6, UploadKeepsContent
<1>7. CASE InstantAlone
  BY <1>7, InstantKeepsContent
<1>8. CASE DealAlone
  BY <1>8, DealKeepsContent
<1>9. QED
  BY <1>2, <1>3, <1>4, <1>5, <1>6, <1>7, <1>8, OneMoves

LEMMA ContentAtFirst == PagesInit => ContentInv
<1> SUFFICES ASSUME PagesInit PROVE ContentInv
  OBVIOUS
<1>1. /\ storage = {}
      /\ \A m \in Md5s : file_info[m] = <<>>
      /\ \A u \in Users, f \in Files : user_file_list[u][f] = <<>>
      /\ upload = UploadIdle /\ instant = InstantIdle /\ dealfile = DealIdle
  BY DEF PagesInit, Init, StoreInit
<1>2. upload.pc = "idle" /\ instant.pc = "idle" /\ dealfile.pc = "idle"
  BY <1>1, IdlePcs
<1>3. DOMAIN <<>> = {} /\ {} # {1}
  OBVIOUS
<1>4. \A m \in Md5s : InfoRows(m) = {}
  BY <1>1, <1>3 DEF InfoRows
<1>5. \A u \in Users, f \in Files : ~Lists(u, f)
  BY <1>1 DEF Lists
<1>6. RowsInv /\ OwnedOnce
  BY <1>3, <1>4, <1>5 DEF RowsInv, OwnedOnce, Owned
<1>7. UploadContent /\ InstantContent /\ DelContent
  BY <1>2 DEF UploadContent, InstantContent, DelContent, DelUnlists, RefSteps
<1>8. Listed = {}
  BY <1>4 DEF Listed, InfoRows
<1>9. StoredInv
  BY <1>1, <1>2, <1>8 DEF StoredInv
<1>10. QED
  BY <1>6, <1>7, <1>9 DEF ContentInv

ContentAlways ==
  PagesInv /\ AloneInv /\ CountsInOrder /\ ContentInv

LEMMA ContentHolds ==
  ASSUME OneAtATime, Careful, OneOwnerEach
  PROVE  PagesSpec => []ContentAlways
<1>1. PagesInit => ContentAlways
  BY InitTyped, CountsAtFirst, SharesAtFirst, BlobsAtFirst, AloneAtFirst,
     CountsInOrderAtFirst, ContentAtFirst
     DEF PagesInit, PagesInv, ContentAlways
<1>2. ContentAlways /\ [PagesNext]_pagesVars => ContentAlways'
  <2> SUFFICES ASSUME ContentAlways, [PagesNext]_pagesVars
               PROVE  ContentAlways'
    OBVIOUS
  <2>1. PagesInv' /\ AloneInv' /\ CountsInOrder'
    BY PagesKeep, AloneKeeps, CountsKeepInOrder DEF ContentAlways, PagesInv
  <2>2. ContentInv'
    BY <2>1, ContentInductive DEF ContentAlways, PagesInv, CountsInOrder
  <2>3. QED
    BY <2>1, <2>2 DEF ContentAlways
<1>3. QED
  BY <1>1, <1>2, PTL DEF PagesSpec

(* One request after the other and no failure, contents of one owner each: *)
(* between two requests FastDFS holds the blob of each content that        *)
(* somebody lists, and no other.  del removes the row of the content and   *)
(* its blob when the last owner goes (dealfile_cgi.c:410-430).             *)
THEOREM NothingIsOrphaned ==
  ASSUME OneAtATime, Careful, OneOwnerEach
  PROVE  PagesSpec => []NoOrphans
<1>1. ContentAlways => NoOrphans
  <2> SUFFICES ASSUME ContentAlways, AllQuiet
               PROVE  storage =
                        UNION {{file_info[m][i].file_id : i \in DOMAIN file_info[m]} :
                               m \in {n \in Md5s : OwnersOf(n) # {}}}
    BY DEF NoOrphans
  <2>1. upload.pc = "idle" /\ dealfile.pc = "idle"
    BY NobodyAtWork DEF ContentAlways, PagesInv, UploadRests, DealRests
  <2>2. storage = Listed
    BY <2>1 DEF ContentAlways, ContentInv, StoredInv
  <2>3. \A m \in Md5s : InfoRows(m) # {} => OwnersOf(m) # {}
    <3> SUFFICES ASSUME NEW m \in Md5s, InfoRows(m) # {}
                 PROVE  OwnersOf(m) # {}
      OBVIOUS
    <3>1. ~UploadHolds(m) /\ ~DelHolds(m)
      BY <2>1 DEF UploadHolds, DelHolds, DelUnlists, RefSteps
    <3>2. Owned(m)
      BY <3>1 DEF ContentAlways, ContentInv, RowsInv
    <3>3. QED
      BY <3>2 DEF Owned, OwnersOf
  <2>4. QED
    BY <2>2, <2>3 DEF Listed, InfoRows
<1>2. QED
  BY <1>1, ContentHolds, PTL

-----------------------------------------------------------------------------
(* What myfiles shows *)

(* The row of the join for a file that u lists *)
JoinedRow(u, f) ==
  [file |-> f, row |-> 1, info |-> <<f.md5, 1>>,
   pv |-> user_file_list[u][f][1].pv]

LEMMA ListedRow ==
  ASSUME Typed, OneRowPerFile, ContentInv, NEW u \in Users, NEW f \in Files
  PROVE  IF Lists(u, f)
         THEN DOMAIN user_file_list[u][f] = {1} /\ DOMAIN file_info[f.md5] = {1}
         ELSE DOMAIN user_file_list[u][f] = {}
<1>1. PICK n \in Nat : /\ DOMAIN user_file_list[u][f] = 1..n
                       /\ Lists(u, f) <=> n >= 1
                       /\ n <= 1
  BY RowsNotEmpty DEF Typed, TypeOK, OneRowPerFile
<1>2. CASE Lists(u, f)
  <2>1. Owned(f.md5) /\ f.md5 \in Md5s
    BY <1>2 DEF Owned, Files
  <2>2. DOMAIN file_info[f.md5] = {1}
    BY <2>1 DEF ContentInv, RowsInv, CountedOnce, InfoRows
  <2>3. n = 1
    BY <1>1, <1>2
  <2>4. 1..1 = {1}
    OBVIOUS
  <2>5. QED
    BY <1>1, <1>2, <2>2, <2>3, <2>4
<1>3. CASE ~Lists(u, f)
  <2>1. n = 0
    BY <1>1, <1>3
  <2>2. 1..0 = {}
    OBVIOUS
  <2>3. QED
    BY <1>1, <1>3, <2>1, <2>2
<1>4. QED
  BY <1>2, <1>3

LEMMA JoinHasRow ==
  ASSUME Typed, OneRowPerFile, ContentInv, NEW u \in Users
  PROVE  \A r : r \in JoinedRows(u) <=>
                  \E f \in Files : Lists(u, f) /\ r = JoinedRow(u, f)
<1> DEFINE rows(f) == {[file |-> f, row |-> i, info |-> <<f.md5, j>>,
                        pv |-> user_file_list[u][f][i].pv] :
                         i \in DOMAIN user_file_list[u][f],
                         j \in DOMAIN file_info[f.md5]}
<1>1. JoinedRows(u) = UNION {rows(f) : f \in Files}
  BY DEF JoinedRows
<1>2. ASSUME NEW f \in Files
      PROVE  rows(f) = IF Lists(u, f) THEN {JoinedRow(u, f)} ELSE {}
  <2>1. CASE Lists(u, f)
    BY <2>1, ListedRow DEF JoinedRow
  <2>2. CASE ~Lists(u, f)
    BY <2>2, ListedRow
  <2>3. QED
    BY <2>1, <2>2
<1> HIDE DEF rows
<1>3. QED
  BY <1>1, <1>2

LEMMA RowSetHasRow ==
  ASSUME Typed, OneRowPerFile, ContentInv, NEW u \in Users
  PROVE  \A p : p \in RowSet(u) <=>
                  \E f \in Files : Lists(u, f) /\ p = <<f, 1>>
<1> DEFINE rows(f) == {f} \X DOMAIN user_file_list[u][f]
<1>1. RowSet(u) = UNION {rows(f) : f \in Files}
  BY DEF RowSet
<1>2. ASSUME NEW f \in Files
      PROVE  rows(f) = IF Lists(u, f) THEN {<<f, 1>>} ELSE {}
  <2>1. CASE Lists(u, f)
    BY <2>1, ListedRow
  <2>2. CASE ~Lists(u, f)
    BY <2>2, ListedRow
  <2>3. QED
    BY <2>1, <2>2
<1> HIDE DEF rows
<1>3. QED
  BY <1>1, <1>2

LEMMA JoinIsRows ==
  ASSUME Typed, OneRowPerFile, ContentInv, NEW u \in Users,
         IsFiniteSet(RowSet(u))
  PROVE  /\ IsFiniteSet(JoinedRows(u))
         /\ Cardinality(JoinedRows(u)) = Cardinality(RowSet(u))
<1> DEFINE at == [p \in RowSet(u) |-> JoinedRow(u, p[1])]
<1>1. \A f : JoinedRow(u, f).file = f
  BY DEF JoinedRow
<1>2. ASSUME NEW p \in RowSet(u)
      PROVE  /\ p = <<p[1], 1>>
             /\ at[p] = JoinedRow(u, p[1]) /\ at[p] \in JoinedRows(u)
  <2>1. PICK f \in Files : Lists(u, f) /\ p = <<f, 1>>
    BY RowSetHasRow
  <2>2. p[1] = f
    BY <2>1
  <2>3. JoinedRow(u, f) \in JoinedRows(u)
    BY <2>1, JoinHasRow
  <2>4. QED
    BY <2>1, <2>2, <2>3
<1>3. ASSUME NEW r \in JoinedRows(u)
      PROVE  \E p \in RowSet(u) : at[p] = r
  <2>1. PICK f \in Files : Lists(u, f) /\ r = JoinedRow(u, f)
    BY JoinHasRow
  <2>2. <<f, 1>> \in RowSet(u)
    BY <2>1, RowSetHasRow
  <2>3. <<f, 1>>[1] = f
    OBVIOUS
  <2>4. QED
    BY <2>1, <2>2, <2>3
<1>4. DOMAIN at = RowSet(u) /\ at \in [RowSet(u) -> JoinedRows(u)]
  BY <1>2
<1> HIDE DEF at
<1>5. \A p, q \in RowSet(u) : at[p] = at[q] => p = q
  BY <1>1, <1>2
<1>6. at \in Bijection(RowSet(u), JoinedRows(u))
  BY <1>3, <1>4, <1>5 DEF Bijection, Injection, Surjection, IsInjective
<1>7. QED
  BY <1>6, FS_Bijection DEF ExistsBijection

(* A page of at least so many rows is the whole join. *)
LEMMA WholePage ==
  ASSUME NEW cmd, NEW rows, IsFiniteSet(rows), NEW size \in Nat,
         size >= Cardinality(rows), NEW page \in Pages(cmd, rows, size)
  PROVE  page = rows
<1>1. page \in SUBSET rows
        /\ (Cardinality(page) = size \/ page = rows)
  BY DEF Pages
<1>2. /\ Cardinality(page) <= Cardinality(rows)
      /\ Cardinality(rows) = Cardinality(page) => rows = page
      /\ Cardinality(page) \in Nat /\ Cardinality(rows) \in Nat
  BY <1>1, FS_Subset, FS_CardinalityType
<1>3. QED
  BY <1>1, <1>2

(* While myfiles is at work no other program writes the tables. *)
LEMMA ShownTablesStay ==
  ASSUME OneAtATime, Typed, AloneInv, ~MyFilesRests, [PagesNext]_pagesVars
  PROVE  UNCHANGED <<user_file_list, user_file_count>>
<1>1. CASE Still \/ RevivedAlone \/ AskAlone
  BY <1>1 DEF Still, RevivedAlone, Revived, AskAlone, storeVars, mysqlVars
<1>2. CASE ListingAlone
  BY <1>2, ListingKeepsTables DEF ListingAlone, mysqlVars
<1>3. CASE ForgetsAlone
  BY <1>3 DEF ForgetsAlone, RedisForgets, mysqlVars
<1>4. ~UploadAlone /\ ~InstantAlone /\ ~DealAlone /\ ~DealShareAlone
  BY DEF UploadAlone, InstantAlone, DealAlone, DealShareAlone
<1>5. QED
  BY <1>1, <1>2, <1>3, <1>4, OneMoves

(* What the reply to user u shows *)
ShownOf(u) ==
  /\ myfiles.cmd = "count" => myfiles.num = RowsOf(u)
  /\ myfiles.cmd \in ListCmds /\ myfiles.size >= CountOf(u) =>
       /\ Cardinality(myfiles.shown) = RowsOf(u)
       /\ \A f \in Files : Lists(u, f) => \E r \in myfiles.shown : r.file = f

(* The program selects what it was asked for. *)
MyFilesKnows ==
  /\ myfiles.pc = "count: select" => myfiles.cmd = "count"
  /\ myfiles.pc = "list: select"  => myfiles.cmd # "count"
  /\ myfiles.pc = "reply" /\ myfiles.token = "110" /\ ~myfiles.lost =>
       ShownOf(myfiles.user)

LEMMA MyFilesShows ==
  ASSUME ContentAlways, MyFilesTypeOK, MyFilesLocals, MyFilesKnows,
         MyCountSelect \/ MyListSelect,
         NEW u \in Users, u = myfiles.user
  PROVE  ShownOf(u)'
<1> USE DEF ContentAlways, PagesInv
<1>1. UNCHANGED <<user_file_list, user_file_count>>
  BY DEF MyCountSelect, MyListSelect, storeVars, mysqlVars
<1>2. /\ RowsOf(u)' = RowsOf(u) /\ CountOf(u)' = CountOf(u)
      /\ \A f \in Files : Lists(u, f)' <=> Lists(u, f)
  BY <1>1 DEF RowsOf, CountOf, Lists, Files
<1>3. Owed(u) = 0
  <2>1. ~MyFilesRests
    BY DEF MyCountSelect, MyListSelect, MyFilesRests
  <2>2. UploadRests /\ InstantRests /\ DealRests
    BY <2>1 DEF AloneInv
  <2>3. QED
    BY <2>2 DEF Owed, UploadOwes, InstantOwes, DealOwes, UploadRests,
      InstantRests, DealRests
<1>4. /\ CountOf(u) = Cardinality(RowSet(u))
      /\ RowsOf(u) = Cardinality(RowSet(u))
      /\ IsFiniteSet(RowSet(u)) /\ Cardinality(RowSet(u)) \in Nat
      /\ OneRowPerFile
  BY <1>3, CountIsCard DEF RowsOf, RowSet, CountsInOrder, DriftInv
<1>5. CASE MyCountSelect
  <2>1. PICK num : /\ num = CountOf(u)
                   /\ myfiles' = [myfiles EXCEPT !.pc = "reply",
                        !.code = myfiles.token, !.num = num]
    BY <1>5 DEF MyCountSelect, CountOf
  <2>2. myfiles'.num = num /\ myfiles'.cmd = myfiles.cmd
    BY <2>1 DEF MyFilesTypeOK
  <2>3. myfiles.cmd = "count"
    BY <1>5 DEF MyCountSelect, MyFilesKnows
  <2>4. QED
    BY <1>2, <1>4, <2>1, <2>2, <2>3 DEF ShownOf, ListCmds
<1>6. CASE MyListSelect
  <2>1. PICK page \in Pages(myfiles.cmd, JoinedRows(u), myfiles.size),
             code \in {"015", "ok"} :
          myfiles' = [myfiles EXCEPT !.pc = "reply", !.shown = page,
                                     !.code = code]
    BY <1>6 DEF MyListSelect
  <2>2. /\ myfiles'.shown = page /\ myfiles'.cmd = myfiles.cmd
        /\ myfiles'.size = myfiles.size /\ myfiles.size \in Nat
    <3>1. PICK cmd, size : /\ cmd = myfiles.cmd /\ size = myfiles.size
                          /\ size \in Nat
      <4>1. PICK pages : myfiles \in MyFilesStates(pages)
        BY MyFilesTypeIsStates
      <4>2. myfiles.size \in PageSizes \cup {0}
        BY <4>1 DEF MyFilesStates
      <4>3. QED
        BY <4>2, PageSizesAreNat
    <3>2. /\ myfiles'.shown = page /\ myfiles'.cmd = cmd
          /\ myfiles'.size = size
      BY <2>1, <3>1 DEF MyFilesTypeOK
    <3>3. QED
      BY <3>1, <3>2
  <2>3. /\ IsFiniteSet(JoinedRows(u))
        /\ Cardinality(JoinedRows(u)) = Cardinality(RowSet(u))
    BY <1>4, JoinIsRows
  <2>4. myfiles.cmd # "count"
    BY <1>6 DEF MyListSelect, MyFilesKnows
  <2>5. QED
    <3> SUFFICES ASSUME myfiles.size >= CountOf(u)
                 PROVE  /\ Cardinality(page) = RowsOf(u)
                        /\ \A f \in Files : Lists(u, f) => \E r \in page : r.file = f
      BY <1>2, <2>2, <2>4 DEF ShownOf
    <3>1. page = JoinedRows(u)
      BY <1>4, <2>2, <2>3, WholePage
    <3>2. ASSUME NEW f \in Files, Lists(u, f)
          PROVE  \E r \in page : r.file = f
      <4>1. JoinedRow(u, f) \in page
        BY <1>4, <3>1, <3>2, JoinHasRow
      <4>2. JoinedRow(u, f).file = f
        BY DEF JoinedRow
      <4>3. QED
        BY <4>1, <4>2
    <3>3. QED
      BY <1>4, <2>3, <3>1, <3>2
<1>7. QED
  BY <1>5, <1>6

LEMMA MyFilesKnowsSame ==
  ASSUME OneAtATime, Typed, AloneInv, MyFilesLocals, MyFilesKnows,
         UNCHANGED myfiles, [PagesNext]_pagesVars
  PROVE  MyFilesKnows'
<1>1. CASE myfiles.pc = "reply"
  <2>1. UNCHANGED <<user_file_list, user_file_count>>
    BY <1>1, ShownTablesStay DEF MyFilesRests
  <2>2. PICK u \in Users : u = myfiles.user
    BY <1>1 DEF MyFilesLocals
  <2>3. /\ RowsOf(u)' = RowsOf(u) /\ CountOf(u)' = CountOf(u)
        /\ \A f \in Files : Lists(u, f)' <=> Lists(u, f)
    BY <2>1 DEF RowsOf, CountOf, Lists, Files
  <2>4. ShownOf(u) => ShownOf(u)'
    BY <2>3 DEF ShownOf, Files, ListCmds
  <2>5. ShownOf(u)' => ShownOf(myfiles.user)'
    BY <2>2 DEF ShownOf, ListCmds
  <2>6. QED
    BY <1>1, <2>2, <2>4, <2>5 DEF MyFilesKnows
<1>2. CASE myfiles.pc # "reply"
  BY <1>2 DEF MyFilesKnows
<1>3. QED
  BY <1>1, <1>2

LEMMA MyFilesKnowsKept ==
  ASSUME OneAtATime, ContentAlways, MyFilesTypeOK, MyFilesLocals,
         MyFilesKnows, [PagesNext]_pagesVars
  PROVE  MyFilesKnows'
<1> USE DEF ContentAlways, PagesInv
<1>1. CASE AskMyFiles
  <2>1. PICK cmd \in ListCmds \cup {"count"}, u \in Users,
             size \in PageSizes \cup {0}, token \in {"110", "111"} :
          MyFilesAccept(cmd, u, size, token)
    BY <1>1 DEF AskMyFiles
  <2>2. /\ myfiles'.pc = "count: select" => myfiles'.cmd = "count"
        /\ myfiles'.pc = "list: select" => myfiles'.cmd # "count"
        /\ myfiles'.pc = "reply" => myfiles'.token = "111"
    BY <2>1 DEF MyFilesAccept, MyFilesIdle
  <2>3. QED
    BY <2>2 DEF MyFilesKnows
<1>2. CASE MyFilesReply \/ MyFilesDies
  <2>1. myfiles'.pc = "idle"
    <3>1. myfiles' = MyFilesIdle
      BY <1>2 DEF MyFilesReply, MyFilesDies
    <3>2. MyFilesIdle.pc = "idle"
      BY DEF MyFilesIdle
    <3>3. QED
      BY <3>1, <3>2
  <2>2. QED
    BY <2>1 DEF MyFilesKnows
<1>3. CASE MyCountSelect \/ MyListSelect
  <2>1. PICK u \in Users : u = myfiles.user
    BY <1>3 DEF MyCountSelect, MyListSelect, MyFilesLocals
  <2>2. ShownOf(u)'
    BY <1>3, <2>1, MyFilesShows
  <2>3. myfiles'.pc = "reply" /\ myfiles'.user = u
    <3>1. CASE MyCountSelect
      BY <2>1, <3>1 DEF MyCountSelect, MyFilesTypeOK
    <3>2. CASE MyListSelect
      BY <2>1, <3>2 DEF MyListSelect, MyFilesTypeOK
    <3>3. QED
      BY <1>3, <3>1, <3>2
  <2>4. ShownOf(u)' => ShownOf(myfiles.user)'
    BY <2>3 DEF ShownOf, ListCmds
  <2>5. QED
    BY <2>2, <2>3, <2>4 DEF MyFilesKnows
<1>4. CASE MyFilesFails
  <2>1. PICK code : myfiles' = [myfiles EXCEPT !.pc = "reply",
                                  !.lost = TRUE, !.code = code]
    BY <1>4 DEF MyFilesFails
  <2>2. myfiles'.pc = "reply" /\ myfiles'.lost
    BY <2>1 DEF MyFilesTypeOK
  <2>3. QED
    BY <2>2 DEF MyFilesKnows
<1>5. CASE UNCHANGED myfiles
  BY <1>5, MyFilesKnowsSame
<1>6. QED
  BY <1>1, <1>2, <1>3, <1>4, <1>5 DEF PagesNext, CloudDiskMoves,
    RedisForgets, pagesVars, MyFilesRuns, MyFilesStep, MyFilesFault

(* One request after the other and no failure, contents of one owner each: *)
(* to a count myfiles answers the number of rows that upload and md5 made  *)
(* and del left (myfiles_cgi.c:115-134), and a page of that many rows      *)
(* shows each file of the user once (myfiles_cgi.c:196-230), whatever      *)
(* Redis forgets meanwhile.                                                *)
THEOREM FilesStayShown ==
  ASSUME OneAtATime, Careful, OneOwnerEach
  PROVE  PagesSpec => []FilesAreShown
<1>1. PagesInit => MyFilesTypeOK /\ MyFilesLocals /\ MyFilesKnows
  <2> SUFFICES ASSUME PagesInit
               PROVE  MyFilesTypeOK /\ MyFilesLocals /\ MyFilesKnows
    OBVIOUS
  <2>1. myfiles = MyFilesIdle /\ myfiles.pc = "idle"
    BY DEF PagesInit, MyFilesIdle
  <2>2. MyFilesTypeOK
    BY <2>1, MyFilesIdleIsState, MyFilesTypeIsStates
  <2>3. QED
    BY <2>1, <2>2 DEF MyFilesLocals, MyFilesKnows
<1>2. /\ ContentAlways /\ MyFilesTypeOK /\ MyFilesLocals /\ MyFilesKnows
      /\ [PagesNext]_pagesVars
      => MyFilesTypeOK' /\ MyFilesLocals' /\ MyFilesKnows'
  BY MyFilesTyped, MyFilesKnowsKept DEF ContentAlways, PagesInv
<1>3. MyFilesKnows => FilesAreShown
  BY DEF MyFilesKnows, FilesAreShown, ShownOf
<1>4. QED
  BY <1>1, <1>2, <1>3, ContentHolds, PTL DEF PagesSpec
=============================================================================
