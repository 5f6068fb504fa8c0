------------------------- MODULE CloudDiskPagesProofs -------------------------
(***************************************************************************)
(* CloudDisk keeps what is proved of it when myfiles reads its tables and  *)
(* Redis comes back with nothing, for all values of the constants: what    *)
(* the programs rely on is in MySQL and in their own hands.                *)
(***************************************************************************)
EXTENDS CloudDiskPages, CloudDiskLife

(* What the invariants of CloudDisk speak of are the tables, the blobs and *)
(* the programs.                                                           *)
PagesInv == Typed /\ CountsInv /\ SharesInv /\ BlobsInv

LEMMA ForgettingTyped ==
  ASSUME Typed, RedisForgets
  PROVE  Typed'
<1>1. StoreTypeOK'
  <2>1. zset' \in [Files -> Nat \cup {None}] /\ hash' \in SUBSET Files
    BY DEF RedisForgets
  <2>2. QED
    BY <2>1 DEF RedisForgets, Typed, TypeOK, StoreTypeOK, mysqlVars, blobVars
<1>2. UNCHANGED <<upload, instant, dealfile, dealshare, listing, accepted, faults,
                  misread>>
  BY DEF RedisForgets, programVars, boundVars
<1>3. QED
  BY <1>1, <1>2, UploadSame, InstantSame, DealSame, DealShareSame, ListingSame
     DEF Typed, TypeOK

LEMMA ForgettingKeeps ==
  ASSUME PagesInv, RedisForgets
  PROVE  PagesInv'
<1>1. UNCHANGED <<user_file_count, share_file_list, file_info, storage, uploaded,
                  upload, instant, dealfile, misread>>
  BY DEF RedisForgets, mysqlVars, blobVars, programVars, boundVars
<1>2. CountsInv'
  BY <1>1 DEF PagesInv, CountsInv, CountsPositive
<1>3. SharesInv'
  BY <1>1 DEF PagesInv, SharesInv, OneShareRowPerFile, IsShared
<1>4. BlobsInv'
  BY <1>1, NothingNamed DEF PagesInv
<1>5. QED
  BY <1>2, <1>3, <1>4, ForgettingTyped DEF PagesInv

(* For the rest the pages are beside the programs. *)
LEMMA PagesMove ==
  ASSUME [PagesNext]_pagesVars
  PROVE  [Next]_vars \/ RedisForgets
<1>1. CASE AskMyFiles
  BY <1>1 DEF AskMyFiles, MyFilesAccept, vars
<1>2. CASE MyFilesRuns
  BY <1>2 DEF MyFilesRuns, MyFilesStep, MyCountSelect, MyListSelect,
    MyFilesReply, vars
<1>3. CASE MyFilesFault
  BY <1>3 DEF MyFilesFault, MyFilesFails, MyFilesDies, vars
<1>4. QED
  BY <1>1, <1>2, <1>3 DEF PagesNext, CloudDiskMoves, pagesVars

LEMMA PagesKeep == PagesInv /\ [PagesNext]_pagesVars => PagesInv'
<1> SUFFICES ASSUME PagesInv, [PagesNext]_pagesVars PROVE PagesInv'
  OBVIOUS
<1>1. CASE [Next]_vars
  BY <1>1, NextTyped, CountsInductive, SharesInductive, BlobsInductive
     DEF PagesInv
<1>2. CASE RedisForgets
  BY <1>2, ForgettingKeeps
<1>3. QED
  BY <1>1, <1>2, PagesMove

LEMMA PagesAlways == PagesSpec => []PagesInv
<1>1. PagesInit => PagesInv
  BY InitTyped, CountsAtFirst, SharesAtFirst, BlobsAtFirst
     DEF PagesInit, PagesInv
<1>2. QED
  BY <1>1, PagesKeep, PTL DEF PagesSpec

(* A Redis that lost every share lets dealfile add no second share of a    *)
(* file: when ZLEXCOUNT finds none it asks MySQL (dealfile_cgi.c:163-174), *)
(* and only the files for which that very SELECT failed are left out.      *)
THEOREM SharesSurviveForgetting == PagesSpec => []OneShareRowPerFile
<1>1. PagesInv => OneShareRowPerFile
  BY DEF PagesInv, SharesInv
<1>2. QED
  BY <1>1, PagesAlways, PTL

(* Nor does it touch the life of a blob: a deletion that takes a shared    *)
(* file for an unshared one still removes its rows before its blob.        *)
THEOREM BlobsSurviveForgetting == PagesSpec => BlobsLiveOnce
<1>1. PagesInit => Life!LifeInit
  BY InitLives DEF PagesInit
<1>2. PagesInv /\ [PagesNext]_pagesVars => [Life!LifeNext]_LifeNow
  <2> SUFFICES ASSUME PagesInv, [PagesNext]_pagesVars
               PROVE  [Life!LifeNext]_LifeNow
    OBVIOUS
  <2>1. CASE [Next]_vars
    BY <2>1, StepLives DEF PagesInv
  <2>2. CASE RedisForgets
    BY <2>2 DEF RedisForgets, mysqlVars, blobVars, programVars, LifeNow,
      LifeOf, Listed
  <2>3. QED
    BY <2>1, <2>2, PagesMove
<1>3. QED
  BY <1>1, <1>2, PagesAlways, PTL
     DEF PagesSpec, BlobsLiveOnce, Life!LifeSpec, LifeNow

-----------------------------------------------------------------------------
(* myfiles *)

MyFilesLocals ==
  myfiles.pc # "idle" =>
    /\ myfiles.user \in Users
    /\ myfiles.pc = "count: select" => myfiles.token \in {"110", "111"}

LEMMA JoinedRowsType ==
  ASSUME StoreTypeOK, NEW u \in Users
  PROVE  \A r \in JoinedRows(u) : r \in Joined
<1> SUFFICES ASSUME NEW f \in Files, NEW i \in DOMAIN user_file_list[u][f],
                    NEW j \in DOMAIN file_info[f.md5]
             PROVE  [file |-> f, row |-> i, info |-> <<f.md5, j>>,
                     pv |-> user_file_list[u][f][i].pv] \in Joined
  BY DEF JoinedRows
<1>1. f.md5 \in Md5s
  BY DEF Files
<1>2. i \in Nat /\ j \in Nat
  <2>1. user_file_list[u][f] \in Seq(UserFileRows)
          /\ file_info[f.md5] \in Seq(FileInfoRows)
    BY <1>1 DEF StoreTypeOK
  <2>2. QED
    BY <2>1, LenProperties
<1>3. user_file_list[u][f][i].pv \in Nat
  BY UserFileRowType
<1>4. QED
  BY <1>1, <1>2, <1>3 DEF Joined

(* What myfiles is about to do, by the kind of its pages *)
MyFilesStates(pages) ==
  [pc:    {"idle", "count: select", "list: select", "reply"},
   cmd:   ListCmds \cup {"", "count"},
   user:  Users \cup {None},
   size:  PageSizes \cup {0},
   token: {"", "110", "111"},
   num:   Int,
   shown: pages,
   lost:  BOOLEAN,
   code:  {"", "ok", "015", "110", "111"}]

LEMMA MyFilesTypeIsStates ==
  MyFilesTypeOK <=> myfiles \in MyFilesStates(SUBSET Joined)
BY DEF MyFilesTypeOK, MyFilesStates

LEMMA MyFilesTypeIsStatesNext ==
  MyFilesTypeOK' <=> myfiles' \in MyFilesStates(SUBSET Joined)
BY DEF MyFilesTypeOK, MyFilesStates, Joined, Files, ListCmds

(* A process that shows nothing yet *)
LEMMA MyFilesIdleIsState == MyFilesIdle \in MyFilesStates(SUBSET Joined)
<1>1. PICK pages, none : pages = SUBSET Joined /\ none = {}
  OBVIOUS
<1>2. none \in pages
  BY <1>1
<1>3. [pc |-> "idle", cmd |-> "", user |-> None, size |-> 0, token |-> "",
       num |-> 0, shown |-> none, lost |-> FALSE, code |-> ""]
        \in MyFilesStates(pages)
  BY <1>2 DEF MyFilesStates
<1>4. QED
  BY <1>1, <1>3 DEF MyFilesIdle

LEMMA MyFilesIdleTyped ==
  ASSUME myfiles' = MyFilesIdle
  PROVE  MyFilesTypeOK' /\ MyFilesLocals'
<1>1. myfiles'.pc = "idle"
  BY DEF MyFilesIdle
<1>2. MyFilesTypeOK'
  BY MyFilesIdleIsState, MyFilesTypeIsStatesNext
<1>3. QED
  BY <1>1, <1>2 DEF MyFilesLocals

LEMMA MyFilesSame ==
  ASSUME MyFilesTypeOK, MyFilesLocals, UNCHANGED myfiles
  PROVE  MyFilesTypeOK' /\ MyFilesLocals'
BY DEF MyFilesTypeOK, MyFilesLocals

LEMMA MyFilesAcceptTyped ==
  ASSUME NEW u \in Users, NEW cmd \in ListCmds \cup {"count"},
         NEW size \in PageSizes \cup {0}, NEW token \in {"110", "111"},
         MyFilesAccept(cmd, u, size, token)
  PROVE  MyFilesTypeOK' /\ MyFilesLocals'
<1>1. PICK pc \in {"count: select", "list: select", "reply"},
           code \in {"", "111"} :
        myfiles' = [MyFilesIdle EXCEPT !.pc = pc, !.code = code, !.cmd = cmd,
                      !.user = u, !.size = size, !.token = token]
  BY DEF MyFilesAccept
<1>2. myfiles'.user = u /\ myfiles'.token = token
  BY <1>1 DEF MyFilesIdle
<1>3. PICK pages : pages = SUBSET Joined
  OBVIOUS
<1>4. MyFilesIdle \in MyFilesStates(pages)
  BY <1>3, MyFilesIdleIsState
<1>5. myfiles' \in MyFilesStates(pages)
  BY <1>1, <1>4 DEF MyFilesStates
<1>6. MyFilesTypeOK'
  BY <1>3, <1>5, MyFilesTypeIsStatesNext
<1>7. QED
  BY <1>2, <1>6 DEF MyFilesLocals

LEMMA MyFilesStepTyped ==
  ASSUME StoreTypeOK, MyFilesTypeOK, MyFilesLocals, MyFilesStep
  PROVE  MyFilesTypeOK' /\ MyFilesLocals'
<1>1. CASE MyCountSelect
  <2>1. PICK num : num = IF user_file_count[myfiles.user] = None
                         THEN 0 ELSE user_file_count[myfiles.user]
    OBVIOUS
  <2>2. myfiles.pc = "count: select" /\ myfiles.user \in Users
    BY <1>1 DEF MyCountSelect, MyFilesLocals
  <2>3. user_file_count[myfiles.user] \in Int \cup {None}
    BY <2>2, CountType DEF Counters
  <2>4. num \in Int
    BY <2>1, <2>3
  <2>5. myfiles.token \in {"110", "111"}
    BY <2>2 DEF MyFilesLocals
  <2>6. myfiles' = [myfiles EXCEPT !.pc = "reply", !.code = myfiles.token,
                                   !.num = num]
    BY <1>1, <2>1 DEF MyCountSelect
  <2>7. QED
    BY <2>2, <2>4, <2>5, <2>6 DEF MyFilesTypeOK, MyFilesLocals
<1>2. CASE MyListSelect
  <2>1. PICK page \in Pages(myfiles.cmd, JoinedRows(myfiles.user), myfiles.size),
             code \in {"015", "ok"} :
          myfiles' = [myfiles EXCEPT !.pc = "reply", !.shown = page,
                                     !.code = code]
    BY <1>2 DEF MyListSelect
  <2>2. page \in SUBSET Joined
    BY <1>2, <2>1, JoinedRowsType DEF Pages, MyListSelect, MyFilesLocals
  <2>3. QED
    BY <1>2, <2>1, <2>2 DEF MyListSelect, MyFilesTypeOK, MyFilesLocals
<1>3. CASE MyFilesReply
  BY <1>3, MyFilesIdleTyped DEF MyFilesReply
<1>4. QED
  BY <1>1, <1>2, <1>3 DEF MyFilesStep

LEMMA MyFilesFailsTyped ==
  ASSUME MyFilesTypeOK, MyFilesLocals, MyFilesFails
  PROVE  MyFilesTypeOK' /\ MyFilesLocals'
<1>1. PICK code \in {"110", "111", "015"} :
        /\ myfiles.pc # "idle"
        /\ myfiles' = [myfiles EXCEPT !.pc = "reply", !.lost = TRUE,
                                      !.code = code]
  BY DEF MyFilesFails
<1>2. QED
  BY <1>1 DEF MyFilesTypeOK, MyFilesLocals

LEMMA MyFilesTyped ==
  ASSUME Typed, MyFilesTypeOK, MyFilesLocals, [PagesNext]_pagesVars
  PROVE  MyFilesTypeOK' /\ MyFilesLocals'
<1>1. CASE AskMyFiles
  BY <1>1, MyFilesAcceptTyped DEF AskMyFiles
<1>2. CASE MyFilesRuns
  BY <1>2, MyFilesStepTyped DEF MyFilesRuns, Typed, TypeOK
<1>3. CASE MyFilesFault
  BY <1>3, MyFilesFailsTyped, MyFilesIdleTyped DEF MyFilesFault, MyFilesDies
<1>4. CASE UNCHANGED myfiles
  BY <1>4, MyFilesSame
<1>5. QED
  BY <1>1, <1>2, <1>3, <1>4 DEF PagesNext, CloudDiskMoves, RedisForgets,
    pagesVars

(* The number that myfiles prints is one, also for a user whose counter is *)
(* deleted (myfiles_cgi.c:115-134), and what it shows are rows of the join *)
(* as the tables have them, whatever the other programs do in between.     *)
THEOREM PagesStayTyped == PagesSpec => []MyFilesTypeOK
<1>1. PagesInit => MyFilesTypeOK /\ MyFilesLocals
  <2> SUFFICES ASSUME PagesInit PROVE MyFilesTypeOK /\ MyFilesLocals
    OBVIOUS
  <2>1. myfiles = MyFilesIdle /\ myfiles.pc = "idle"
    BY DEF PagesInit, MyFilesIdle
  <2>2. MyFilesTypeOK
    BY <2>1, MyFilesIdleIsState, MyFilesTypeIsStates
  <2>3. QED
    BY <2>1, <2>2 DEF MyFilesLocals
<1>2. /\ PagesInv /\ MyFilesTypeOK /\ MyFilesLocals /\ [PagesNext]_pagesVars
      => MyFilesTypeOK' /\ MyFilesLocals'
  BY MyFilesTyped DEF PagesInv
<1>3. QED
  BY <1>1, <1>2, PagesAlways, PTL DEF PagesSpec

-----------------------------------------------------------------------------
(* One request after the other, and no failure *)

OneAtATime == MaxBusy <= 1 /\ MaxFaults = 0

UploadRests    == upload.pc = "idle"
InstantRests   == instant.pc = "idle"
DealRests      == dealfile.pc = "idle"
DealShareRests == dealshare.pc \in {"idle", "dead"}
ListingRests   == listing.pc = "idle"
MyFilesRests   == myfiles.pc = "idle"

(* At least five of the six programs have nothing in hand, and no SELECT   *)
(* has failed.                                                             *)
AloneInv ==
  /\ misread = {}
  /\ ~UploadRests    => /\ InstantRests /\ DealRests /\ DealShareRests
                        /\ ListingRests /\ MyFilesRests
  /\ ~InstantRests   => /\ DealRests /\ DealShareRests
                        /\ ListingRests /\ MyFilesRests
  /\ ~DealRests      => DealShareRests /\ ListingRests /\ MyFilesRests
  /\ ~DealShareRests => ListingRests /\ MyFilesRests
  /\ ~ListingRests   => MyFilesRests

AllRest ==
  /\ UploadRests /\ InstantRests /\ DealRests /\ DealShareRests
  /\ ListingRests /\ MyFilesRests

LEMMA NobodyAtWork ==
  ASSUME Typed, AllQuiet
  PROVE  UploadRests /\ InstantRests /\ DealRests /\ DealShareRests
           /\ ListingRests
<1> DEFINE programs == {<<"upload", upload.pc>>, <<"md5", instant.pc>>,
              <<"dealfile", dealfile.pc>>, <<"dealsharefile", dealshare.pc>>,
              <<"sharefiles", listing.pc>>}
<1>1. \A p \in programs : p[2] \in {"idle", "dead"}
  BY DEF AllQuiet, AtWork
<1>2. /\ <<"upload", upload.pc>>[2] \in {"idle", "dead"}
      /\ <<"md5", instant.pc>>[2] \in {"idle", "dead"}
      /\ <<"dealfile", dealfile.pc>>[2] \in {"idle", "dead"}
      /\ <<"dealsharefile", dealshare.pc>>[2] \in {"idle", "dead"}
      /\ <<"sharefiles", listing.pc>>[2] \in {"idle", "dead"}
  BY <1>1
<1>3. upload.pc # "dead" /\ instant.pc # "dead"
  BY DEF Typed, TypeOK, UploadTypeOK, UploadSteps, InstantTypeOK,
    InstantSteps
<1>4. dealfile.pc # "dead"
  BY DEF Typed, TypeOK, DealTypeOK, DealSteps, ShareSteps, DelSteps, PvSteps
<1>5. listing.pc # "dead"
  BY DEF Typed, TypeOK, ListingTypeOK, ListingStates, ListingSteps
<1>6. QED
  BY <1>2, <1>3, <1>4, <1>5 DEF UploadRests, InstantRests, DealRests, DealShareRests,
    ListingRests

LEMMA AtWorkFinite == IsFiniteSet(AtWork)
<1> DEFINE a == <<"upload", upload.pc>>
           b == <<"md5", instant.pc>>
           c == <<"dealfile", dealfile.pc>>
           d == <<"dealsharefile", dealshare.pc>>
           e == <<"sharefiles", listing.pc>>
<1> HIDE DEF a, b, c, d, e
<1>1. IsFiniteSet({}) /\ IsFiniteSet({} \cup {a})
  BY FS_EmptySet, FS_AddElement
<1>2. IsFiniteSet(({} \cup {a}) \cup {b})
  BY <1>1, FS_AddElement
<1>3. IsFiniteSet((({} \cup {a}) \cup {b}) \cup {c})
  BY <1>2, FS_AddElement
<1>4. IsFiniteSet(((({} \cup {a}) \cup {b}) \cup {c}) \cup {d})
  BY <1>3, FS_AddElement
<1>5. IsFiniteSet((((({} \cup {a}) \cup {b}) \cup {c}) \cup {d}) \cup {e})
  BY <1>4, FS_AddElement
<1>6. AtWork \subseteq (((({} \cup {a}) \cup {b}) \cup {c}) \cup {d}) \cup {e}
  BY DEF AtWork, a, b, c, d, e
<1>7. QED
  BY <1>5, <1>6, FS_Subset

LEMMA NothingBusy ==
  ASSUME Typed, Busy <= 0
  PROVE  AllRest /\ AllQuiet
<1>1. IsFiniteSet(AtWork) /\ Cardinality(AtWork) \in Nat
  BY AtWorkFinite, FS_CardinalityType
<1>2. Cardinality(AtWork) = 0 /\ myfiles.pc = "idle"
  BY <1>1 DEF Busy
<1>3. AllQuiet
  BY <1>1, <1>2, FS_EmptySet DEF AllQuiet
<1>4. QED
  BY <1>2, <1>3, NobodyAtWork DEF AllRest, MyFilesRests

LEMMA AskFindsRest ==
  ASSUME OneAtATime, Typed, CloudDiskMoves, Ask
  PROVE  AllRest
<1>1. PICK cmd : Admits(cmd)
  BY DEF Ask, AskUpload, AskInstant, AskDeal, AskSharePv, AskCancel, AskSave,
    AskListing
<1>2. accepted' = accepted + 1 /\ accepted \in Nat
  BY <1>1 DEF Admits, Typed, TypeOK
<1>3. Busy < MaxBusy
  BY <1>2 DEF CloudDiskMoves
<1>4. Busy \in Int /\ MaxBusy \in Nat
  BY AtWorkFinite, FS_CardinalityType, BoundsAreNat DEF Busy
<1>5. Busy <= 0
  BY <1>3, <1>4 DEF OneAtATime
<1>6. QED
  BY <1>5, NothingBusy

(* What a step is then: nothing but for myfiles, a request that finds all  *)
(* programs at rest, a step of one program while the others rest, somebody *)
(* starting dealsharefile again, or Redis forgetting.                      *)
Still ==
  /\ UNCHANGED <<storeVars, programVars>>
  /\ UNCHANGED past \/ (Remembers /\ AllQuiet)

UploadAlone ==
  /\ UploadStep /\ Remembers
  /\ UNCHANGED <<instant, dealfile, dealshare, listing, myfiles>>
  /\ InstantRests /\ DealRests /\ DealShareRests /\ ListingRests
  /\ MyFilesRests

InstantAlone ==
  /\ InstantStep /\ Remembers
  /\ UNCHANGED <<upload, dealfile, dealshare, listing, myfiles>>
  /\ UploadRests /\ DealRests /\ DealShareRests /\ ListingRests
  /\ MyFilesRests

DealAlone ==
  /\ DealStep /\ Remembers
  /\ UNCHANGED <<upload, instant, dealshare, listing, myfiles>>
  /\ UploadRests /\ InstantRests /\ DealShareRests /\ ListingRests
  /\ MyFilesRests

DealShareAlone ==
  /\ DealShareStep /\ Remembers
  /\ UNCHANGED <<upload, instant, dealfile, listing, myfiles>>
  /\ UploadRests /\ InstantRests /\ DealRests /\ ListingRests
  /\ MyFilesRests
  /\ dealshare.pc # "dead"

ListingAlone ==
  /\ ListingStep /\ Remembers
  /\ UNCHANGED <<upload, instant, dealfile, dealshare, myfiles>>
  /\ UploadRests /\ InstantRests /\ DealRests /\ DealShareRests
  /\ MyFilesRests

AskAlone ==
  /\ Ask /\ Remembers /\ AllRest
  /\ UNCHANGED <<storeVars, myfiles>>

RevivedAlone == Revived /\ Remembers /\ UNCHANGED myfiles

ForgetsAlone == RedisForgets /\ AllRest

LEMMA OneMoves ==
  ASSUME OneAtATime, Typed, AloneInv, [PagesNext]_pagesVars
  PROVE  \/ Still        \/ AskAlone  \/ UploadAlone    \/ InstantAlone
         \/ DealAlone    \/ DealShareAlone \/ ListingAlone
         \/ RevivedAlone \/ ForgetsAlone
<1>1. CASE AskMyFiles \/ MyFilesRuns \/ MyFilesFault
  <2>1. UNCHANGED <<storeVars, programVars, past>>
    BY <1>1 DEF AskMyFiles, MyFilesAccept, MyFilesRuns, MyFilesStep,
      MyCountSelect, MyListSelect, MyFilesReply, MyFilesFault, MyFilesFails,
      MyFilesDies
  <2>2. QED
    BY <2>1 DEF Still
<1>2. CASE RedisForgets
  <2>1. Busy = 0
    BY <1>2 DEF RedisForgets
  <2>2. AllRest
    BY <2>1, NothingBusy
  <2>3. QED
    BY <1>2, <2>2 DEF ForgetsAlone
<1>3. CASE CloudDiskMoves
  <2> USE DEF CloudDiskMoves
  <2>1. CASE Ask
    <3>6. AllRest
      BY <1>3, <2>1, AskFindsRest
    <3>7. UNCHANGED storeVars
      BY <2>1 DEF Ask, AskUpload, AskInstant, AskDeal, AskSharePv, AskCancel,
        AskSave, AskListing, UploadAccept, InstantAccept, DealAccept,
        DealShareAccept, ListingAccept
    <3>8. QED
      BY <1>3, <2>1, <3>6, <3>7 DEF AskAlone
  <2>2. CASE UploadRuns
    <3>1. upload.pc # "idle"
      BY <2>2 DEF UploadRuns, UploadStep, UploadStoreBlob,
        UploadInsertFileInfo, UploadInsertUserFile, UploadSelectCount,
        UploadWriteCount, UploadReply
    <3>2. QED
      BY <1>3, <2>2, <3>1 DEF UploadRuns, UploadAlone, AloneInv, UploadRests
  <2>3. CASE InstantRuns
    <3>1. instant.pc # "idle"
      BY <2>3 DEF InstantRuns, InstantStep, InstantUnknown, InstantSelectRefs,
        InstantSelectOwn, InstantWriteRefs, InstantInsertUserFile,
        InstantSelectCount, InstantWriteCount, InstantReply
    <3>2. QED
      BY <1>3, <2>3, <3>1 DEF InstantRuns, InstantAlone, AloneInv, InstantRests
  <2>4. CASE DealRuns
    <3>1. dealfile.pc # "idle"
      BY <2>4 DEF DealRuns, DealStep, ShareStep, DelStep, PvStep,
        ShareZsetExit, ShareSelect, ShareZaddAgain, ShareMark, ShareInsert,
        ShareSelectTotal, ShareWriteTotal, ShareZadd, ShareHset, DelZsetExit,
        DelNoStatus, DelSelectStatus, DelDeleteShare, DelSelectTotal,
        DelWriteTotal, DelZrem, DelHdel, DelSelectCount, DelWriteCount,
        DelDeleteUserFile, DelNoRefs, DelSelectRefs, DelWriteRefs,
        DelNoFileId, DelSelectFileId, DelDeleteFileInfo, DelRemoveBlob,
        DelHdelDies, DelRemoveNothing, PvMissing,
        PvSelect, PvWrite, DealReply
    <3>2. QED
      BY <1>3, <2>4, <3>1 DEF DealRuns, DealAlone, AloneInv, DealRests
  <2>5. CASE DealShareRuns
    <3>1. dealshare.pc \notin {"idle", "dead"}
      BY <2>5 DEF DealShareRuns, DealShareStep, SharePvStep, CancelStep,
        SaveStep, SharePvMissing, SharePvSelect, SharePvWrite,
        SharePvZsetExit, SharePvZincrby, SharePvZadd, SharePvHset, CancelMark,
        CancelSelectTotal, CancelDeleteTotal, CancelCrashes,
        CancelDeleteShare, CancelZrem, CancelHdel, CancelHdelDies, SaveSelectOwn, SaveUnknown,
        SaveSelectRefs, SaveWriteRefs, DealShareReply
    <3>2. QED
      BY <1>3, <2>5, <3>1 DEF DealShareRuns, DealShareAlone, AloneInv,
        DealShareRests
  <2>6. CASE ListingRuns
    <3>1. listing.pc # "idle"
      BY <2>6 DEF ListingRuns, ListingStep, CountSelect, NormalSelect,
        RankStep, RankSelectTotal, RankZcard, RankDelZset, RankDelHash,
        RankSelectShares, RankZadd, RankHset, RankZrevrange, RankHget,
        RankZscore, ListingReply
    <3>2. QED
      BY <1>3, <2>6, <3>1 DEF ListingRuns, ListingAlone, AloneInv, ListingRests
  <2>7. ~CallFails /\ ~Misreads /\ ~Killed
    <3>1. faults \in Nat
      BY DEF Typed, TypeOK
    <3>2. ~Faulty
      BY <3>1 DEF Faulty, OneAtATime
    <3>3. QED
      BY <3>2 DEF CallFails, Misreads, Killed
  <2>8. CASE Revived
    BY <1>3, <2>8 DEF RevivedAlone
  <2>9. CASE Done
    BY <1>3, <2>9 DEF Done, Still, vars
  <2>10. QED
    BY <1>3, <2>1, <2>2, <2>3, <2>4, <2>5, <2>6, <2>7, <2>8, <2>9 DEF Next
<1>4. CASE UNCHANGED pagesVars
  BY <1>4 DEF Still, pagesVars, vars
<1>5. QED
  BY <1>1, <1>2, <1>3, <1>4 DEF PagesNext

LEMMA NothingMisread ==
  ASSUME OneAtATime, Typed, [PagesNext]_pagesVars
  PROVE  UNCHANGED misread
<1>1. ~Misreads
  BY DEF Misreads, Faulty, OneAtATime, Typed, TypeOK
<1>2. CASE [Next]_vars
  BY <1>1, <1>2, SystemMoves
<1>3. CASE RedisForgets
  BY <1>3 DEF RedisForgets, boundVars
<1>4. QED
  BY <1>2, <1>3, PagesMove

LEMMA AloneKeeps ==
  ASSUME OneAtATime, Typed, AloneInv, [PagesNext]_pagesVars
  PROVE  AloneInv'
<1>0. misread' = {}
  BY NothingMisread DEF AloneInv
<1> USE <1>0 DEF AloneInv, UploadRests, InstantRests, DealRests,
  DealShareRests, ListingRests, MyFilesRests
<1>1. CASE AskMyFiles
  <2>1. Busy \in Int /\ MaxBusy \in Nat
    BY AtWorkFinite, FS_CardinalityType, BoundsAreNat DEF Busy
  <2>2. Busy <= 0
    BY <1>1, <2>1 DEF OneAtATime, AskMyFiles
  <2>3. AllRest
    BY <2>2, NothingBusy
  <2>4. UNCHANGED programVars
    BY <1>1 DEF AskMyFiles
  <2>5. QED
    BY <2>3, <2>4 DEF AllRest, programVars
<1>2. CASE MyFilesRuns \/ MyFilesFault
  <2>1. myfiles.pc # "idle" /\ UNCHANGED programVars
    BY <1>2 DEF MyFilesRuns, MyFilesStep, MyCountSelect, MyListSelect,
      MyFilesReply, MyFilesFault, MyFilesFails, MyFilesDies
  <2>2. QED
    BY <2>1 DEF programVars
<1>3. CASE AskAlone
  <2>1. \/ UNCHANGED <<instant, dealfile, dealshare, listing>>
        \/ UNCHANGED <<upload, dealfile, dealshare, listing>>
        \/ UNCHANGED <<upload, instant, dealshare, listing>>
        \/ UNCHANGED <<upload, instant, dealfile, listing>>
        \/ UNCHANGED <<upload, instant, dealfile, dealshare>>
    BY ZenonT(60), <1>3 DEF AskAlone, Ask, AskUpload, AskInstant, AskDeal, AskSharePv,
      AskCancel, AskSave, AskListing
  <2>2. UNCHANGED myfiles /\ AllRest
    BY <1>3 DEF AskAlone
  <2>3. QED
    BY <2>1, <2>2 DEF AllRest
<1>4. CASE UploadAlone
  BY <1>4 DEF UploadAlone
<1>5. CASE InstantAlone
  BY <1>5 DEF InstantAlone
<1>6. CASE DealAlone
  BY <1>6 DEF DealAlone
<1>7. CASE DealShareAlone
  BY <1>7 DEF DealShareAlone
<1>8. CASE ListingAlone
  BY <1>8 DEF ListingAlone
<1>9. CASE RevivedAlone
  <2>1. dealshare'.pc = "idle" /\ dealshare.pc = "dead"
    BY <1>9 DEF RevivedAlone, Revived, DealShareIdle
  <2>2. QED
    BY <1>9, <2>1 DEF RevivedAlone, Revived
<1>10. CASE ForgetsAlone
  BY <1>10 DEF ForgetsAlone, RedisForgets, programVars
<1>11. CASE UNCHANGED <<programVars, myfiles>>
  BY <1>11 DEF programVars
<1>12. QED
  <2>1. CASE CloudDiskMoves /\ Still
    BY <1>11, <2>1 DEF CloudDiskMoves, Still
  <2>2. CASE RedisForgets
    BY <1>11, <2>2 DEF RedisForgets
  <2>3. CASE UNCHANGED pagesVars
    BY <1>11, <2>3 DEF pagesVars, vars
  <2>4. QED
    BY <1>1, <1>2, <1>3, <1>4, <1>5, <1>6, <1>7, <1>8, <1>9, <1>10, <2>1,
       <2>2, <2>3, OneMoves DEF PagesNext

LEMMA AloneAtFirst == PagesInit => AloneInv
<1> SUFFICES ASSUME PagesInit PROVE AloneInv
  OBVIOUS
<1>1. upload.pc = "idle" /\ instant.pc = "idle" /\ dealfile.pc = "idle"
  BY IdlePcs DEF PagesInit, Init
<1>2. dealshare.pc = "idle"
  BY DEF PagesInit, Init, DealShareIdle
<1>3. listing.pc = "idle"
  BY DEF PagesInit, Init, ListingIdle
<1>4. myfiles.pc = "idle" /\ misread = {}
  BY DEF PagesInit, MyFilesIdle, Init
<1>5. QED
  BY <1>1, <1>2, <1>3, <1>4 DEF AloneInv, UploadRests, InstantRests,
    DealRests, DealShareRests, ListingRests, MyFilesRests

(* What is remembered has its fields, whatever they hold. *)
PastShape ==
  /\ past = [forgets     |-> past.forgets,
             brokenOff   |-> past.brokenOff,
             sharedAgain |-> past.sharedAgain,
             leftBehind  |-> past.leftBehind,
             misled      |-> past.misled]
  /\ past.misled \in BOOLEAN

LEMMA PastMoves ==
  ASSUME PastShape, Remembers
  PROVE  /\ PastShape'
         /\ past'.brokenOff   = {f \in past.brokenOff \cup JustBrokenOff : IsShared(f)'}
         /\ past'.sharedAgain = (past.sharedAgain \cup JustSharedAgain) \ hash'
         /\ past'.leftBehind  = {f \in past.leftBehind \cup JustLeftBehind :
                                  zset'[f] # None /\ ~IsShared(f)'}
         /\ past'.misled = (past.misled \/ JustMisled)
<1> DEFINE brokenOff == {f \in past.brokenOff \cup JustBrokenOff : IsShared(f)'}
           sharedAgain == (past.sharedAgain \cup JustSharedAgain) \ hash'
           leftBehind == {f \in past.leftBehind \cup JustLeftBehind :
                            zset'[f] # None /\ ~IsShared(f)'}
           misled == past.misled \/ JustMisled
<1>1. past' = [past EXCEPT !.brokenOff = brokenOff, !.sharedAgain = sharedAgain,
                           !.leftBehind = leftBehind, !.misled = misled]
  BY DEF Remembers
<1>2. misled \in BOOLEAN
  OBVIOUS
<1> HIDE DEF brokenOff, sharedAgain, leftBehind, misled
<1>3. past = [forgets     |-> past.forgets,
             brokenOff   |-> past.brokenOff,
             sharedAgain |-> past.sharedAgain,
             leftBehind  |-> past.leftBehind,
             misled      |-> past.misled]
  BY DEF PastShape
<1>4. past' = [forgets |-> past.forgets, brokenOff |-> brokenOff,
              sharedAgain |-> sharedAgain, leftBehind |-> leftBehind,
              misled |-> misled]
  BY <1>1, <1>3
<1>5. PastShape'
  BY <1>2, <1>4 DEF PastShape
<1>6. QED
  BY <1>4, <1>5 DEF brokenOff, sharedAgain, leftBehind, misled

LEMMA PastForgets ==
  ASSUME PastShape, RedisForgets
  PROVE  /\ PastShape'
         /\ past'.sharedAgain = {} /\ past'.leftBehind = {}
         /\ past'.brokenOff = past.brokenOff /\ past'.misled = past.misled
<1>1. PICK n : past' = [past EXCEPT !.forgets = n, !.sharedAgain = {},
                                    !.leftBehind = {}]
  BY DEF RedisForgets
<1>2. QED
  BY <1>1 DEF PastShape

LEMMA PastKeeps ==
  ASSUME PastShape, [PagesNext]_pagesVars
  PROVE  PastShape'
<1>1. CASE UNCHANGED past
  BY <1>1 DEF PastShape
<1>2. QED
  BY <1>1, PastMoves, PastForgets DEF PagesNext, CloudDiskMoves, AskMyFiles,
    MyFilesRuns, MyFilesFault, pagesVars

LEMMA PastAtFirst == PagesInit => PastShape
BY DEF PagesInit, PastShape

-----------------------------------------------------------------------------
(* The two keys of Redis *)

(* Statements that write Redis, and what the others leave *)
LEMMA DealRedisFrame ==
  ASSUME DealTypeOK, DealStep
  PROVE  \/ ShareZaddAgain \/ ShareZadd \/ ShareHset \/ DelZrem \/ DelHdel
         \/ DelHdelDies
         \/ /\ UNCHANGED redisVars
            /\ dealfile.pc  \notin {"share: zadd again", "share: zadd",
                                    "share: hset", "del: zrem", "del: hdel"}
            /\ dealfile'.pc \notin {"share: hset", "del: hdel"}
<1> USE DEF DealTypeOK, DealGoes, DealReplies, storeVars, redisVars
<1>1. CASE ShareStep
  BY <1>1 DEF ShareStep, ShareZsetExit, ShareSelect, ShareMark, ShareInsert,
    ShareSelectTotal, ShareWriteTotal, UpdateShared, SetUserRows,
    InsertShare, SetShares, IncrementCount, UpdateCount, SetCount
<1>2. CASE DelZsetExit \/ DelNoStatus \/ DelSelectStatus \/ DelSelectTotal
             \/ DelWriteTotal \/ DelDeleteShare
  BY <1>2 DEF DelZsetExit, DelNoStatus, DelSelectStatus, DelSelectTotal,
    DelWriteTotal, DelDeleteShare, UpdateCount, SetCount, DeleteShare,
    SetShares
<1>3. CASE DelSelectCount \/ DelWriteCount \/ DelDeleteUserFile \/ DelNoRefs
  BY <1>3 DEF DelSelectCount, DelWriteCount, DelDeleteUserFile, DelNoRefs,
    UpdateCount, DeleteCount, SetCount, DeleteUserFile, SetUserRows
<1>4. CASE DelSelectRefs \/ DelWriteRefs \/ DelSelectFileId
             \/ DelDeleteFileInfo \/ DelRemoveBlob
  BY <1>4 DEF DelSelectRefs, DelWriteRefs, DelSelectFileId,
    DelDeleteFileInfo, DelRemoveBlob, UpdateFileInfo, DeleteFileInfo,
    RemoveBlob
<1>5. CASE PvStep
  BY <1>5 DEF PvStep, PvMissing, PvSelect, PvWrite, UpdateUserPv, SetUserRows
<1>6. CASE DealReply
  BY <1>6 DEF DealReply, DealIdle
<1>7. CASE DelNoFileId \/ DelRemoveNothing
  BY <1>7 DEF DelNoFileId, DelRemoveNothing
<1>8. QED
  BY <1>1, <1>2, <1>3, <1>4, <1>5, <1>6, <1>7 DEF DealStep, DelStep

LEMMA DealShareRedisFrame ==
  ASSUME DealShareTypeOK, DealShareStep
  PROVE  \/ SharePvZincrby \/ SharePvZadd \/ SharePvHset
         \/ CancelZrem \/ CancelHdel \/ CancelHdelDies
         \/ /\ UNCHANGED redisVars
            /\ dealshare.pc  \notin {"pv: zincrby", "pv: zadd", "pv: hset",
                                     "cancel: zrem", "cancel: hdel"}
            /\ dealshare'.pc \notin {"pv: hset", "cancel: hdel"}
            /\ dealshare'.pc = "pv: zincrby" => SharePvZsetExit
<1> USE DEF DealShareTypeOK, DealShareGoes, DealShareReplies, storeVars,
  redisVars
<1>1. CASE SharePvStep
  BY <1>1 DEF SharePvStep, SharePvMissing, SharePvSelect, SharePvWrite,
    SharePvZsetExit, UpdateSharePv, SetShares
<1>2. CASE CancelStep
  BY <1>2 DEF CancelStep, CancelMark, CancelSelectTotal, CancelDeleteTotal,
    CancelCrashes, CancelDeleteShare, UpdateShared, SetUserRows, DeleteCount,
    SetCount, DeleteShare, SetShares
<1>3. CASE SaveStep
  BY <1>3 DEF SaveStep, SaveSelectOwn, SaveUnknown, SaveSelectRefs,
    SaveWriteRefs
<1>4. CASE DealShareReply
  BY <1>4 DEF DealShareReply, DealShareIdle
<1>5. QED
  BY <1>1, <1>2, <1>3, <1>4 DEF DealShareStep

LEMMA ListingRedisFrame ==
  ASSUME ListingTypeOK, ListingStep
  PROVE  \/ RankDelZset \/ RankDelHash \/ RankZadd \/ RankHset
         \/ /\ UNCHANGED redisVars
            /\ listing.pc  \notin {"rank: del zset", "rank: del hash",
                                   "rank: zadd", "rank: hset"}
            /\ listing'.pc \notin {"rank: del hash", "rank: hset"}
<1> USE DEF ListingTypeOK, ListingStates, ListingGoes, ListingReplies,
  storeVars, redisVars
<1>1. CASE CountSelect \/ NormalSelect
  BY <1>1 DEF CountSelect, NormalSelect
<1>2. CASE RankSelectTotal \/ RankZcard \/ RankSelectShares
  BY <1>2 DEF RankSelectTotal, RankZcard, RankSelectShares
<1>3. CASE RankZrevrange \/ RankHget \/ RankZscore
  BY <1>3 DEF RankZrevrange, RankHget, RankZscore
<1>4. CASE ListingReply
  <2>1. ListingIdle.pc = "idle"
    BY DEF ListingIdle
  <2>2. QED
    BY <1>4, <2>1 DEF ListingReply
<1>5. QED
  BY <1>1, <1>2, <1>3, <1>4 DEF ListingStep, RankStep

-----------------------------------------------------------------------------
(* The names beside the members *)

LEMMA UploadKeepsRedis ==
  ASSUME UploadStep \/ InstantStep
  PROVE  UNCHANGED redisVars
<1>1. CASE UploadStep
  BY <1>1 DEF UploadStep, UploadStoreBlob, UploadInsertFileInfo,
    UploadInsertUserFile, UploadSelectCount, UploadWriteCount, UploadReply,
    StoreBlob, InsertFileInfo, InsertUserFile, SetUserRows, IncrementCount,
    UpdateCount, SetCount, storeVars
<1>2. CASE InstantStep
  BY <1>2 DEF InstantStep, InstantUnknown, InstantSelectRefs,
    InstantSelectOwn, InstantWriteRefs, InstantInsertUserFile,
    InstantSelectCount, InstantWriteCount, InstantReply, UpdateFileInfo,
    InsertUserFile, SetUserRows, IncrementCount, UpdateCount, SetCount,
    storeVars
<1>3. QED
  BY <1>1, <1>2

(* A name without a member is about to go, a member without a name is one  *)
(* of those shared again or gets its name at the next statement.           *)
NameGoes(f) ==
  \/ dealfile.pc = "del: hdel"     /\ dealfile.file = f
  \/ dealshare.pc = "cancel: hdel" /\ dealshare.file = f
  \/ listing.pc = "rank: del hash"

NameIsNext(f) ==
  \/ dealfile.pc = "share: hset" /\ dealfile.file = f
  \/ dealshare.pc = "pv: hset"   /\ dealshare.file = f
  \/ listing.pc = "rank: hset"   /\ listing.row = f

NamesInv ==
  /\ \A f \in hash \ Ranked : NameGoes(f)
  /\ \A f \in Ranked \ hash : f \in past.sharedAgain \/ NameIsNext(f)
  /\ \A f \in Files : /\ NameGoes(f)   => f \notin Ranked
                      /\ NameIsNext(f) => f \in Ranked
  /\ dealshare.pc = "pv: zincrby"  => dealshare.file \in Ranked

(* Steps that write neither key and change no statement near one *)
LEMMA NamesSame ==
  ASSUME NamesInv, UNCHANGED redisVars,
         \A f \in Files : NameGoes(f)' <=> NameGoes(f),
         \A f \in Files : NameIsNext(f)' <=> NameIsNext(f),
         hash \subseteq Files,
         past.sharedAgain \ hash \subseteq past'.sharedAgain,
         dealshare'.pc = "pv: zincrby" => dealshare'.file \in Ranked
  PROVE  NamesInv'
<1>1. Ranked' = Ranked /\ hash' = hash
  BY DEF redisVars, Ranked, Files
<1>2. Ranked \subseteq Files
  BY DEF Ranked
<1>3. (\A f \in Files : /\ NameGoes(f)   => f \notin Ranked
                       /\ NameIsNext(f) => f \in Ranked)'
  BY <1>1 DEF NamesInv, Files
<1>4. QED
  BY <1>1, <1>2, <1>3 DEF NamesInv

LEMMA DelZsetRanks ==
  ASSUME DelZset
  PROVE  Ranked' = {} /\ UNCHANGED hash
BY DEF DelZset, SetZset, Ranked, Files

LEMMA DealKeepsNames ==
  ASSUME Typed, PastShape, NamesInv, DealAlone
  PROVE  NamesInv'
<1> USE DEF Typed, TypeOK
<1>0. /\ UNCHANGED <<dealshare, listing>>
      /\ dealshare.pc \in {"idle", "dead"} /\ listing.pc = "idle"
      /\ past'.sharedAgain = (past.sharedAgain \cup JustSharedAgain) \ hash'
      /\ dealfile.pc # "idle" => dealfile.file \in Files
  BY PastMoves DEF DealAlone, DealShareRests, ListingRests, DealLocals
<1> DEFINE g == dealfile.file
<1>1. CASE ShareZaddAgain
  <2>1. dealfile.pc = "share: zadd again" /\ Zadd(g, 0)
          /\ dealfile' = [dealfile EXCEPT !.pc = "reply", !.code = "012"]
    BY <1>1 DEF ShareZaddAgain, DealReplies
  <2>2. Ranked' = Ranked \cup {g} /\ hash' = hash
    <3>1. 0 \in Int
      OBVIOUS
    <3>2. QED
      BY <1>0, <2>1, <3>1, ZaddRanks
  <2>3. JustSharedAgain = {g}
    BY <2>1 DEF JustSharedAgain
  <2>4. QED
    BY <1>0, <2>1, <2>2, <2>3 DEF NamesInv, NameGoes, NameIsNext, DealTypeOK
<1>2. CASE ShareZadd
  <2>1. dealfile.pc = "share: zadd" /\ Zadd(g, 0)
          /\ dealfile' = [dealfile EXCEPT !.pc = "share: hset"]
    BY <1>2 DEF ShareZadd, DealGoes
  <2>2. Ranked' = Ranked \cup {g} /\ hash' = hash
    <3>1. 0 \in Int
      OBVIOUS
    <3>2. QED
      BY <1>0, <2>1, <3>1, ZaddRanks
  <2>3. QED
    BY <1>0, <2>1, <2>2 DEF NamesInv, NameGoes, NameIsNext, DealTypeOK
<1>3. CASE ShareHset
  <2>1. dealfile.pc = "share: hset" /\ Hset(g)
          /\ dealfile' = [dealfile EXCEPT !.pc = "reply", !.code = "010"]
    BY <1>3 DEF ShareHset, DealReplies
  <2>2. Ranked' = Ranked /\ hash' = hash \cup {g}
    BY <2>1 DEF Hset, SetHash, Ranked, Files
  <2>3. g \in Ranked
    BY <1>0, <2>1 DEF NamesInv, NameIsNext
  <2>4. QED
    BY <1>0, <2>1, <2>2, <2>3 DEF NamesInv, NameGoes, NameIsNext, DealTypeOK
<1>4. CASE DelZrem
  <2>1. dealfile.pc = "del: zrem" /\ Zrem(g)
          /\ dealfile' = [dealfile EXCEPT !.pc = "del: hdel"]
    BY <1>4 DEF DelZrem, DealGoes
  <2>2. Ranked' = Ranked \ {g} /\ hash' = hash
    BY <1>0, <2>1, ZremRanks
  <2>3. QED
    BY <1>0, <2>1, <2>2 DEF NamesInv, NameGoes, NameIsNext, DealTypeOK
<1>5. CASE DelHdel
  <2>1. dealfile.pc = "del: hdel" /\ Hdel(g)
          /\ dealfile' = [dealfile EXCEPT !.pc = "del: select count"]
    BY <1>5 DEF DelHdel, DealGoes
  <2>2. Ranked' = Ranked /\ hash' = hash \ {g}
    BY <2>1 DEF Hdel, SetHash, Ranked, Files
  <2>4. QED
    BY <1>0, <2>1, <2>2 DEF NamesInv, NameGoes, NameIsNext, DealTypeOK
<1>6. CASE /\ UNCHANGED redisVars
           /\ dealfile.pc  \notin {"share: zadd again", "share: zadd",
                                   "share: hset", "del: zrem", "del: hdel"}
           /\ dealfile'.pc \notin {"share: hset", "del: hdel"}
  <2>1. hash' = hash /\ hash \subseteq Files
    BY <1>6 DEF redisVars, StoreTypeOK
  <2>2. QED
    BY <1>0, <1>6, <2>1, NamesSame DEF NameGoes, NameIsNext
<1>7. CASE DelHdelDies
  <2>1. /\ UNCHANGED redisVars
        /\ dealfile.pc = "del: hdel" /\ g \notin hash
        /\ dealfile'.pc = "idle"
    BY <1>7, IdlePcs DEF DelHdelDies, storeVars
  <2>2. Ranked' = Ranked /\ hash' = hash
    BY <2>1 DEF redisVars, Ranked, Files
  <2>3. QED
    BY <1>0, <2>1, <2>2 DEF NamesInv, NameGoes, NameIsNext
<1>8. QED
  BY <1>1, <1>2, <1>3, <1>4, <1>5, <1>6, <1>7, DealRedisFrame DEF DealAlone

LEMMA ExitFindsMember ==
  ASSUME NEW f, 1 \in ZsetExit(f)
  PROVE  zset[f] # None
BY DEF ZsetExit

LEMMA DealShareKeepsNames ==
  ASSUME Typed, PastShape, NamesInv, DealShareAlone
  PROVE  NamesInv'
<1> USE DEF Typed, TypeOK
<1>0. /\ UNCHANGED <<dealfile, listing>>
      /\ dealfile.pc = "idle" /\ listing.pc = "idle"
      /\ dealshare.pc # "idle" => dealshare.file \in Files
  BY DEF DealShareAlone, DealRests, ListingRests, DealShareLocals
<1>0a. past'.sharedAgain = past.sharedAgain \ hash'
  BY <1>0, PastMoves DEF DealShareAlone, JustSharedAgain
<1> DEFINE g == dealshare.file
<1>1. CASE SharePvZincrby
  <2>1. dealshare.pc = "pv: zincrby" /\ Zincrby(g)
          /\ dealshare' = [dealshare EXCEPT !.pc = "reply", !.code = "017"]
    BY <1>1 DEF SharePvZincrby, DealShareReplies
  <2>2. Ranked' = Ranked \cup {g} /\ hash' = hash
    BY <1>0, <2>1, ZincrbyRanks
  <2>3. g \in Ranked
    BY <2>1 DEF NamesInv
  <2>4. QED
    BY <1>0, <1>0a, <2>1, <2>2, <2>3
       DEF NamesInv, NameGoes, NameIsNext, DealShareTypeOK
<1>2. CASE SharePvZadd
  <2>1. dealshare.pc = "pv: zadd" /\ Zadd(g, dealshare.count + 1)
          /\ dealshare' = [dealshare EXCEPT !.pc = "pv: hset"]
    BY <1>2 DEF SharePvZadd, DealShareGoes
  <2>2. Ranked' = Ranked \cup {g} /\ hash' = hash
    <3>1. dealshare.count \in Nat
      BY <2>1 DEF DealShareLocals
    <3>2. dealshare.count + 1 \in Int
      BY <3>1
    <3>3. QED
      BY <1>0, <2>1, <3>2, ZaddRanks
  <2>3. QED
    BY <1>0, <1>0a, <2>1, <2>2
       DEF NamesInv, NameGoes, NameIsNext, DealShareTypeOK
<1>3. CASE SharePvHset
  <2>1. dealshare.pc = "pv: hset" /\ Hset(g)
          /\ dealshare' = [dealshare EXCEPT !.pc = "reply", !.code = "016"]
    BY <1>3 DEF SharePvHset, DealShareReplies
  <2>2. Ranked' = Ranked /\ hash' = hash \cup {g}
    BY <2>1 DEF Hset, SetHash, Ranked, Files
  <2>3. g \in Ranked
    BY <1>0, <2>1 DEF NamesInv, NameIsNext
  <2>4. QED
    BY <1>0, <1>0a, <2>1, <2>2, <2>3
       DEF NamesInv, NameGoes, NameIsNext, DealShareTypeOK
<1>4. CASE CancelZrem
  <2>1. dealshare.pc = "cancel: zrem" /\ Zrem(g)
    BY <1>4 DEF CancelZrem
  <2>2. Ranked' = Ranked \ {g} /\ hash' = hash
    BY <1>0, <2>1, ZremRanks
  <2>3. CASE zset[g] = None
    <3>1. dealshare' = [dealshare EXCEPT !.pc = "reply", !.code = "019"]
      BY <1>4, <2>3 DEF CancelZrem, DealShareReplies
    <3>2. g \notin Ranked
      BY <2>3 DEF Ranked
    <3>3. QED
      BY <1>0, <1>0a, <2>1, <2>2, <3>1, <3>2
         DEF NamesInv, NameGoes, NameIsNext, DealShareTypeOK
  <2>4. CASE zset[g] # None
    <3>1. dealshare' = [dealshare EXCEPT !.pc = "cancel: hdel"]
      BY <1>4, <2>4 DEF CancelZrem, DealShareGoes
    <3>2. QED
      BY <1>0, <1>0a, <2>1, <2>2, <3>1
         DEF NamesInv, NameGoes, NameIsNext, DealShareTypeOK
  <2>5. QED
    BY <2>3, <2>4
<1>5. CASE CancelHdel
  <2>1. dealshare.pc = "cancel: hdel" /\ Hdel(g)
    BY <1>5 DEF CancelHdel
  <2>2. PICK code : dealshare' = [dealshare EXCEPT !.pc = "reply", !.code = code]
    BY <1>5 DEF CancelHdel, DealShareReplies
  <2>3. Ranked' = Ranked /\ hash' = hash \ {g}
    BY <2>1 DEF Hdel, SetHash, Ranked, Files
  <2>4. QED
    BY <1>0, <1>0a, <2>1, <2>2, <2>3
       DEF NamesInv, NameGoes, NameIsNext, DealShareTypeOK
<1>6. CASE /\ UNCHANGED redisVars
           /\ dealshare.pc  \notin {"pv: zincrby", "pv: zadd", "pv: hset",
                                    "cancel: zrem", "cancel: hdel"}
           /\ dealshare'.pc \notin {"pv: hset", "cancel: hdel"}
           /\ dealshare'.pc = "pv: zincrby" => SharePvZsetExit
  <2>1. hash' = hash /\ hash \subseteq Files
    BY <1>6 DEF redisVars, StoreTypeOK
  <2>2. dealshare'.pc = "pv: zincrby" => dealshare'.file \in Ranked
    <3> SUFFICES ASSUME dealshare'.pc = "pv: zincrby"
                 PROVE  dealshare'.file \in Ranked
      OBVIOUS
    <3>1. dealshare.pc = "pv: zset_exit"
      BY <1>6 DEF SharePvZsetExit
    <3>2. PICK answer \in ZsetExit(g) :
            IF answer = 1      THEN DealShareGoes("pv: zincrby")
            ELSE IF answer = 0 THEN DealShareGoes("pv: zadd")
            ELSE DealShareReplies("017")
      BY <1>6 DEF SharePvZsetExit
    <3>3. answer = 1 /\ dealshare'.file = g
      BY <3>1, <3>2 DEF DealShareGoes, DealShareReplies, DealShareTypeOK
    <3>4. QED
      BY <1>0, <3>1, <3>2, <3>3, ExitFindsMember DEF Ranked
  <2>3. QED
    BY <1>0, <1>0a, <1>6, <2>1, <2>2, NamesSame DEF NameGoes, NameIsNext
<1>7. CASE CancelHdelDies
  <2>1. /\ UNCHANGED redisVars
        /\ dealshare.pc = "cancel: hdel" /\ g \notin hash
        /\ dealshare'.pc = "dead"
    BY <1>7 DEF CancelHdelDies, DealShareGoes, DealShareTypeOK, storeVars
  <2>2. Ranked' = Ranked /\ hash' = hash
    BY <2>1 DEF redisVars, Ranked, Files
  <2>3. QED
    BY <1>0, <1>0a, <2>1, <2>2 DEF NamesInv, NameGoes, NameIsNext
<1>8. QED
  BY <1>1, <1>2, <1>3, <1>4, <1>5, <1>6, <1>7, DealShareRedisFrame
     DEF DealShareAlone

LEMMA ListingKeepsNames ==
  ASSUME Typed, PastShape, NamesInv, ListingAlone
  PROVE  NamesInv'
<1> USE DEF Typed, TypeOK
<1>0. /\ UNCHANGED <<dealfile, dealshare>>
      /\ dealfile.pc = "idle" /\ dealshare.pc \in {"idle", "dead"}
  BY DEF ListingAlone, DealRests, DealShareRests
<1>0a. past'.sharedAgain = past.sharedAgain \ hash'
  BY <1>0, PastMoves DEF ListingAlone, JustSharedAgain
<1>1. CASE RankDelZset
  <2>1. listing'.pc = "rank: del hash"
    BY <1>1 DEF RankDelZset, ListingGoes, ListingTypeOK, ListingStates
  <2>2. Ranked' = {} /\ hash' = hash
    BY <1>1, DelZsetRanks DEF RankDelZset
  <2>3. QED
    BY <1>0, <2>1, <2>2 DEF NamesInv, NameGoes, NameIsNext
<1>2. CASE RankDelHash
  <2>1. listing.pc = "rank: del hash" /\ listing'.pc = "rank: select shares"
    BY <1>2 DEF RankDelHash, ListingGoes, ListingTypeOK, ListingStates
  <2>2. Ranked' = Ranked /\ hash' = {}
    BY <1>2 DEF RankDelHash, DelHash, SetHash, Ranked, Files
  <2>3. Ranked = {}
    BY <2>1 DEF NamesInv, NameGoes, Ranked
  <2>4. QED
    BY <1>0, <2>1, <2>2, <2>3 DEF NamesInv, NameGoes, NameIsNext
<1>3. CASE RankZadd
  <2>1. PICK row \in listing.rows :
          /\ Zadd(row.file, row.pv)
          /\ listing' = [listing EXCEPT !.pc = "rank: hset", !.row = row.file,
                                        !.rows = @ \ {row}]
    BY <1>3 DEF RankZadd
  <2>2. listing.pc = "rank: zadd" /\ listing'.pc = "rank: hset"
          /\ listing'.row = row.file
    BY <1>3, <2>1 DEF RankZadd, ListingTypeOK, ListingStates
  <2>3. row.file \in Files /\ row.pv \in Int
    <3>1. listing.rows \in SUBSET ShareRows
      BY DEF ListingTypeOK, ListingStates
    <3>2. QED
      BY <3>1 DEF ShareRows
  <2>4. Ranked' = Ranked \cup {row.file} /\ hash' = hash
    BY <2>1, <2>3, ZaddRanks
  <2>5. QED
    BY <1>0, <1>0a, <2>2, <2>4 DEF NamesInv, NameGoes, NameIsNext
<1>4. CASE RankHset
  <2>1. listing.pc = "rank: hset" /\ Hset(listing.row)
          /\ listing'.pc \in {"rank: zrevrange", "rank: zadd"}
    BY <1>4 DEF RankHset, ListingGoes, ListingTypeOK, ListingStates
  <2>2. Ranked' = Ranked /\ hash' = hash \cup {listing.row}
    BY <2>1 DEF Hset, SetHash, Ranked, Files
  <2>3. listing.row \in Ranked
    BY <2>1 DEF NamesInv, NameIsNext, ListingLocals
  <2>4. QED
    BY <1>0, <1>0a, <2>1, <2>2, <2>3 DEF NamesInv, NameGoes, NameIsNext
<1>5. CASE /\ UNCHANGED redisVars
           /\ listing.pc  \notin {"rank: del zset", "rank: del hash",
                                  "rank: zadd", "rank: hset"}
           /\ listing'.pc \notin {"rank: del hash", "rank: hset"}
  <2>1. hash' = hash /\ hash \subseteq Files
    BY <1>5 DEF redisVars, StoreTypeOK
  <2>2. QED
    BY <1>0, <1>0a, <1>5, <2>1, NamesSame DEF NameGoes, NameIsNext
<1>6. QED
  BY <1>1, <1>2, <1>3, <1>4, <1>5, ListingRedisFrame DEF ListingAlone

(* A request begins before any statement on Redis. *)
LEMMA AskBegins ==
  ASSUME AskAlone
  PROVE  /\ \/ UNCHANGED upload \/ upload'.pc = "store blob"
         /\ \/ UNCHANGED instant \/ instant'.pc = "select refs"
         /\ \/ UNCHANGED dealfile
            \/ dealfile'.pc \in {"share: zset_exit", "del: zset_exit",
                                  "pv: select"}
         /\ \/ UNCHANGED dealshare
            \/ dealshare'.pc \in {"pv: select", "cancel: mark",
                                   "save: select own"}
         /\ \/ UNCHANGED listing
            \/ listing'.pc \in {"count: select", "normal: select",
                                 "rank: select total"}
<1>1. CASE \E u \in Users, f \in Files : AskUpload(u, f)
  BY <1>1 DEF AskUpload, UploadAccept, UploadIdle
<1>2. CASE \E u \in Users, f \in Files : AskInstant(u, f)
  BY <1>2 DEF AskInstant, InstantAccept, InstantIdle
<1>3. CASE \E u \in Users, f \in Files, cmd \in {"share", "del", "pv"} :
             AskDeal(cmd, u, f)
  BY ZenonT(60), <1>3 DEF AskDeal, DealAccept, DealIdle
<1>4. CASE \E u \in Users, f \in Files :
             AskSharePv(u, f) \/ AskCancel(u, f) \/ AskSave(u, f)
  BY <1>4 DEF AskSharePv, AskCancel, AskSave, DealShareAccept, DealShareIdle
<1>5. CASE \E cmd \in {"count", "normal", "pvdesc"} : AskListing(cmd)
  <2>1. PICK cmd \in {"count", "normal", "pvdesc"} : AskListing(cmd)
    BY <1>5
  <2>2. PICK pc \in {"count: select", "normal: select", "rank: select total"} :
          listing' = [ListingIdle EXCEPT !.pc = pc, !.cmd = cmd]
    BY <2>1 DEF AskListing, ListingAccept
  <2>3. listing'.pc = pc
    BY <2>2 DEF ListingIdle
  <2>4. QED
    BY <2>1, <2>3 DEF AskListing
<1>6. QED
  BY <1>1, <1>2, <1>3, <1>4, <1>5 DEF AskAlone, Ask

LEMMA NamesInductive ==
  ASSUME OneAtATime, Typed, AloneInv, PastShape, NamesInv,
         [PagesNext]_pagesVars
  PROVE  NamesInv'
<1>1. hash \subseteq Files
  BY DEF Typed, TypeOK, StoreTypeOK
<1>2. CASE Still
  <2>1. UNCHANGED <<redisVars, dealfile, dealshare, listing>>
    BY <1>2 DEF Still, storeVars, programVars
  <2>2. past.sharedAgain \ hash \subseteq past'.sharedAgain
    BY <1>2, <2>1, PastMoves DEF Still, redisVars
  <2>3. QED
    BY <1>1, <2>1, <2>2, NamesSame DEF NameGoes, NameIsNext, NamesInv
<1>3. CASE AskAlone
  <2>1. UNCHANGED redisVars /\ hash' = hash
    BY <1>3 DEF AskAlone, storeVars, redisVars
  <2>2. past.sharedAgain \ hash \subseteq past'.sharedAgain
    BY <1>3, <2>1, PastMoves DEF AskAlone
  <2>3. /\ dealfile.pc = "idle" /\ dealshare.pc \in {"idle", "dead"}
        /\ listing.pc = "idle"
    BY <1>3 DEF AskAlone, AllRest, DealRests, DealShareRests, ListingRests
  <2>4. QED
    BY <1>1, <1>3, <2>1, <2>2, <2>3, AskBegins, NamesSame
       DEF NameGoes, NameIsNext
<1>4. CASE UploadAlone \/ InstantAlone
  <2>1. UNCHANGED <<redisVars, dealfile, dealshare, listing>> /\ Remembers
    BY <1>4, UploadKeepsRedis DEF UploadAlone, InstantAlone
  <2>2. past.sharedAgain \ hash \subseteq past'.sharedAgain
    BY <2>1, PastMoves DEF redisVars
  <2>3. QED
    BY <1>1, <2>1, <2>2, NamesSame DEF NameGoes, NameIsNext, NamesInv
<1>5. CASE RevivedAlone
  <2>1. UNCHANGED <<redisVars, dealfile, listing>> /\ Remembers
    BY <1>5 DEF RevivedAlone, Revived, storeVars
  <2>2. past.sharedAgain \ hash \subseteq past'.sharedAgain
    BY <2>1, PastMoves DEF redisVars
  <2>3. dealshare.pc = "dead" /\ dealshare'.pc = "idle"
    BY <1>5 DEF RevivedAlone, Revived, DealShareIdle
  <2>4. QED
    BY <1>1, <2>1, <2>2, <2>3, NamesSame DEF NameGoes, NameIsNext
<1>6. CASE ForgetsAlone
  <2>1. /\ UNCHANGED <<dealfile, dealshare, listing>>
        /\ Ranked' = {} /\ hash' = {}
    BY <1>6 DEF ForgetsAlone, RedisForgets, programVars, Ranked, Files
  <2>2. /\ dealfile.pc = "idle" /\ dealshare.pc \in {"idle", "dead"}
        /\ listing.pc = "idle"
    BY <1>6 DEF ForgetsAlone, AllRest, DealRests, DealShareRests, ListingRests
  <2>3. QED
    BY <2>1, <2>2 DEF NamesInv, NameGoes, NameIsNext
<1>7. QED
  BY <1>2, <1>3, <1>4, <1>5, <1>6, OneMoves, DealKeepsNames,
     DealShareKeepsNames, ListingKeepsNames

LEMMA NamesAtFirst == PagesInit => NamesInv
<1> SUFFICES ASSUME PagesInit PROVE NamesInv
  OBVIOUS
<1>1. Ranked = {} /\ hash = {}
  BY DEF PagesInit, Init, StoreInit, Ranked
<1>2. dealfile.pc = "idle" /\ dealshare.pc = "idle"
  BY IdlePcs DEF PagesInit, Init, DealShareIdle
<1>3. listing.pc = "idle"
  BY DEF PagesInit, Init, ListingIdle
<1>4. QED
  BY <1>1, <1>2, <1>3 DEF NamesInv, NameGoes, NameIsNext

(* One request after the other and no failure: between two requests the    *)
(* hash of names holds no file that is not ranked, and a ranked file lacks *)
(* its name only where dealfile_cgi.c:169 put the member back of a file    *)
(* that was shared already, without its name.  Any users, any contents.    *)
THEOREM NamesStayWithMembers ==
  ASSUME OneAtATime
  PROVE  PagesSpec => []NamesFollowMembers
<1> DEFINE Inv == PagesInv /\ AloneInv /\ PastShape /\ NamesInv
<1>1. PagesInit => Inv
  BY InitTyped, CountsAtFirst, SharesAtFirst, BlobsAtFirst, AloneAtFirst,
     PastAtFirst, NamesAtFirst DEF PagesInit, PagesInv
<1>2. Inv /\ [PagesNext]_pagesVars => Inv'
  BY PagesKeep, AloneKeeps, PastKeeps, NamesInductive DEF PagesInv
<1>3. Inv => NamesFollowMembers
  <2> SUFFICES ASSUME Inv, AllQuiet
               PROVE  hash \subseteq Ranked /\ Ranked \ hash \subseteq past.sharedAgain
    BY DEF NamesFollowMembers
  <2>1. /\ dealfile.pc = "idle" /\ dealshare.pc \in {"idle", "dead"}
        /\ listing.pc = "idle"
    BY NobodyAtWork DEF PagesInv, DealRests, DealShareRests, ListingRests
  <2>2. QED
    BY <2>1 DEF NamesInv, NameGoes, NameIsNext
<1> HIDE DEF Inv
<1>4. QED
  BY <1>1, <1>2, <1>3, PTL DEF PagesSpec

-----------------------------------------------------------------------------
(* The scores beside the pv *)

(* The score of f is at most the pv of each of its rows. *)
ScoreBelow(f) ==
  \A u \in Users : \A i \in DOMAIN share_file_list[u][f] :
    zset[f] <= share_file_list[u][f][i]

PvIs(f, n) ==
  \A u \in Users : \A i \in DOMAIN share_file_list[u][f] :
    share_file_list[u][f][i] = n

(* A share that has its row and not its member yet finds what Redis has    *)
(* still of an earlier one; nothing keeps it from writing its own.         *)
ScoreLate(f) ==
  dealfile.file = f /\ dealfile.pc \in {"share: select total",
                                        "share: write total", "share: zadd"}

ScoreInv ==
  /\ \A f \in Ranked : ScoreBelow(f) \/ ScoreLate(f)
  /\ dealfile.pc = "share: write total" =>
       dealfile.count = user_file_count[ShareTotal]
  /\ dealshare.pc = "pv: write" =>
       PvIs(dealshare.file, dealshare.count) /\ IsShared(dealshare.file)
  /\ dealshare.pc \in {"pv: zset_exit", "pv: zincrby", "pv: zadd"} =>
       PvIs(dealshare.file, dealshare.count + 1)
  /\ dealshare.pc \in {"pv: zset_exit", "pv: zincrby"}
       /\ dealshare.file \in Ranked => zset[dealshare.file] <= dealshare.count
  /\ listing.pc \in {"rank: zadd", "rank: hset"} =>
       listing.rows \subseteq SharedRows

LEMMA OnlyRow ==
  ASSUME StoreTypeOK, OneShareRowPerFile, misread = {}, NEW f \in Files,
         NEW u \in Users, NEW i \in DOMAIN share_file_list[u][f],
         NEW v \in Users, NEW j \in DOMAIN share_file_list[v][f]
  PROVE  u = v /\ i = j
<1>1. ASSUME NEW w \in Users, NEW k \in DOMAIN share_file_list[w][f]
      PROVE  share_file_list[w][f] # <<>> /\ k = 1
  <2>1. share_file_list[w][f] \in Seq(Nat)
    BY DEF StoreTypeOK
  <2>2. /\ Len(share_file_list[w][f]) \in Nat
        /\ DOMAIN share_file_list[w][f] = 1..Len(share_file_list[w][f])
    BY <2>1, LenProperties
  <2>3. Len(share_file_list[w][f]) <= 1
    BY DEF OneShareRowPerFile
  <2>4. k = 1 /\ Len(share_file_list[w][f]) # 0
    BY <1>1, <2>2, <2>3
  <2>5. QED
    BY <2>1, <2>4, EmptySeq
<1>2. QED
  BY <1>1 DEF OneShareRowPerFile

(* What the statements on share_file_list leave of the rows of a file *)
LEMMA InsertedShareRows ==
  ASSUME StoreTypeOK, NEW c, NEW g, InsertShare(c, g),
         NEW f \in Files, f # g, NEW u \in Users
  PROVE  share_file_list'[u][f] = share_file_list[u][f]
BY DEF InsertShare, SetShares, StoreTypeOK

LEMMA DeletedShareRows ==
  ASSUME StoreTypeOK, NEW c, NEW g, DeleteShare(c, g),
         NEW f \in Files, NEW u \in Users
  PROVE  /\ DOMAIN share_file_list'[u][f] \subseteq DOMAIN share_file_list[u][f]
         /\ \A i \in DOMAIN share_file_list'[u][f] :
              share_file_list'[u][f][i] = share_file_list[u][f][i]
<1>1. share_file_list'[u][f] \in {share_file_list[u][f], <<>>}
  BY DEF DeleteShare, SetShares, StoreTypeOK
<1>2. DOMAIN <<>> = {}
  OBVIOUS
<1>3. QED
  BY <1>1, <1>2

LEMMA UpdatedShareRows ==
  ASSUME StoreTypeOK, NEW g \in Files, NEW n, UpdateSharePv(g, n),
         NEW f \in Files, NEW u \in Users
  PROVE  /\ DOMAIN share_file_list'[u][f] = DOMAIN share_file_list[u][f]
         /\ \A i \in DOMAIN share_file_list[u][f] :
              share_file_list'[u][f][i] = IF f = g THEN n
                                          ELSE share_file_list[u][f][i]
<1>1. CASE f # g
  BY <1>1 DEF UpdateSharePv, SetShares, StoreTypeOK
<1>2. CASE f = g
  <2>1. share_file_list'[u][f] = [i \in DOMAIN share_file_list[u][f] |-> n]
    BY <1>2 DEF UpdateSharePv, SetShares, StoreTypeOK
  <2>2. QED
    BY <1>2, <2>1
<1>3. QED
  BY <1>1, <1>2

LEMMA SharedRowPv ==
  ASSUME StoreTypeOK, OneShareRowPerFile, misread = {},
         NEW row \in SharedRows
  PROVE  row.file \in Files /\ row.pv \in Nat /\ PvIs(row.file, row.pv)
           /\ IsShared(row.file)
<1>0. PICK u \in Users, f \in Files :
        \E i \in DOMAIN share_file_list[u][f] :
          row = [file |-> f, pv |-> share_file_list[u][f][i]]
  BY DEF SharedRows
<1>1. PICK i \in DOMAIN share_file_list[u][f] :
        row = [file |-> f, pv |-> share_file_list[u][f][i]]
  BY <1>0
<1>2. row.file = f /\ row.pv = share_file_list[u][f][i]
  BY <1>1
<1>3. row.pv \in Nat
  BY <1>2, ShareRowType
<1>4. PvIs(f, row.pv)
  BY <1>2, OnlyRow DEF PvIs
<1>5. IsShared(f)
  <2>1. share_file_list[u][f] # <<>>
    OBVIOUS
  <2>2. QED
    BY <2>1 DEF IsShared
<1>6. QED
  BY <1>2, <1>3, <1>4, <1>5

(* Statements that touch neither the shares nor the scores *)
LEMMA DealScoreFrame ==
  ASSUME DealTypeOK, DealStep
  PROVE  \/ ShareZaddAgain \/ ShareInsert \/ ShareSelectTotal
         \/ ShareWriteTotal \/ ShareZadd \/ DelDeleteShare \/ DelZrem
         \/ /\ UNCHANGED <<share_file_list, zset>>
            /\ dealfile.pc  \notin {"share: select total",
                                    "share: write total", "share: zadd"}
            /\ dealfile'.pc \notin {"share: select total",
                                    "share: write total", "share: zadd"}
<1> USE DEF DealTypeOK, DealGoes, DealReplies, storeVars, mysqlVars, redisVars
<1>1. CASE ShareStep
  BY <1>1 DEF ShareStep, ShareZsetExit, ShareSelect, ShareMark,
    ShareHset, UpdateShared, SetUserRows, Hset, SetHash
<1>2. CASE DelZsetExit \/ DelNoStatus \/ DelSelectStatus \/ DelSelectTotal
             \/ DelWriteTotal \/ DelHdel
  BY <1>2 DEF DelZsetExit, DelNoStatus, DelSelectStatus, DelSelectTotal,
    DelWriteTotal, DelHdel, UpdateCount, SetCount, Hdel, SetHash
<1>3. CASE DelSelectCount \/ DelWriteCount \/ DelDeleteUserFile \/ DelNoRefs
  BY <1>3 DEF DelSelectCount, DelWriteCount, DelDeleteUserFile, DelNoRefs,
    UpdateCount, DeleteCount, SetCount, DeleteUserFile, SetUserRows
<1>4. CASE DelSelectRefs \/ DelWriteRefs \/ DelSelectFileId
             \/ DelDeleteFileInfo \/ DelRemoveBlob
  BY <1>4 DEF DelSelectRefs, DelWriteRefs, DelSelectFileId,
    DelDeleteFileInfo, DelRemoveBlob, UpdateFileInfo, DeleteFileInfo,
    RemoveBlob
<1>5. CASE PvStep
  BY <1>5 DEF PvStep, PvMissing, PvSelect, PvWrite, UpdateUserPv, SetUserRows
<1>6. CASE DealReply
  BY <1>6 DEF DealReply, DealIdle
<1>7. CASE DelHdelDies \/ DelNoFileId \/ DelRemoveNothing
  BY <1>7, IdlePcs DEF DelHdelDies, DelNoFileId, DelRemoveNothing
<1>8. QED
  BY <1>1, <1>2, <1>3, <1>4, <1>5, <1>6, <1>7 DEF DealStep, DelStep

LEMMA DealKeepsScores ==
  ASSUME Typed, SharesInv, ScoreInv, DealAlone
  PROVE  ScoreInv'
<1> USE DEF Typed, TypeOK
<1>0. /\ UNCHANGED <<dealshare, listing>>
      /\ dealshare.pc \in {"idle", "dead"} /\ listing.pc = "idle"
      /\ dealfile.pc # "idle" => dealfile.file \in Files
  BY DEF DealAlone, DealShareRests, ListingRests, DealLocals
<1> DEFINE g == dealfile.file
<1>1. CASE ShareZaddAgain \/ ShareZadd
  <2>1. dealfile.pc \in {"share: zadd again", "share: zadd"} /\ Zadd(g, 0)
          /\ dealfile'.pc \in {"reply", "share: hset"}
    BY <1>1 DEF ShareZaddAgain, ShareZadd, DealReplies, DealGoes, DealTypeOK
  <2>2. 0 \in Int
    OBVIOUS
  <2>3. Ranked' = Ranked \cup {g} /\ share_file_list' = share_file_list
    BY <1>0, <2>1, <2>2, ZaddRanks
  <2>4. ASSUME NEW f \in Ranked'
        PROVE  ScoreBelow(f)'
    <3>1. f \in Files
      BY <2>3, <2>4, <1>0, <2>1 DEF Ranked
    <3>2. CASE f = g
      <4>1. zset'[f] = 0
        BY <2>1, <3>1, <3>2 DEF Zadd, SetZset, StoreTypeOK
      <4>2. \A u \in Users : \A i \in DOMAIN share_file_list[u][f] :
              0 <= share_file_list[u][f][i]
        BY <3>1, ShareRowType
      <4>3. QED
        BY <2>3, <4>1, <4>2 DEF ScoreBelow
    <3>3. CASE f # g
      <4>1. zset'[f] = zset[f]
        BY <2>1, <3>1, <3>3 DEF Zadd, SetZset, StoreTypeOK
      <4>2. ScoreBelow(f)
        BY <2>3, <2>4, <3>3 DEF ScoreInv, ScoreLate
      <4>3. QED
        BY <2>3, <4>1, <4>2 DEF ScoreBelow
    <3>4. QED
      BY <3>2, <3>3
  <2>5. QED
    BY <1>0, <2>1, <2>4 DEF ScoreInv
<1>2. CASE ShareInsert
  <2>1. /\ dealfile.pc = "share: insert" /\ InsertShare(dealfile.user, g)
        /\ dealfile'.pc = "share: select total" /\ dealfile'.file = g
    BY <1>2 DEF ShareInsert, DealGoes, DealTypeOK
  <2>2. zset' = zset /\ Ranked' = Ranked
    BY <2>1 DEF InsertShare, SetShares, redisVars, Ranked, Files
  <2>3. ASSUME NEW f \in Ranked, f # g
        PROVE  ScoreBelow(f)'
    <3>1. ScoreBelow(f)
      BY <2>1, <2>3 DEF ScoreInv, ScoreLate
    <3>2. \A u \in Users : share_file_list'[u][f] = share_file_list[u][f]
      BY <2>1, <2>3, InsertedShareRows DEF Ranked
    <3>3. QED
      BY <2>2, <3>1, <3>2 DEF ScoreBelow
  <2>4. QED
    BY <1>0, <2>1, <2>2, <2>3 DEF ScoreInv, ScoreLate
<1>3. CASE ShareSelectTotal
  <2>1. /\ dealfile' = [dealfile EXCEPT !.pc = "share: write total",
                                        !.count = user_file_count[ShareTotal]]
        /\ dealfile.pc = "share: select total"
        /\ UNCHANGED storeVars
    BY <1>3 DEF ShareSelectTotal
  <2>2. dealfile'.pc = "share: write total" /\ dealfile'.file = g
          /\ dealfile'.count = user_file_count[ShareTotal]
    BY <2>1 DEF DealTypeOK
  <2>3. UNCHANGED <<share_file_list, zset, user_file_count>> /\ Ranked' = Ranked
    BY <2>1 DEF storeVars, mysqlVars, redisVars, Ranked, Files
  <2>4. QED
    BY <1>0, <2>1, <2>2, <2>3 DEF ScoreInv, ScoreLate, ScoreBelow
<1>4. CASE ShareWriteTotal
  <2>1. dealfile.pc = "share: write total"
          /\ dealfile.count = user_file_count[ShareTotal]
    BY <1>4 DEF ShareWriteTotal, ScoreInv
  <2>2. dealfile'.pc = "share: zadd" /\ dealfile'.file = g
    BY <1>4, <2>1 DEF ShareWriteTotal, IncrementFails, DealGoes, DealTypeOK
  <2>3. UNCHANGED <<share_file_list, zset>> /\ Ranked' = Ranked
    BY <1>4 DEF ShareWriteTotal, IncrementCount, UpdateCount, SetCount,
      storeVars, mysqlVars, redisVars, Ranked, Files
  <2>4. QED
    BY <1>0, <2>1, <2>2, <2>3 DEF ScoreInv, ScoreLate, ScoreBelow
<1>5. CASE DelDeleteShare
  <2>1. /\ dealfile.pc = "del: delete share" /\ DeleteShare(dealfile.user, g)
        /\ dealfile'.pc = "del: select total"
    BY <1>5 DEF DelDeleteShare, DealGoes, DealTypeOK
  <2>2. zset' = zset /\ Ranked' = Ranked
    BY <2>1 DEF DeleteShare, SetShares, redisVars, Ranked, Files
  <2>3. ASSUME NEW f \in Ranked PROVE ScoreBelow(f)'
    <3>1. ScoreBelow(f) /\ f \in Files
      BY <2>1, <2>3 DEF ScoreInv, ScoreLate, Ranked
    <3>2. QED
      BY <2>1, <2>2, <3>1, DeletedShareRows DEF ScoreBelow
  <2>4. QED
    BY <1>0, <2>1, <2>2, <2>3 DEF ScoreInv, ScoreLate
<1>6. CASE DelZrem
  <2>1. dealfile.pc = "del: zrem" /\ Zrem(g) /\ dealfile'.pc = "del: hdel"
    BY <1>6 DEF DelZrem, DealGoes, DealTypeOK
  <2>2. Ranked' = Ranked \ {g} /\ share_file_list' = share_file_list
    BY <1>0, <2>1, ZremRanks
  <2>3. \A f \in Ranked' : zset'[f] = zset[f]
    BY <2>1, <2>2 DEF Zrem, SetZset, Ranked, StoreTypeOK
  <2>4. QED
    BY <1>0, <2>1, <2>2, <2>3 DEF ScoreInv, ScoreLate, ScoreBelow
<1>7. CASE /\ UNCHANGED <<share_file_list, zset>>
           /\ dealfile.pc  \notin {"share: select total",
                                   "share: write total", "share: zadd"}
           /\ dealfile'.pc \notin {"share: select total",
                                   "share: write total", "share: zadd"}
  <2>1. Ranked' = Ranked
    BY <1>7 DEF Ranked, Files
  <2>2. QED
    BY <1>0, <1>7, <2>1 DEF ScoreInv, ScoreLate, ScoreBelow
<1>8. QED
  BY <1>1, <1>2, <1>3, <1>4, <1>5, <1>6, <1>7, DealScoreFrame DEF DealAlone

LEMMA DealShareScoreFrame ==
  ASSUME DealShareTypeOK, DealShareStep
  PROVE  \/ SharePvSelect \/ SharePvWrite \/ SharePvZsetExit
         \/ SharePvZincrby \/ SharePvZadd \/ CancelDeleteShare \/ CancelZrem
         \/ /\ UNCHANGED <<share_file_list, zset>>
            /\ dealshare'.pc \notin {"pv: write", "pv: zset_exit",
                                     "pv: zincrby", "pv: zadd"}
<1> USE DEF DealShareTypeOK, DealShareGoes, DealShareReplies, storeVars,
  mysqlVars, redisVars
<1>1. CASE SharePvStep
  BY <1>1 DEF SharePvStep, SharePvMissing, SharePvHset, Hset, SetHash
<1>2. CASE CancelStep
  BY <1>2 DEF CancelStep, CancelMark, CancelSelectTotal, CancelDeleteTotal,
    CancelCrashes, CancelHdel, CancelHdelDies, UpdateShared, SetUserRows,
    DeleteCount,
    SetCount, Hdel, SetHash
<1>3. CASE SaveStep
  BY <1>3 DEF SaveStep, SaveSelectOwn, SaveUnknown, SaveSelectRefs,
    SaveWriteRefs
<1>4. CASE DealShareReply
  BY <1>4 DEF DealShareReply, DealShareIdle
<1>5. QED
  BY <1>1, <1>2, <1>3, <1>4 DEF DealShareStep

LEMMA DealShareKeepsScores ==
  ASSUME Typed, SharesInv, misread = {}, ScoreInv, DealShareAlone
  PROVE  ScoreInv'
<1> USE DEF Typed, TypeOK
<1>0. /\ UNCHANGED <<dealfile, listing>>
      /\ dealfile.pc = "idle" /\ listing.pc = "idle"
      /\ dealshare.pc # "idle" => dealshare.file \in Files
  BY DEF DealShareAlone, DealRests, ListingRests, DealShareLocals
<1>0a. \A f \in Ranked : ScoreBelow(f)
  BY <1>0 DEF ScoreInv, ScoreLate
<1> DEFINE g == dealshare.file
           n == dealshare.count
<1>1. CASE SharePvSelect
  <2>1. PICK u \in Users : \E i \in DOMAIN share_file_list[u][g] :
          dealshare' = [dealshare EXCEPT !.pc = "pv: write",
                         !.count = share_file_list[u][g][i]]
    BY <1>1 DEF SharePvSelect
  <2>2. PICK i \in DOMAIN share_file_list[u][g] :
          dealshare' = [dealshare EXCEPT !.pc = "pv: write",
                         !.count = share_file_list[u][g][i]]
    BY <2>1
  <2>3. /\ dealshare'.pc = "pv: write" /\ dealshare'.file = g
        /\ dealshare'.count = share_file_list[u][g][i]
    BY <2>2 DEF DealShareTypeOK
  <2>4. UNCHANGED <<share_file_list, zset>> /\ Ranked' = Ranked /\ g \in Files
    BY <1>0, <1>1 DEF SharePvSelect, storeVars, mysqlVars, redisVars, Ranked,
      Files
  <2>5. PvIs(g, share_file_list[u][g][i])
    BY <2>4, OnlyRow DEF PvIs, SharesInv
  <2>6. IsShared(g)
    <3>1. share_file_list[u][g] # <<>>
      OBVIOUS
    <3>2. QED
      BY <3>1 DEF IsShared
  <2>7. QED
    BY ZenonT(60), <1>0, <1>0a, <2>3, <2>4, <2>5, <2>6
       DEF ScoreInv, ScoreBelow, PvIs, IsShared
<1>2. CASE SharePvWrite
  <2>1. /\ dealshare.pc = "pv: write" /\ UpdateSharePv(g, n + 1)
        /\ dealshare'.pc = "pv: zset_exit" /\ dealshare'.file = g
        /\ dealshare'.count = n
    BY <1>2 DEF SharePvWrite, DealShareGoes, DealShareTypeOK
  <2>2. PvIs(g, n) /\ IsShared(g) /\ g \in Files /\ n \in Nat
    BY <1>0, <2>1 DEF ScoreInv, DealShareLocals
  <2>3. zset' = zset /\ Ranked' = Ranked
    BY <2>1 DEF UpdateSharePv, SetShares, redisVars, Ranked, Files
  <2>4. ASSUME NEW f \in Files, NEW u \in Users
        PROVE  /\ DOMAIN share_file_list'[u][f] = DOMAIN share_file_list[u][f]
               /\ \A i \in DOMAIN share_file_list[u][f] :
                    share_file_list'[u][f][i] = IF f = g THEN n + 1
                                                ELSE share_file_list[u][f][i]
    <3>1. PICK m : m = n + 1 /\ UpdateSharePv(g, m)
      BY <2>1
    <3>2. QED
      BY <2>2, <3>1, UpdatedShareRows
  <2>5. \A u \in Users : \A i \in DOMAIN share_file_list'[u][g] :
          share_file_list'[u][g][i] = n + 1
    BY <2>2, <2>4
  <2>6. g \in Ranked => zset[g] <= n
    <3> SUFFICES ASSUME g \in Ranked PROVE zset[g] <= n
      OBVIOUS
    <3>1. PICK u \in Users : share_file_list[u][g] # <<>>
      BY <2>2 DEF IsShared
    <3>2. share_file_list[u][g] \in Seq(Nat)
      BY <2>2 DEF StoreTypeOK
    <3>3. Len(share_file_list[u][g]) # 0
      BY <3>1, <3>2, EmptySeq
    <3>4. 1 \in DOMAIN share_file_list[u][g]
      BY <3>2, <3>3, LenProperties
    <3>5. QED
      BY <1>0a, <2>2, <3>4 DEF ScoreBelow, PvIs
  <2>7. ASSUME NEW f \in Ranked PROVE ScoreBelow(f)'
    <3>1. f \in Files /\ zset[f] \in Nat /\ ScoreBelow(f)
      BY <1>0a DEF Ranked, StoreTypeOK
    <3>2. CASE f = g
      <4>1. zset[g] <= n + 1
        BY <2>2, <2>6, <2>7, <3>1, <3>2
      <4>2. QED
        BY <2>3, <2>4, <3>1, <3>2, <4>1 DEF ScoreBelow
    <3>3. CASE f # g
      BY <2>3, <2>4, <3>1, <3>3 DEF ScoreBelow
    <3>4. QED
      BY <3>2, <3>3
  <2>8. QED
    BY <1>0, <2>1, <2>3, <2>5, <2>6, <2>7 DEF ScoreInv, PvIs
<1>3. CASE SharePvZsetExit
  <2>1. dealshare.pc = "pv: zset_exit"
    BY <1>3 DEF SharePvZsetExit
  <2>2. UNCHANGED <<share_file_list, zset>> /\ Ranked' = Ranked
    BY <1>3 DEF SharePvZsetExit, storeVars, mysqlVars, redisVars, Ranked, Files
  <2>3. /\ dealshare'.pc \in {"pv: zincrby", "pv: zadd", "reply"}
        /\ dealshare'.file = g /\ dealshare'.count = n
    BY <1>3 DEF SharePvZsetExit, DealShareGoes, DealShareReplies,
      DealShareTypeOK
  <2>4. QED
    BY <1>0, <1>0a, <2>1, <2>2, <2>3 DEF ScoreInv, ScoreBelow, PvIs
<1>4. CASE SharePvZincrby
  <2>1. dealshare.pc = "pv: zincrby" /\ Zincrby(g) /\ dealshare'.pc = "reply"
    BY <1>4 DEF SharePvZincrby, DealShareReplies, DealShareTypeOK
  <2>2. PvIs(g, n + 1) /\ g \in Files /\ n \in Nat
    BY <1>0, <2>1 DEF ScoreInv, DealShareLocals
  <2>3. Ranked' = Ranked \cup {g} /\ share_file_list' = share_file_list
    BY <2>1, <2>2, ZincrbyRanks
  <2>4. zset'[g] <= n + 1
    <3>1. zset'[g] = IF zset[g] = None THEN 1 ELSE zset[g] + 1
      BY <2>1, <2>2 DEF Zincrby, SetZset, StoreTypeOK
    <3>2. g \in Ranked => zset[g] <= n
      BY <2>1 DEF ScoreInv
    <3>3. zset[g] # None => zset[g] \in Nat /\ zset[g] <= n
      BY <2>2, <3>2 DEF Ranked, StoreTypeOK
    <3>4. QED
      BY <2>2, <3>1, <3>3
  <2>5. ASSUME NEW f \in Ranked' PROVE ScoreBelow(f)'
    <3>1. f \in Files
      BY <2>2, <2>3, <2>5 DEF Ranked
    <3>2. CASE f = g
      BY <2>2, <2>3, <2>4, <3>2 DEF ScoreBelow, PvIs
    <3>3. CASE f # g
      <4>1. zset'[f] = zset[f]
        BY <2>1, <3>1, <3>3 DEF Zincrby, SetZset, StoreTypeOK
      <4>2. QED
        BY <1>0a, <2>3, <2>5, <3>3, <4>1 DEF ScoreBelow
    <3>4. QED
      BY <3>2, <3>3
  <2>6. QED
    BY <1>0, <2>1, <2>5 DEF ScoreInv
<1>5. CASE SharePvZadd
  <2>1. /\ dealshare.pc = "pv: zadd" /\ Zadd(g, n + 1)
        /\ dealshare'.pc = "pv: hset"
    BY <1>5 DEF SharePvZadd, DealShareGoes, DealShareTypeOK
  <2>2. PvIs(g, n + 1) /\ g \in Files /\ n \in Nat
    BY <1>0, <2>1 DEF ScoreInv, DealShareLocals
  <2>3. Ranked' = Ranked \cup {g} /\ share_file_list' = share_file_list
    <3>1. PICK m : m = n + 1 /\ Zadd(g, m)
      BY <2>1
    <3>2. m \in Int
      BY <2>2, <3>1
    <3>3. QED
      BY <2>2, <3>1, <3>2, ZaddRanks
  <2>4. ASSUME NEW f \in Ranked' PROVE ScoreBelow(f)'
    <3>1. f \in Files
      BY <2>2, <2>3, <2>4 DEF Ranked
    <3>2. CASE f = g
      <4>1. zset'[f] = n + 1
        BY <2>1, <3>1, <3>2 DEF Zadd, SetZset, StoreTypeOK
      <4>2. QED
        BY <2>2, <2>3, <3>2, <4>1 DEF ScoreBelow, PvIs
    <3>3. CASE f # g
      <4>1. zset'[f] = zset[f]
        BY <2>1, <3>1, <3>3 DEF Zadd, SetZset, StoreTypeOK
      <4>2. QED
        BY <1>0a, <2>3, <2>4, <3>3, <4>1 DEF ScoreBelow
    <3>4. QED
      BY <3>2, <3>3
  <2>5. QED
    BY <1>0, <2>1, <2>4 DEF ScoreInv
<1>6. CASE CancelDeleteShare
  <2>1. DeleteShare(dealshare.user, g) /\ dealshare'.pc = "cancel: zrem"
    BY <1>6 DEF CancelDeleteShare, DealShareGoes, DealShareTypeOK
  <2>2. zset' = zset /\ Ranked' = Ranked
    BY <2>1 DEF DeleteShare, SetShares, redisVars, Ranked, Files
  <2>3. ASSUME NEW f \in Ranked PROVE ScoreBelow(f)'
    <3>1. ScoreBelow(f) /\ f \in Files
      BY <1>0a DEF Ranked
    <3>2. QED
      BY <2>1, <2>2, <3>1, DeletedShareRows DEF ScoreBelow
  <2>4. QED
    BY <1>0, <2>1, <2>2, <2>3 DEF ScoreInv
<1>7. CASE CancelZrem
  <2>1. dealshare.pc = "cancel: zrem" /\ Zrem(g)
          /\ dealshare'.pc \in {"reply", "cancel: hdel"}
    BY <1>7 DEF CancelZrem, DealShareGoes, DealShareReplies, DealShareTypeOK
  <2>2. Ranked' = Ranked \ {g} /\ share_file_list' = share_file_list
    BY <1>0, <2>1, ZremRanks
  <2>3. \A f \in Ranked' : zset'[f] = zset[f]
    BY <2>1, <2>2 DEF Zrem, SetZset, Ranked, StoreTypeOK
  <2>4. QED
    BY <1>0, <1>0a, <2>1, <2>2, <2>3 DEF ScoreInv, ScoreBelow
<1>8. CASE /\ UNCHANGED <<share_file_list, zset>>
           /\ dealshare'.pc \notin {"pv: write", "pv: zset_exit",
                                    "pv: zincrby", "pv: zadd"}
  <2>1. Ranked' = Ranked
    BY <1>8 DEF Ranked, Files
  <2>2. QED
    BY <1>0, <1>0a, <1>8, <2>1 DEF ScoreInv, ScoreBelow
<1>9. QED
  BY <1>1, <1>2, <1>3, <1>4, <1>5, <1>6, <1>7, <1>8, DealShareScoreFrame
     DEF DealShareAlone

(* Steps that write neither the shares nor the scores nor the total and    *)
(* begin none of the statements above                                      *)
LEMMA ScoreSame ==
  ASSUME ScoreInv, UNCHANGED <<share_file_list, zset>>,
         dealfile.pc \notin {"share: select total", "share: write total",
                             "share: zadd"},
         dealfile'.pc # "share: write total",
         dealshare'.pc \notin {"pv: write", "pv: zset_exit", "pv: zincrby",
                               "pv: zadd"},
         listing'.pc \notin {"rank: zadd", "rank: hset"}
  PROVE  ScoreInv'
<1>1. Ranked' = Ranked
  BY DEF Ranked, Files
<1>2. QED
  BY <1>1 DEF ScoreInv, ScoreLate, ScoreBelow

LEMMA ListingKeepsScores ==
  ASSUME Typed, SharesInv, misread = {}, ScoreInv, ListingAlone
  PROVE  ScoreInv'
<1> USE DEF Typed, TypeOK
<1>0. /\ UNCHANGED <<dealfile, dealshare>>
      /\ dealfile.pc = "idle" /\ dealshare.pc \in {"idle", "dead"}
      /\ share_file_list' = share_file_list
  BY ListingKeepsTables
     DEF ListingAlone, DealRests, DealShareRests, mysqlVars
<1>0a. SharedRows' = SharedRows /\ \A f \in Ranked : ScoreBelow(f)
  <2>1. SharedRows' = SharedRows
    BY <1>0 DEF SharedRows, Files
  <2>2. QED
    BY <1>0, <2>1 DEF ScoreInv, ScoreLate
<1>1. CASE RankDelZset
  <2>1. listing'.pc = "rank: del hash"
    BY <1>1 DEF RankDelZset, ListingGoes, ListingTypeOK, ListingStates
  <2>2. Ranked' = {}
    BY <1>1, DelZsetRanks DEF RankDelZset
  <2>3. QED
    BY <1>0, <2>1, <2>2 DEF ScoreInv
<1>2. CASE RankSelectShares
  <2>1. UNCHANGED zset
    BY <1>2 DEF RankSelectShares, storeVars, redisVars
  <2>2. CASE listing.mysql /\ SharedRows # {}
    <3>1. listing' = [listing EXCEPT !.pc = "rank: zadd", !.rows = SharedRows]
      BY <1>2, <2>2 DEF RankSelectShares
    <3>2. listing'.rows = SharedRows
      BY <3>1 DEF ListingTypeOK, ListingStates
    <3>3. Ranked' = Ranked
      BY <2>1 DEF Ranked, Files
    <3>4. QED
      BY <1>0, <1>0a, <2>1, <3>2, <3>3 DEF ScoreInv, ScoreBelow
  <2>3. CASE ~(listing.mysql /\ SharedRows # {})
    <3>1. listing'.pc = "reply"
      BY <1>2, <2>3 DEF RankSelectShares, ListingReplies, ListingTypeOK,
        ListingStates
    <3>2. QED
      BY <1>0, <2>1, <3>1, ScoreSame
  <2>4. QED
    BY <2>2, <2>3
<1>3. CASE RankZadd
  <2>1. PICK row \in listing.rows :
          /\ Zadd(row.file, row.pv)
          /\ listing' = [listing EXCEPT !.pc = "rank: hset", !.row = row.file,
                                        !.rows = @ \ {row}]
    BY <1>3 DEF RankZadd
  <2>2. listing.pc = "rank: zadd" /\ listing'.rows = listing.rows \ {row}
    BY <1>3, <2>1 DEF RankZadd, ListingTypeOK, ListingStates
  <2>3. listing.rows \subseteq SharedRows
    BY <2>2 DEF ScoreInv
  <2>4. row.file \in Files /\ row.pv \in Nat /\ PvIs(row.file, row.pv)
    BY <2>3, SharedRowPv DEF SharesInv
  <2>5. Ranked' = Ranked \cup {row.file}
    BY <2>1, <2>4, ZaddRanks
  <2>6. ASSUME NEW f \in Ranked' PROVE ScoreBelow(f)'
    <3>1. f \in Files
      BY <2>4, <2>5, <2>6 DEF Ranked
    <3>2. CASE f = row.file
      <4>1. zset'[f] = row.pv
        BY <2>1, <3>1, <3>2 DEF Zadd, SetZset, StoreTypeOK
      <4>2. QED
        BY <1>0, <2>4, <3>2, <4>1 DEF ScoreBelow, PvIs
    <3>3. CASE f # row.file
      <4>1. zset'[f] = zset[f]
        BY <2>1, <3>1, <3>3 DEF Zadd, SetZset, StoreTypeOK
      <4>2. QED
        BY <1>0, <1>0a, <2>5, <2>6, <3>3, <4>1 DEF ScoreBelow
    <3>4. QED
      BY <3>2, <3>3
  <2>7. QED
    BY <1>0, <1>0a, <2>2, <2>3, <2>6 DEF ScoreInv
<1>4. CASE RankHset
  <2>1. UNCHANGED <<share_file_list, zset>> /\ Ranked' = Ranked
    BY <1>0, <1>4 DEF RankHset, Hset, SetHash, Ranked, Files
  <2>2. listing.pc = "rank: hset" /\ listing'.rows = listing.rows
    BY <1>4 DEF RankHset, ListingGoes, ListingTypeOK, ListingStates
  <2>3. QED
    BY <1>0, <1>0a, <2>1, <2>2 DEF ScoreInv, ScoreBelow
<1>5. CASE RankDelHash
  <2>1. UNCHANGED zset /\ listing'.pc = "rank: select shares"
    BY <1>5 DEF RankDelHash, DelHash, SetHash, ListingGoes, ListingTypeOK,
      ListingStates
  <2>2. QED
    BY <1>0, <2>1, ScoreSame
<1>6. CASE /\ UNCHANGED zset
           /\ listing'.pc \notin {"rank: zadd", "rank: hset"}
  BY <1>0, <1>6, ScoreSame
<1>7. CASE ~RankSelectShares /\ ~RankDelZset /\ ~RankDelHash /\ ~RankZadd
             /\ ~RankHset
  <2> USE DEF ListingTypeOK, ListingStates, ListingGoes, ListingReplies,
    storeVars, redisVars
  <2>1. CASE CountSelect \/ NormalSelect
    BY <1>6, <2>1 DEF CountSelect, NormalSelect
  <2>2. CASE RankSelectTotal \/ RankZcard
    BY <1>6, <2>2 DEF RankSelectTotal, RankZcard
  <2>3. CASE RankZrevrange \/ RankHget \/ RankZscore
    BY <1>6, <2>3 DEF RankZrevrange, RankHget, RankZscore
  <2>4. CASE ListingReply
    <3>1. ListingIdle.pc = "idle"
      BY DEF ListingIdle
    <3>2. QED
      BY <1>6, <2>4, <3>1 DEF ListingReply
  <2>5. QED
    BY <1>7, <2>1, <2>2, <2>3, <2>4 DEF ListingAlone, ListingStep, RankStep
<1>8. QED
  BY <1>1, <1>2, <1>3, <1>4, <1>5, <1>7

LEMMA ScoreInductive ==
  ASSUME OneAtATime, Typed, AloneInv, SharesInv, ScoreInv,
         [PagesNext]_pagesVars
  PROVE  ScoreInv'
<1>1. CASE Still
  <2>1. UNCHANGED <<share_file_list, user_file_count, zset, dealfile,
                    dealshare, listing>>
    BY <1>1 DEF Still, storeVars, mysqlVars, redisVars, programVars
  <2>2. Ranked' = Ranked /\ SharedRows' = SharedRows
    BY <2>1 DEF Ranked, SharedRows, Files
  <2>3. QED
    BY <2>1, <2>2 DEF ScoreInv, ScoreBelow, ScoreLate, PvIs, IsShared
<1>2. CASE AskAlone
  <2>1. UNCHANGED <<share_file_list, zset>>
    BY <1>2 DEF AskAlone, storeVars, mysqlVars, redisVars
  <2>2. /\ dealfile.pc = "idle" /\ dealshare.pc \in {"idle", "dead"}
        /\ listing.pc = "idle"
    BY <1>2 DEF AskAlone, AllRest, DealRests, DealShareRests, ListingRests
  <2>3. QED
    BY <1>2, <2>1, <2>2, AskBegins, ScoreSame
<1>3. CASE UploadAlone \/ InstantAlone
  <2>1. UNCHANGED <<share_file_list, zset, dealfile, dealshare, listing>>
    BY <1>3, UploadKeepsRedis, OthersKeepShares
       DEF UploadAlone, InstantAlone, redisVars
  <2>2. /\ dealfile.pc = "idle" /\ dealshare.pc \in {"idle", "dead"}
        /\ listing.pc = "idle"
    BY <1>3 DEF UploadAlone, InstantAlone, DealRests, DealShareRests,
      ListingRests
  <2>3. QED
    BY <2>1, <2>2, ScoreSame
<1>4. CASE RevivedAlone
  <2>1. UNCHANGED <<share_file_list, zset, dealfile, listing>>
    BY <1>4 DEF RevivedAlone, Revived, storeVars, mysqlVars, redisVars
  <2>2. dealshare'.pc = "idle"
    BY <1>4 DEF RevivedAlone, Revived, DealShareIdle
  <2>3. dealfile.pc = "idle" /\ listing.pc = "idle"
    BY <1>4, NobodyAtWork DEF RevivedAlone, Revived, DealRests, ListingRests
  <2>4. QED
    BY <2>1, <2>2, <2>3, ScoreSame
<1>5. CASE ForgetsAlone
  <2>1. /\ UNCHANGED <<share_file_list, dealfile, dealshare, listing>>
        /\ Ranked' = {}
    BY <1>5 DEF ForgetsAlone, RedisForgets, mysqlVars, programVars, Ranked,
      Files
  <2>2. /\ dealfile.pc = "idle" /\ dealshare.pc \in {"idle", "dead"}
        /\ listing.pc = "idle"
    BY <1>5 DEF ForgetsAlone, AllRest, DealRests, DealShareRests, ListingRests
  <2>3. QED
    BY <2>1, <2>2 DEF ScoreInv
<1>6. QED
  BY <1>1, <1>2, <1>3, <1>4, <1>5, OneMoves, DealKeepsScores,
     DealShareKeepsScores, ListingKeepsScores DEF AloneInv

LEMMA ScoreAtFirst == PagesInit => ScoreInv
<1> SUFFICES ASSUME PagesInit PROVE ScoreInv
  OBVIOUS
<1>1. Ranked = {}
  BY DEF PagesInit, Init, StoreInit, Ranked
<1>2. dealfile.pc = "idle" /\ dealshare.pc = "idle"
  BY IdlePcs DEF PagesInit, Init, DealShareIdle
<1>3. listing.pc = "idle"
  BY DEF PagesInit, Init, ListingIdle
<1>4. QED
  BY <1>1, <1>2, <1>3 DEF ScoreInv

(* One request after the other and no failure: between two requests the    *)
(* score of a ranked file is at most the pv of each of its shares; ZADD    *)
(* sets it from the pv just written (dealsharefile_cgi.c:156), ZINCRBY     *)
(* follows a pv that goes up (:149), and a share begins with the score 0.  *)
THEOREM ScoreStaysWithinPv ==
  ASSUME OneAtATime
  PROVE  PagesSpec => []ScoreWithinPv
<1> DEFINE Inv == PagesInv /\ AloneInv /\ ScoreInv
<1>1. PagesInit => Inv
  BY InitTyped, CountsAtFirst, SharesAtFirst, BlobsAtFirst, AloneAtFirst,
     ScoreAtFirst DEF PagesInit, PagesInv
<1>2. Inv /\ [PagesNext]_pagesVars => Inv'
  BY PagesKeep, AloneKeeps, ScoreInductive DEF PagesInv
<1>3. Inv => ScoreWithinPv
  <2> SUFFICES ASSUME Inv, AllQuiet, NEW f \in Ranked PROVE ScoreBelow(f)
    BY DEF ScoreWithinPv, ScoreBelow
  <2>1. dealfile.pc = "idle"
    BY NobodyAtWork DEF PagesInv, DealRests
  <2>2. QED
    BY <2>1 DEF ScoreInv, ScoreLate
<1> HIDE DEF Inv
<1>4. QED
  BY <1>1, <1>2, <1>3, PTL DEF PagesSpec
=============================================================================
