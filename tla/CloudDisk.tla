------------------------------ MODULE CloudDisk ------------------------------
(***************************************************************************)
(* The five FastCGI programs that write the shared stores, running side by *)
(* side.  spawn-fcgi starts each of them once (fcgi.sh), and each serves   *)
(* one request at a time, so what interleaves is one request of each.      *)
(* Nothing supervises a program: one that dies is gone until fcgi.sh runs. *)
(*                                                                         *)
(* Clients send any request at any time, within what the constants say.    *)
(***************************************************************************)
EXTENDS UploadCgi, Md5Cgi, DealFileCgi, DealShareFileCgi, ShareFilesCgi

CONSTANTS
  Served,       \* the commands that clients send
  MaxRequests,  \* bound: how many requests they send
  MaxFaults,    \* bound: how many calls fail or programs are killed
  MaxBusy,      \* how many programs are at work at once (1: one by one)
  Serialized,   \* TRUE: a user awaits each answer before the next request
  Careful       \* TRUE: users ask only what their lists offer them

Commands == {"upload", "md5", "share", "del", "pv", "shared pv", "cancel",
             "save", "count", "normal", "pvdesc"}

ASSUME BoundsAreNat    == MaxRequests \in Nat /\ MaxFaults \in Nat
                            /\ MaxBusy \in Nat
ASSUME ServedAreKnown  == Served \subseteq Commands
ASSUME FlagsAreBoolean == Serialized \in BOOLEAN /\ Careful \in BOOLEAN

VARIABLES
  accepted,  \* requests so far
  faults     \* failed calls and killed programs so far

programVars == <<upload, instant, dealfile, dealshare, listing>>
boundVars   == <<accepted, faults, misread>>
vars        == <<storeVars, programVars, boundVars>>

Init ==
  /\ StoreInit
  /\ upload    = UploadIdle
  /\ instant   = InstantIdle
  /\ dealfile  = DealIdle
  /\ dealshare = DealShareIdle
  /\ listing   = ListingIdle
  /\ accepted  = 0
  /\ faults    = 0
  /\ misread   = {}

TypeOK ==
  /\ StoreTypeOK
  /\ UploadTypeOK
  /\ InstantTypeOK
  /\ DealTypeOK
  /\ DealShareTypeOK
  /\ ListingTypeOK
  /\ accepted \in Nat
  /\ faults \in Nat
  /\ misread \subseteq Users \cup Files

-----------------------------------------------------------------------------
(* Requests *)

AtWork ==
  {p \in {<<"upload", upload.pc>>, <<"md5", instant.pc>>,
          <<"dealfile", dealfile.pc>>, <<"dealsharefile", dealshare.pc>>,
          <<"sharefiles", listing.pc>>} : p[2] \notin {"idle", "dead"}}

AllQuiet == AtWork = {}

(* No request of u is being served. *)
Unserved(u) ==
  /\ upload.user # u
  /\ instant.user # u
  /\ dealfile.user # u
  /\ dealshare.user = u => dealshare.pc = "dead"

Admits(cmd) ==
  /\ cmd \in Served
  /\ accepted < MaxRequests
  /\ Cardinality(AtWork) < MaxBusy
  /\ accepted' = accepted + 1
  /\ UNCHANGED <<faults, misread>>

Awaited(u) == Serialized => Unserved(u)

AskUpload(u, f) ==
  /\ Admits("upload") /\ Awaited(u)
  /\ Careful => ~Lists(u, f) /\ file_info[f.md5] = <<>>   \* md5: 007
  /\ UploadAccept(u, f)
  /\ UNCHANGED <<instant, dealfile, dealshare, listing>>

AskInstant(u, f) ==
  /\ Admits("md5") /\ Awaited(u)
  /\ Careful => ~Lists(u, f)
  /\ InstantAccept(u, f)
  /\ UNCHANGED <<upload, dealfile, dealshare, listing>>

AskDeal(cmd, u, f) ==
  /\ Admits(cmd) /\ Awaited(u)
  /\ Careful => Lists(u, f)
  /\ DealAccept(cmd, u, f)
  /\ UNCHANGED <<upload, instant, dealshare, listing>>

AskSharePv(u, f) ==
  /\ Admits("shared pv") /\ Awaited(u)
  /\ Careful => IsShared(f)
  /\ DealShareAccept("pv", u, f)
  /\ UNCHANGED <<upload, instant, dealfile, listing>>

AskCancel(u, f) ==
  /\ Admits("cancel") /\ Awaited(u)
  /\ Careful => share_file_list[u][f] # <<>>
  /\ DealShareAccept("cancel", u, f)
  /\ UNCHANGED <<upload, instant, dealfile, listing>>

AskSave(u, f) ==
  /\ Admits("save") /\ Awaited(u)
  /\ Careful => IsShared(f)
  /\ DealShareAccept("save", u, f)
  /\ UNCHANGED <<upload, instant, dealfile, listing>>

AskListing(cmd) ==
  /\ Admits(cmd)
  /\ ListingAccept(cmd)
  /\ UNCHANGED <<upload, instant, dealfile, dealshare>>

Ask ==
  \/ \E u \in Users, f \in Files :
       \/ AskUpload(u, f)
       \/ AskInstant(u, f)
       \/ \E cmd \in {"share", "del", "pv"} : AskDeal(cmd, u, f)
       \/ AskSharePv(u, f)
       \/ AskCancel(u, f)
       \/ AskSave(u, f)
  \/ \E cmd \in {"count", "normal", "pvdesc"} : AskListing(cmd)

-----------------------------------------------------------------------------
(* The programs *)

UploadRuns ==
  UploadStep /\ UNCHANGED <<instant, dealfile, dealshare, listing, boundVars>>
InstantRuns ==
  InstantStep /\ UNCHANGED <<upload, dealfile, dealshare, listing, boundVars>>
DealRuns ==
  DealStep /\ UNCHANGED <<upload, instant, dealshare, listing, boundVars>>
DealShareRuns ==
  DealShareStep /\ UNCHANGED <<upload, instant, dealfile, listing, boundVars>>
ListingRuns ==
  ListingStep /\ UNCHANGED <<upload, instant, dealfile, dealshare, boundVars>>

-----------------------------------------------------------------------------
(* Faults: a call fails and the handler notices; a SELECT alone fails and  *)
(* it does not; or kill -9 (fcgi.sh stops the programs this way) hits a    *)
(* handler between two statements and the program starts afresh.           *)

Faulty == /\ faults < MaxFaults
          /\ faults' = faults + 1
          /\ UNCHANGED accepted

CallFails ==
  /\ Faulty
  /\ UNCHANGED misread
  /\ \/ UploadFails    /\ UNCHANGED <<instant, dealfile, dealshare, listing>>
     \/ InstantFails   /\ UNCHANGED <<upload, dealfile, dealshare, listing>>
     \/ DealFails      /\ UNCHANGED <<upload, instant, dealshare, listing>>
     \/ DealShareFails /\ UNCHANGED <<upload, instant, dealfile, listing>>
     \/ ListingFails   /\ UNCHANGED <<upload, instant, dealfile, dealshare>>

Misreads ==
  /\ Faulty
  /\ \/ UploadMisreads    /\ UNCHANGED <<instant, dealfile, dealshare, listing>>
     \/ InstantMisreads   /\ UNCHANGED <<upload, dealfile, dealshare, listing>>
     \/ DealMisreads      /\ UNCHANGED <<upload, instant, dealshare, listing>>
     \/ DealShareMisreads /\ UNCHANGED <<upload, instant, dealfile, listing>>

Killed ==
  /\ Faulty
  /\ UNCHANGED <<storeVars, misread>>
  /\ \/ /\ upload.pc # "idle" /\ upload' = UploadIdle
        /\ UNCHANGED <<instant, dealfile, dealshare, listing>>
     \/ /\ instant.pc # "idle" /\ instant' = InstantIdle
        /\ UNCHANGED <<upload, dealfile, dealshare, listing>>
     \/ /\ dealfile.pc # "idle" /\ dealfile' = DealIdle
        /\ UNCHANGED <<upload, instant, dealshare, listing>>
     \/ /\ dealshare.pc \notin {"idle", "dead"}
        /\ dealshare' = DealShareIdle
        /\ UNCHANGED <<upload, instant, dealfile, listing>>
     \/ /\ listing.pc # "idle" /\ listing' = ListingIdle
        /\ UNCHANGED <<upload, instant, dealfile, dealshare>>

(* Somebody notices that dealsharefile died and runs fcgi.sh; the other    *)
(* programs have nothing in hand, so that restarting them changes nothing. *)
Revived ==
  /\ dealshare.pc = "dead" /\ AllQuiet
  /\ dealshare' = DealShareIdle
  /\ UNCHANGED <<storeVars, upload, instant, dealfile, listing, boundVars>>

(* The clients have sent all that the bound admits. *)
Done ==
  /\ accepted = MaxRequests /\ AllQuiet
  /\ UNCHANGED vars

-----------------------------------------------------------------------------
Next ==
  \/ Ask
  \/ UploadRuns \/ InstantRuns \/ DealRuns \/ DealShareRuns \/ ListingRuns
  \/ CallFails  \/ Misreads    \/ Killed   \/ Revived  \/ Done

Spec == Init /\ [][Next]_vars

(* Each program is a process of its own that the operating system runs. *)
Fairness ==
  /\ WF_vars(UploadRuns) /\ WF_vars(InstantRuns)   /\ WF_vars(DealRuns)
  /\ WF_vars(ListingRuns) /\ WF_vars(DealShareRuns)

FairSpec == Spec /\ Fairness

-----------------------------------------------------------------------------
(* Safety under every interleaving and with faults *)

(* Every row of file_info names a blob that the storage holds: upload      *)
(* inserts the row only after the blob is stored, and del removes the blob *)
(* only after all rows of the md5 are gone, so no interleaving and no      *)
(* crash leaves a row whose download would fail.                           *)
StoredWhenListed ==
  \A m \in Md5s : \A i \in DOMAIN file_info[m] :
    file_info[m][i].file_id \in storage

(* A user's counter is a positive number or has no row: del deletes the    *)
(* row at 1 and only a read of 2 or more is written back less one, so not  *)
(* even stale reads of racing programs drive it to 0 or below.  Only the   *)
(* users whose own counter a SELECT failed to read without the handler's   *)
(* notice are left out: del then writes -1 (dealfile_cgi.c:369-379).       *)
CountsPositive ==
  \A u \in Users \ misread :
    user_file_count[u] # None => user_file_count[u] >= 1

(* A file is shared by one row at most, whoever shares it, although        *)
(* share_file_list has no unique key and Redis may have lost the file:     *)
(* all shares go through dealfile, which looks in MySQL before it inserts. *)
(* (That look is a SELECT whose failure reads as "not shared": such files  *)
(* are left out, dealfile_cgi.c:166.)                                      *)
OneShareRowPerFile ==
  \A f \in Files \ misread, u, v \in Users :
    /\ Len(share_file_list[u][f]) <= 1
    /\ share_file_list[u][f] # <<>> /\ share_file_list[v][f] # <<>> => u = v

(* The life of each blob, as BlobLife tells it. *)
Listed == UNION {{file_info[m][i].file_id : i \in DOMAIN file_info[m]} :
                 m \in Md5s}

LifeOf(id) ==
  IF id \notin storage   THEN "removed"
  ELSE IF id \in Listed  THEN "listed"
  ELSE IF upload.pc = "insert file_info" /\ upload.id = id THEN "stored"
  ELSE "dropped"

Life == INSTANCE BlobLife WITH life <- [id \in 1..uploaded |-> LifeOf(id)]

(* Every step of the programs, crashes included, is a step in the life of  *)
(* the blobs: none is removed while a row of file_info names it, none is   *)
(* listed twice or again after it was dropped (upload_cgi.c inserts before *)
(* it forgets the id, del_file removes what it unlisted).                  *)
BlobsLiveOnce == Life!LifeSpec

-----------------------------------------------------------------------------
(* Counters beside the rows they count *)

CountOf(c) == IF user_file_count[c] = None THEN 0 ELSE user_file_count[c]

RowsOf(u) ==
  Cardinality(UNION {{f} \X DOMAIN user_file_list[u][f] : f \in Files})

AllShareRows ==
  UNION {{<<u, f>>} \X DOMAIN share_file_list[u][f] :
         u \in Users, f \in Files}

OwnersOf(m) ==
  {u \in Users : \E f \in Files : f.md5 = m /\ Lists(u, f)}

(* When users await their answers, a user's counter and the user's rows    *)
(* differ by no more than the calls that failed and the handlers that were *)
(* killed half way: the three programs that move the two always move them  *)
(* together, also while other users' requests run in between.  Left out    *)
(* are the users whose counter was misread, for it may be anything then;   *)
(* every other SELECT that is misread costs the counters nothing.          *)
DriftWithinFaults ==
  \A u \in Users \ misread :
    Unserved(u) => CountOf(u) - RowsOf(u) \in (0 - faults)..faults

(* user_file_count.count is the number of files the user has, as the table *)
(* comment says (JKYi_CloudDisk.sql:39), when nothing is at work.  *)
CountIsRows ==
  AllQuiet => \A u \in Users : CountOf(u) = RowsOf(u)

(* file_info.count is the number of users who have the content, as the     *)
(* comment at JKYi_CloudDisk.sql:18 says, when nothing is at work.         *)
RefCountIsOwners ==
  AllQuiet => \A m \in Md5s : \A i \in DOMAIN file_info[m] :
                file_info[m][i].count = Cardinality(OwnersOf(m))

(* A file that a user lists still has its content, when nothing is at      *)
(* work: del_file removes it when the count falls to zero (dealfile_cgi.c  *)
(* :411), that is when nobody has it any more.                             *)
ListedIsStored ==
  AllQuiet => \A u \in Users, f \in Files :
                Lists(u, f) => file_info[f.md5] # <<>>

(* The row ShareTotal counts the shared files: get_ranking_filelist reads  *)
(* it for "the number of shared files in mysql" (sharefiles_cgi.c:280) and *)
(* compares it with the number of members in Redis.                        *)
ShareTotalIsRows ==
  AllQuiet => CountOf(ShareTotal) = Cardinality(AllShareRows)

-----------------------------------------------------------------------------
(* One user, one request after the other *)

(* What the storage holds is what the user lists, when nothing is at work: *)
(* del removes the blob with the last row and nothing else removes one.    *)
NoOrphans ==
  AllQuiet =>
    storage = UNION {{file_info[m][i].file_id : i \in DOMAIN file_info[m]} :
                     m \in {n \in Md5s : OwnersOf(n) # {}}}

(* The score in Redis never runs ahead of the pv in MySQL: a share starts  *)
(* both at 0, a download adds one to both, and a reload copies.            *)
ScoreWithinPv ==
  AllQuiet => \A u \in Users, f \in Ranked :
                \A i \in DOMAIN share_file_list[u][f] :
                  zset[f] <= share_file_list[u][f][i]

-----------------------------------------------------------------------------
(* The ranking beside the programs that share, delete and count *)

(* No reload of the ranking loses a file shared meanwhile: it deletes the  *)
(* two keys before it reads MySQL, and share writes MySQL before Redis.    *)
SharedIsRanked ==
  AllQuiet => \A f \in Files : IsShared(f) => f \in Ranked \cap hash

(* Every request is answered, whatever the other programs do meanwhile,    *)
(* unless it kills its program.                                            *)
EveryRequestIsAnswered ==
  /\ upload.pc    # "idle" ~> upload.pc = "idle"
  /\ instant.pc   # "idle" ~> instant.pc = "idle"
  /\ dealfile.pc  # "idle" ~> dealfile.pc = "idle"
  /\ listing.pc   # "idle" ~> listing.pc = "idle"
  /\ dealshare.pc # "idle" ~> dealshare.pc \in {"idle", "dead"}

-----------------------------------------------------------------------------
(* What the programs say of their own answers *)

(* The download of a shared file is answered 016 (dealsharefile_cgi.c:     *)
(* 165-169) when no call fails and nothing else is at work.                *)
SharedPvSucceeds ==
  dealshare.cmd = "pv" /\ dealshare.pc = "reply"
    /\ IsShared(dealshare.file) /\ faults = 0 => dealshare.code = "016"

(* A cancel is answered 018 or 019 (dealsharefile_cgi.c:269-272); it does  *)
(* not end the program.                                                    *)
CancelIsAnswered ==
  ~(dealshare.cmd = "cancel" /\ dealshare.pc = "dead")
=============================================================================
