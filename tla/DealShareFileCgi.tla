--------------------------- MODULE DealShareFileCgi ---------------------------
(***************************************************************************)
(* bin_cgi/dealsharefile, built from src_cgi/dealsharefile_cgi.c: count a  *)
(* download of a shared file, cancel a share, save a shared file to one's  *)
(* own list.  It checks no token.  Two of its sprintf calls print an int   *)
(* with %s: the process dies there.                                        *)
(***************************************************************************)
EXTENDS CloudStore

VARIABLE dealshare   \* the process: its next statement and its locals

DealShareIdle ==
  [pc |-> "idle", cmd |-> "", user |-> None, file |-> None, count |-> None,
   code |-> ""]

SharePvSteps   == {"pv: select", "pv: write", "pv: zset_exit", "pv: zincrby",
                   "pv: zadd", "pv: hset"}
CancelSteps    == {"cancel: mark", "cancel: select total",
                   "cancel: write total", "cancel: delete share",
                   "cancel: zrem", "cancel: hdel"}
SaveSteps      == {"save: select own", "save: select refs",
                   "save: write refs"}
DealShareSteps == SharePvSteps \cup CancelSteps \cup SaveSteps
DealShareRedisSteps == {"pv: zset_exit", "pv: zincrby", "pv: zadd",
                        "pv: hset", "cancel: zrem", "cancel: hdel"}
DealShareCodes == {"016", "017", "018", "019", "021", "022"}

DealShareTypeOK ==
  dealshare \in [pc: DealShareSteps \cup {"idle", "reply", "dead"},
                 cmd: {"", "pv", "cancel", "save"},
                 user: Users \cup {None}, file: Files \cup {None},
                 count: Int \cup {None}, code: DealShareCodes \cup {""}]

DealShareGoes(pc)      == dealshare' = [dealshare EXCEPT !.pc = pc]
DealShareReplies(code) == dealshare' = [dealshare EXCEPT !.pc = "reply",
                                                         !.code = code]
DealShareErrorCode ==
  CASE dealshare.cmd = "pv"     -> "017"
    [] dealshare.cmd = "cancel" -> "019"
    [] OTHER                    -> "022"

DealShareAccept(cmd, u, f) ==
  /\ dealshare.pc = "idle"
  /\ dealshare' = [DealShareIdle EXCEPT
       !.pc = CASE cmd = "pv"     -> "pv: select"
                [] cmd = "cancel" -> "cancel: mark"
                [] cmd = "save"   -> "save: select own",
       !.cmd = cmd, !.user = u, !.file = f]
  /\ UNCHANGED storeVars

DealShareReply ==
  /\ dealshare.pc = "reply"
  /\ dealshare' = DealShareIdle
  /\ UNCHANGED storeVars

-----------------------------------------------------------------------------
(* pv_file *)

SharePvMissing ==
  /\ dealshare.pc = "pv: select"
  /\ ~IsShared(dealshare.file)
  /\ DealShareReplies("017")
  /\ UNCHANGED storeVars

SharePvSelect ==
  /\ dealshare.pc = "pv: select"
  /\ \E u \in Users :
       \E i \in DOMAIN share_file_list[u][dealshare.file] :
         dealshare' = [dealshare EXCEPT !.pc = "pv: write",
                         !.count = share_file_list[u][dealshare.file][i]]
  /\ UNCHANGED storeVars

(* Slip: the number read is written back as it is. *)
SharePvWriteSame ==
  /\ dealshare.pc = "pv: write"
  /\ UpdateSharePv(dealshare.file, dealshare.count)
  /\ DealShareGoes("pv: zset_exit")

SharePvWrite ==
  /\ dealshare.pc = "pv: write"
  /\ UpdateSharePv(dealshare.file, dealshare.count + 1)
  /\ DealShareGoes("pv: zset_exit")

SharePvZsetExit ==
  /\ dealshare.pc = "pv: zset_exit"
  /\ \E answer \in ZsetExit(dealshare.file) :
       IF answer = 1      THEN DealShareGoes("pv: zincrby")
       ELSE IF answer = 0 THEN DealShareGoes("pv: zadd")
       ELSE DealShareReplies("017")
  /\ UNCHANGED storeVars

(* rop_zset_increment takes any reply but "OK" for a failure, and the      *)
(* reply to ZINCRBY is the new score: the download is answered 017.        *)
SharePvZincrby ==
  /\ dealshare.pc = "pv: zincrby"
  /\ Zincrby(dealshare.file)
  /\ DealShareReplies("017")

(* Slip: the name is left out. *)
SharePvZaddOnly ==
  /\ dealshare.pc = "pv: zadd"
  /\ Zadd(dealshare.file, dealshare.count + 1)
  /\ DealShareReplies("016")

SharePvZadd ==
  /\ dealshare.pc = "pv: zadd"
  /\ Zadd(dealshare.file, dealshare.count + 1)
  /\ DealShareGoes("pv: hset")

SharePvHset ==
  /\ dealshare.pc = "pv: hset"
  /\ Hset(dealshare.file)
  /\ DealShareReplies("016")

SharePvStep ==
  \/ SharePvMissing  \/ SharePvSelect  \/ SharePvWrite
  \/ SharePvZsetExit \/ SharePvZincrby \/ SharePvZadd \/ SharePvHset

-----------------------------------------------------------------------------
(* cancel_share_file *)

CancelMark ==
  /\ dealshare.pc = "cancel: mark"
  /\ UpdateShared(dealshare.user, dealshare.file, 0)
  /\ DealShareGoes("cancel: select total")

CancelSelectTotal ==
  /\ dealshare.pc = "cancel: select total"
  /\ IF user_file_count[ShareTotal] = None
     THEN DealShareReplies("019")
     ELSE dealshare' = [dealshare EXCEPT !.pc = "cancel: write total",
                                         !.count = user_file_count[ShareTotal]]
  /\ UNCHANGED storeVars

(* Slip: the row goes whatever it counts. *)
CancelDeleteTotalAny ==
  /\ dealshare.pc = "cancel: write total"
  /\ DeleteCount(ShareTotal)
  /\ DealShareGoes("cancel: delete share")

CancelDeleteTotal ==
  /\ dealshare.pc = "cancel: write total"
  /\ dealshare.count = 1
  /\ DeleteCount(ShareTotal)
  /\ DealShareGoes("cancel: delete share")

(* sprintf("... count = %s ...", count - 1) with count - 1 # 0 *)
CancelCrashes ==
  /\ dealshare.pc = "cancel: write total"
  /\ dealshare.count # 1
  /\ DealShareGoes("dead")
  /\ UNCHANGED storeVars

CancelDeleteShare ==
  /\ dealshare.pc = "cancel: delete share"
  /\ DeleteShare(dealshare.user, dealshare.file)
  /\ DealShareGoes("cancel: zrem")

CancelZrem ==
  /\ dealshare.pc = "cancel: zrem"
  /\ Zrem(dealshare.file)
  /\ IF zset[dealshare.file] = None
     THEN DealShareReplies("019")
     ELSE DealShareGoes("cancel: hdel")

CancelHdel ==
  /\ dealshare.pc = "cancel: hdel"
  /\ Hdel(dealshare.file)
  /\ DealShareReplies(IF dealshare.file \in hash THEN "018" ELSE "019")

(* As in del_file, a name that Redis does not have may end the program. *)
CancelHdelDies ==
  /\ dealshare.pc = "cancel: hdel"
  /\ dealshare.file \notin hash
  /\ DealShareGoes("dead")
  /\ UNCHANGED storeVars

CancelStep ==
  \/ CancelMark        \/ CancelSelectTotal \/ CancelDeleteTotal
  \/ CancelCrashes     \/ CancelDeleteShare \/ CancelZrem \/ CancelHdel
  \/ CancelHdelDies

-----------------------------------------------------------------------------
(* save_file *)

SaveSelectOwn ==
  /\ dealshare.pc = "save: select own"
  /\ IF Lists(dealshare.user, dealshare.file)
     THEN DealShareReplies("021")
     ELSE DealShareGoes("save: select refs")
  /\ UNCHANGED storeVars

SaveUnknown ==
  /\ dealshare.pc = "save: select refs"
  /\ file_info[dealshare.file.md5] = <<>>
  /\ DealShareReplies("022")
  /\ UNCHANGED storeVars

SaveSelectRefs ==
  /\ dealshare.pc = "save: select refs"
  /\ \E i \in DOMAIN file_info[dealshare.file.md5] :
       dealshare' = [dealshare EXCEPT !.pc = "save: write refs",
                       !.count = file_info[dealshare.file.md5][i].count]
  /\ UNCHANGED storeVars

(* sprintf("udapte file_info set count = '%s' ...", count + 1): a crash,   *)
(* unless count + 1 is 0, the null pointer, which prints as "(null)"; then *)
(* MySQL refuses the misspelt statement.  What follows is never reached.   *)
SaveWriteRefs ==
  /\ dealshare.pc = "save: write refs"
  /\ IF dealshare.count = -1
     THEN DealShareReplies("022")
     ELSE DealShareGoes("dead")
  /\ UNCHANGED storeVars

SaveStep == SaveSelectOwn \/ SaveUnknown \/ SaveSelectRefs \/ SaveWriteRefs

-----------------------------------------------------------------------------
DealShareStep == SharePvStep \/ CancelStep \/ SaveStep \/ DealShareReply

(* A SELECT alone fails: a number is taken for 0, and save_file takes the  *)
(* user for one who has no such file.  Then both cancel and save print an  *)
(* int with %s, that is, die.                                              *)
DealShareMisreads ==
  /\ \/ /\ dealshare.pc = "pv: select"
        /\ dealshare' = [dealshare EXCEPT !.pc = "pv: write", !.count = 0]
     \/ /\ dealshare.pc = "cancel: select total"
        /\ dealshare' = [dealshare EXCEPT !.pc = "cancel: write total",
                                          !.count = 0]
     \/ /\ dealshare.pc = "save: select own"
        /\ DealShareGoes("save: select refs")
     \/ /\ dealshare.pc = "save: select refs"
        /\ dealshare' = [dealshare EXCEPT !.pc = "save: write refs",
                                          !.count = 0]
  /\ UNCHANGED <<storeVars, misread>>

(* A connection cannot be made or is lost, a statement that writes fails:  *)
(* the rest is skipped.  (Redis lost between two commands is a crash.)     *)
DealShareFails ==
  /\ dealshare.pc \in DealShareSteps \ DealShareRedisSteps
  /\ DealShareReplies(DealShareErrorCode)
  /\ UNCHANGED storeVars
=============================================================================
