----------------------------- MODULE DealFileCgi -----------------------------
(***************************************************************************)
(* bin_cgi/dealfile, built from src_cgi/dealfile_cgi.c: share a file,      *)
(* delete a file, count a download of one's own file.  None of the three   *)
(* looks whether the user has the file.                                    *)
(***************************************************************************)
EXTENDS CloudStore

VARIABLE dealfile   \* the process: its next statement and its locals

DealIdle ==
  [pc |-> "idle", cmd |-> "", user |-> None, file |-> None, flag |-> FALSE,
   count |-> None, id |-> 0, code |-> ""]

ShareSteps == {"share: zset_exit", "share: select", "share: zadd again",
               "share: mark", "share: insert", "share: select total",
               "share: write total", "share: zadd", "share: hset"}
DelSteps   == {"del: zset_exit", "del: select status", "del: delete share",
               "del: select total", "del: write total", "del: zrem",
               "del: hdel", "del: select count", "del: write count",
               "del: delete user file", "del: select refs", "del: write refs",
               "del: select file_id", "del: delete file_info",
               "del: remove blob"}
PvSteps    == {"pv: select", "pv: write"}
DealSteps  == ShareSteps \cup DelSteps \cup PvSteps
DealRedisSteps == {"share: zadd again", "share: zadd", "share: hset",
                   "del: zrem", "del: hdel"}
DealCodes  == {"010", "011", "012", "013", "014", "016", "017"}

DealTypeOK ==
  dealfile \in [pc: DealSteps \cup {"idle", "reply"},
                cmd: {"", "share", "del", "pv"},
                user: Users \cup {None}, file: Files \cup {None},
                flag: BOOLEAN, count: Int \cup {None}, id: Nat,
                code: DealCodes \cup {""}]

DealGoes(pc)      == dealfile' = [dealfile EXCEPT !.pc = pc]
DealReplies(code) == dealfile' = [dealfile EXCEPT !.pc = "reply",
                                                  !.code = code]
DealErrorCode ==
  CASE dealfile.cmd = "share" -> "011"
    [] dealfile.cmd = "del"   -> "014"
    [] OTHER                  -> "017"

(* A request whose token verify_token accepts.  The files are what the     *)
(* body names; main dispatches on the cmd of the query string.             *)
DealAccept(cmd, u, f) ==
  /\ dealfile.pc = "idle"
  /\ dealfile' = [DealIdle EXCEPT
       !.pc = CASE cmd = "share" -> "share: zset_exit"
                [] cmd = "del"   -> "del: zset_exit"
                [] cmd = "pv"    -> "pv: select",
       !.cmd = cmd, !.user = u, !.file = f]
  /\ UNCHANGED storeVars

DealReply ==
  /\ dealfile.pc = "reply"
  /\ dealfile' = DealIdle
  /\ UNCHANGED storeVars

-----------------------------------------------------------------------------
(* share_file *)

(* A member is shared already and so an error, 011; an answer that is      *)
(* neither 0 nor 1 is an error as well; on 0 MySQL has the last word.      *)
ShareZsetExit ==
  /\ dealfile.pc = "share: zset_exit"
  /\ \E answer \in ZsetExit(dealfile.file) :
       IF answer = 0 THEN DealGoes("share: select") ELSE DealReplies("011")
  /\ UNCHANGED storeVars

(* Slip: an answer 0 of Redis is believed, MySQL is not asked. *)
ShareSelectNot ==
  /\ dealfile.pc = "share: select"
  /\ DealGoes("share: mark")
  /\ UNCHANGED storeVars

ShareSelect ==
  /\ dealfile.pc = "share: select"
  /\ DealGoes(IF IsShared(dealfile.file) THEN "share: zadd again"
                                         ELSE "share: mark")
  /\ UNCHANGED storeVars

(* Somebody shares it, Redis forgot: only the set member is put back. *)
ShareZaddAgain ==
  /\ dealfile.pc = "share: zadd again"
  /\ Zadd(dealfile.file, 0)
  /\ DealReplies("012")

ShareMark ==
  /\ dealfile.pc = "share: mark"
  /\ UpdateShared(dealfile.user, dealfile.file, 1)
  /\ DealGoes("share: insert")

ShareInsert ==
  /\ dealfile.pc = "share: insert"
  /\ InsertShare(dealfile.user, dealfile.file)
  /\ DealGoes("share: select total")

ShareSelectTotal ==
  /\ dealfile.pc = "share: select total"
  /\ dealfile' = [dealfile EXCEPT !.pc = "share: write total",
                                  !.count = user_file_count[ShareTotal]]
  /\ UNCHANGED storeVars

ShareWriteTotal ==
  /\ dealfile.pc = "share: write total"
  /\ IncrementCount(ShareTotal, dealfile.count)
  /\ IF IncrementFails(ShareTotal, dealfile.count)
     THEN DealReplies("011")
     ELSE DealGoes("share: zadd")

ShareZadd ==
  /\ dealfile.pc = "share: zadd"
  /\ Zadd(dealfile.file, 0)
  /\ DealGoes("share: hset")

ShareHset ==
  /\ dealfile.pc = "share: hset"
  /\ Hset(dealfile.file)
  /\ DealReplies("010")

ShareStep ==
  \/ ShareZsetExit \/ ShareSelect      \/ ShareZaddAgain  \/ ShareMark
  \/ ShareInsert   \/ ShareSelectTotal \/ ShareWriteTotal \/ ShareZadd
  \/ ShareHset

-----------------------------------------------------------------------------
(* del_file *)

(* A member counts as shared, whoever shared it; otherwise the user's own  *)
(* row tells, and flag says whether Redis has to be cleaned up.            *)
DelZsetExit ==
  /\ dealfile.pc = "del: zset_exit"
  /\ \E answer \in ZsetExit(dealfile.file) :
       IF answer = 1
       THEN dealfile' = [dealfile EXCEPT !.pc = "del: delete share",
                                         !.flag = TRUE]
       ELSE IF answer = 0 THEN DealGoes("del: select status")
       ELSE DealReplies("014")
  /\ UNCHANGED storeVars

(* No row at all leaves the local share at 0. *)
DelNoStatus ==
  /\ dealfile.pc = "del: select status"
  /\ ~Lists(dealfile.user, dealfile.file)
  /\ DealGoes("del: select count")
  /\ UNCHANGED storeVars

(* Slip: only what Redis knows counts as shared. *)
DelSelectStatusNot ==
  /\ dealfile.pc = "del: select status"
  /\ Lists(dealfile.user, dealfile.file)
  /\ DealGoes("del: select count")
  /\ UNCHANGED storeVars

DelSelectStatus ==
  /\ dealfile.pc = "del: select status"
  /\ \E i \in DOMAIN user_file_list[dealfile.user][dealfile.file] :
       LET share == user_file_list[dealfile.user][dealfile.file][i].shared
       IN dealfile' = [dealfile EXCEPT !.count = share,
            !.pc = IF share = 1 THEN "del: delete share"
                                ELSE "del: select count"]
  /\ UNCHANGED storeVars

DelDeleteShare ==
  /\ dealfile.pc = "del: delete share"
  /\ DeleteShare(dealfile.user, dealfile.file)
  /\ DealGoes("del: select total")

DelSelectTotal ==
  /\ dealfile.pc = "del: select total"
  /\ IF user_file_count[ShareTotal] = None
     THEN DealReplies("014")
     ELSE dealfile' = [dealfile EXCEPT !.pc = "del: write total",
                                       !.count = user_file_count[ShareTotal]]
  /\ UNCHANGED storeVars

(* Slip: the number read is written back as it is. *)
DelWriteTotalSame ==
  /\ dealfile.pc = "del: write total"
  /\ UpdateCount(ShareTotal, dealfile.count)
  /\ DealGoes(IF dealfile.flag THEN "del: zrem" ELSE "del: select count")

DelWriteTotal ==
  /\ dealfile.pc = "del: write total"
  /\ UpdateCount(ShareTotal, dealfile.count - 1)
  /\ DealGoes(IF dealfile.flag THEN "del: zrem" ELSE "del: select count")

DelZrem ==
  /\ dealfile.pc = "del: zrem"
  /\ Zrem(dealfile.file)
  /\ DealGoes("del: hdel")

DelHdel ==
  /\ dealfile.pc = "del: hdel"
  /\ Hdel(dealfile.file)
  /\ DealGoes("del: select count")

(* There was no name: rop_hash_del logs that with an argument too few for  *)
(* its format, which may end the program.  (fcgi.sh starts it afresh.)     *)
DelHdelDies ==
  /\ dealfile.pc = "del: hdel"
  /\ dealfile.file \notin hash
  /\ dealfile' = DealIdle
  /\ UNCHANGED storeVars

DelSelectCount ==
  /\ dealfile.pc = "del: select count"
  /\ IF user_file_count[dealfile.user] = None
     THEN DealReplies("014")
     ELSE dealfile' = [dealfile EXCEPT !.pc = "del: write count",
                         !.count = user_file_count[dealfile.user]]
  /\ UNCHANGED storeVars

(* Slip: the last file leaves a row with 0. *)
DelWriteCountZero ==
  /\ dealfile.pc = "del: write count"
  /\ UpdateCount(dealfile.user, dealfile.count - 1)
  /\ DealGoes("del: delete user file")

DelWriteCount ==
  /\ dealfile.pc = "del: write count"
  /\ IF dealfile.count = 1
     THEN DeleteCount(dealfile.user)
     ELSE UpdateCount(dealfile.user, dealfile.count - 1)
  /\ DealGoes("del: delete user file")

DelDeleteUserFile ==
  /\ dealfile.pc = "del: delete user file"
  /\ DeleteUserFile(dealfile.user, dealfile.file)
  /\ DealGoes("del: select refs")

DelNoRefs ==
  /\ dealfile.pc = "del: select refs"
  /\ file_info[dealfile.file.md5] = <<>>
  /\ DealReplies("014")
  /\ UNCHANGED storeVars

(* count-- follows at once: the local holds the number read, less one. *)
DelSelectRefs ==
  /\ dealfile.pc = "del: select refs"
  /\ \E i \in DOMAIN file_info[dealfile.file.md5] :
       dealfile' = [dealfile EXCEPT !.pc = "del: write refs",
                      !.count = file_info[dealfile.file.md5][i].count - 1]
  /\ UNCHANGED storeVars

(* Slip: the test looks at the number that was written. *)
DelWriteRefsLate ==
  /\ dealfile.pc = "del: write refs"
  /\ UpdateFileInfo(dealfile.file.md5, dealfile.count - 1)
  /\ IF dealfile.count - 1 = 0
     THEN DealGoes("del: select file_id")
     ELSE DealReplies("013")

(* The statement takes a second one off. *)
DelWriteRefs ==
  /\ dealfile.pc = "del: write refs"
  /\ UpdateFileInfo(dealfile.file.md5, dealfile.count - 1)
  /\ IF dealfile.count = 0
     THEN DealGoes("del: select file_id")
     ELSE DealReplies("013")

(* Slip: the blob is removed before its rows. *)
DelSelectFileIdEarly ==
  /\ dealfile.pc = "del: select file_id"
  /\ \E i \in DOMAIN file_info[dealfile.file.md5] :
       /\ RemoveBlob(file_info[dealfile.file.md5][i].file_id)
       /\ dealfile' = [dealfile EXCEPT !.pc = "del: delete file_info",
                         !.id = file_info[dealfile.file.md5][i].file_id]

(* No other process deletes from file_info: the rows are gone only when    *)
(* the number of owners was misread and they never were there.             *)
DelNoFileId ==
  /\ dealfile.pc = "del: select file_id"
  /\ file_info[dealfile.file.md5] = <<>>
  /\ DealReplies("014")
  /\ UNCHANGED storeVars

DelSelectFileId ==
  /\ dealfile.pc = "del: select file_id"
  /\ \E i \in DOMAIN file_info[dealfile.file.md5] :
       dealfile' = [dealfile EXCEPT !.pc = "del: delete file_info",
                      !.id = file_info[dealfile.file.md5][i].file_id]
  /\ UNCHANGED storeVars

DelDeleteFileInfo ==
  /\ dealfile.pc = "del: delete file_info"
  /\ DeleteFileInfo(dealfile.file.md5)
  /\ DealGoes("del: remove blob")

DelRemoveBlob ==
  /\ dealfile.pc = "del: remove blob"
  /\ dealfile.id # 0
  /\ RemoveBlob(dealfile.id)
  /\ DealReplies("013")

(* The id was misread: fdfs_delete_file knows no blob of that name. *)
DelRemoveNothing ==
  /\ dealfile.pc = "del: remove blob"
  /\ dealfile.id = 0
  /\ DealReplies("014")
  /\ UNCHANGED storeVars

DelStep ==
  \/ DelZsetExit     \/ DelNoStatus    \/ DelSelectStatus   \/ DelDeleteShare
  \/ DelSelectTotal  \/ DelWriteTotal  \/ DelZrem           \/ DelHdel
  \/ DelSelectCount  \/ DelWriteCount  \/ DelDeleteUserFile \/ DelNoRefs
  \/ DelSelectRefs   \/ DelWriteRefs   \/ DelNoFileId       \/ DelSelectFileId
  \/ DelHdelDies     \/ DelDeleteFileInfo
  \/ DelRemoveBlob   \/ DelRemoveNothing

-----------------------------------------------------------------------------
(* pv_file: a download of one's own file *)

PvMissing ==
  /\ dealfile.pc = "pv: select"
  /\ ~Lists(dealfile.user, dealfile.file)
  /\ DealReplies("017")
  /\ UNCHANGED storeVars

PvSelect ==
  /\ dealfile.pc = "pv: select"
  /\ \E i \in DOMAIN user_file_list[dealfile.user][dealfile.file] :
       dealfile' = [dealfile EXCEPT !.pc = "pv: write",
         !.count = user_file_list[dealfile.user][dealfile.file][i].pv]
  /\ UNCHANGED storeVars

PvWrite ==
  /\ dealfile.pc = "pv: write"
  /\ UpdateUserPv(dealfile.user, dealfile.file, dealfile.count + 1)
  /\ DealReplies("016")

PvStep == PvMissing \/ PvSelect \/ PvWrite

-----------------------------------------------------------------------------
DealStep == ShareStep \/ DelStep \/ PvStep \/ DealReply

(* A SELECT alone fails.  share_file takes the file for one that nobody    *)
(* shares (a question without a buffer), then the total for 0, or (no      *)
(* result set) leaves it alone.                                            *)
ShareMisreads ==
  \/ /\ dealfile.pc = "share: select"
     /\ DealGoes("share: mark")
     /\ Missed(dealfile.file)
  \/ /\ dealfile.pc = "share: select total"
     /\ \/ dealfile' = [dealfile EXCEPT !.pc = "share: write total",
                                        !.count = 0]
        \/ DealGoes("share: zadd")
     /\ UNCHANGED misread

(* del_file goes on with what the SELECT before left in the one buffer. *)
DelMisreads ==
  \/ /\ dealfile.pc = "del: select status"
     /\ DealGoes("del: select count")
     /\ UNCHANGED misread
  \/ /\ dealfile.pc = "del: select total"
     /\ dealfile' = [dealfile EXCEPT !.pc = "del: write total",
                                     !.count = Atoi(@)]
     /\ UNCHANGED misread
  \/ /\ dealfile.pc = "del: select count"
     /\ dealfile' = [dealfile EXCEPT !.pc = "del: write count",
                                     !.count = Atoi(@)]
     /\ Missed(dealfile.user)
  \/ /\ dealfile.pc = "del: select refs"
     /\ dealfile' = [dealfile EXCEPT !.pc = "del: write refs",
                                     !.count = Atoi(@) - 1]
     /\ UNCHANGED misread
  \/ /\ dealfile.pc = "del: select file_id"   \* the count is no id: 0
     /\ dealfile' = [dealfile EXCEPT !.pc = "del: delete file_info", !.id = 0]
     /\ UNCHANGED misread

PvMisreads ==
  /\ dealfile.pc = "pv: select"
  /\ dealfile' = [dealfile EXCEPT !.pc = "pv: write", !.count = 0]
  /\ UNCHANGED misread

DealMisreads ==
  /\ ShareMisreads \/ DelMisreads \/ PvMisreads
  /\ UNCHANGED storeVars

(* A connection cannot be made or is lost, a statement that writes fails,  *)
(* or fdfs_delete_file: the rest is skipped, the error code answered.      *)
(* (Redis lost between two of its commands is a null reply, and a crash.)  *)
DealFails ==
  /\ dealfile.pc \in DealSteps \ DealRedisSteps
  /\ DealReplies(DealErrorCode)
  /\ UNCHANGED storeVars
=============================================================================
