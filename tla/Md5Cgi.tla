------------------------------- MODULE Md5Cgi -------------------------------
(***************************************************************************)
(* bin_cgi/md5, built from src_cgi/md5_cgi.c: the instant upload of a file *)
(* whose content is known already.                                         *)
(***************************************************************************)
EXTENDS CloudStore

VARIABLE instant   \* the process: its next statement and its locals

InstantIdle ==
  [pc |-> "idle", user |-> None, file |-> None, count |-> None, code |-> ""]

InstantSteps == {"select refs", "select own", "write refs",
                 "insert user file", "select count", "write count"}

InstantTypeOK ==
  instant \in [pc: InstantSteps \cup {"idle", "reply"},
               user: Users \cup {None}, file: Files \cup {None},
               count: Int \cup {None}, code: {"", "005", "006", "007"}]

InstantReplies(code) ==
  instant' = [instant EXCEPT !.pc = "reply", !.code = code]

(* A request whose token verify_token accepts *)
InstantAccept(u, f) ==
  /\ instant.pc = "idle"
  /\ instant' = [InstantIdle EXCEPT !.pc = "select refs",
                                    !.user = u, !.file = f]
  /\ UNCHANGED storeVars

(* No row of this md5: the content must be uploaded, 007. *)
InstantUnknown ==
  /\ instant.pc = "select refs"
  /\ file_info[instant.file.md5] = <<>>
  /\ InstantReplies("007")
  /\ UNCHANGED storeVars

InstantSelectRefs ==
  /\ instant.pc = "select refs"
  /\ \E i \in DOMAIN file_info[instant.file.md5] :
       instant' = [instant EXCEPT !.pc = "select own",
                     !.count = file_info[instant.file.md5][i].count]
  /\ UNCHANGED storeVars

InstantSelectOwn ==
  /\ instant.pc = "select own"
  /\ IF Lists(instant.user, instant.file)
     THEN InstantReplies("005")
     ELSE instant' = [instant EXCEPT !.pc = "write refs"]
  /\ UNCHANGED storeVars

InstantWriteRefs ==
  /\ instant.pc = "write refs"
  /\ UpdateFileInfo(instant.file.md5, instant.count + 1)
  /\ instant' = [instant EXCEPT !.pc = "insert user file"]

InstantInsertUserFile ==
  /\ instant.pc = "insert user file"
  /\ InsertUserFile(instant.user, instant.file)
  /\ instant' = [instant EXCEPT !.pc = "select count"]

InstantSelectCount ==
  /\ instant.pc = "select count"
  /\ instant' = [instant EXCEPT !.pc = "write count",
                                !.count = user_file_count[instant.user]]
  /\ UNCHANGED storeVars

InstantWriteCount ==
  /\ instant.pc = "write count"
  /\ IncrementCount(instant.user, instant.count)
  /\ InstantReplies(IF IncrementFails(instant.user, instant.count)
                    THEN "007" ELSE "006")

InstantReply ==
  /\ instant.pc = "reply"
  /\ instant' = InstantIdle
  /\ UNCHANGED storeVars

InstantStep ==
  \/ InstantUnknown   \/ InstantSelectRefs     \/ InstantSelectOwn
  \/ InstantWriteRefs \/ InstantInsertUserFile \/ InstantSelectCount
  \/ InstantWriteCount \/ InstantReply

(* A SELECT alone fails.  The first one: the content is taken for known,   *)
(* with 0 owners; or (no result set) neither branch is taken and 006 sent. *)
(* The second: the user is taken for one who has no such file.  The third: *)
(* the buffer still holds the number of owners.                            *)
InstantMisreads ==
  /\ \/ /\ instant.pc = "select refs"
        /\ \/ instant' = [instant EXCEPT !.pc = "select own", !.count = 0]
           \/ InstantReplies("006")
        /\ UNCHANGED misread
     \/ /\ instant.pc = "select own"
        /\ instant' = [instant EXCEPT !.pc = "write refs"]
        /\ UNCHANGED misread
     \/ /\ instant.pc = "select count"
        /\ instant' = [instant EXCEPT !.pc = "write count"]
        /\ Missed(instant.user)
  /\ UNCHANGED storeVars

(* A connection cannot be made or is lost, a statement that writes fails:  *)
(* the rest is skipped, 007.                                               *)
InstantFails ==
  /\ instant.pc \in InstantSteps
  /\ InstantReplies("007")
  /\ UNCHANGED storeVars
=============================================================================
