----------------------------- MODULE MyFilesCgi -----------------------------
(***************************************************************************)
(* bin_cgi/myfiles, built from src_cgi/myfiles_cgi.c: the number of files  *)
(* of a user, and a page of their list as it comes or by downloads.  It    *)
(* reads three tables and writes none.  A page starts at row 0.            *)
(***************************************************************************)
EXTENDS CloudStore

CONSTANT PageSizes   \* bound: the "count" of the pages that clients ask for

ASSUME PageSizesAreNat == PageSizes \subseteq Nat

VARIABLE myfiles   \* the process: its next statement and its locals

MyFilesIdle == [pc |-> "idle", cmd |-> "", user |-> None, size |-> 0,
                token |-> "", num |-> 0, shown |-> {}, lost |-> FALSE,
                code |-> ""]

ListCmds == {"normal", "pvasc", "pvdesc"}

(* A row of the join: the file, its row in user_file_list and the row of   *)
(* file_info with the same md5.                                            *)
Joined == [file: Files, row: Nat, info: Md5s \X Nat, pv: Nat]

(* The number that is printed is one, also for a user without a row in     *)
(* user_file_count, and what is shown are rows of the join.                *)
MyFilesTypeOK ==
  myfiles \in [pc:    {"idle", "count: select", "list: select", "reply"},
               cmd:   ListCmds \cup {"", "count"},
               user:  Users \cup {None},
               size:  PageSizes \cup {0},
               token: {"", "110", "111"},
               num:   Int,
               shown: SUBSET Joined,
               lost:  BOOLEAN,
               code:  {"", "ok", "015", "110", "111"}]

(* token: 110 when verify_token accepts it and 111 otherwise.  The count   *)
(* is answered either way, with that code; the list is not.                *)
MyFilesAccept(cmd, u, size, token) ==
  /\ myfiles.pc = "idle"
  /\ myfiles' = [MyFilesIdle EXCEPT
       !.pc   = IF cmd = "count"        THEN "count: select"
                ELSE IF token = "110"   THEN "list: select" ELSE "reply",
       !.code = IF cmd # "count" /\ token = "111" THEN "111" ELSE "",
       !.cmd  = cmd, !.user = u, !.size = size, !.token = token]
  /\ UNCHANGED storeVars

(* Slip: the result is not looked at, so that no row is not 0. *)
MyCountSelectRaw ==
  /\ myfiles.pc = "count: select"
  /\ myfiles' = [myfiles EXCEPT !.pc = "reply", !.code = myfiles.token,
                                !.num = user_file_count[myfiles.user]]
  /\ UNCHANGED storeVars

MyCountSelect ==
  /\ myfiles.pc = "count: select"
  /\ myfiles' = [myfiles EXCEPT !.pc = "reply", !.code = myfiles.token,
       !.num = IF user_file_count[myfiles.user] = None
               THEN 0 ELSE user_file_count[myfiles.user]]
  /\ UNCHANGED storeVars

(* Slip: the condition on md5 is missing from the join. *)
JoinedRowsCross(u) ==
  UNION {UNION {{[file |-> f, row |-> i, info |-> <<m, j>>,
                  pv |-> user_file_list[u][f][i].pv] :
                   i \in DOMAIN user_file_list[u][f],
                   j \in DOMAIN file_info[m]} : m \in Md5s} : f \in Files}

JoinedRows(u) ==
  UNION {{[file |-> f, row |-> i, info |-> <<f.md5, j>>,
           pv |-> user_file_list[u][f][i].pv] :
            i \in DOMAIN user_file_list[u][f],
            j \in DOMAIN file_info[f.md5]} : f \in Files}

(* LIMIT 0, size: the first rows in an order that the SELECT leaves open   *)
(* among rows of equal pv, and wholly for cmd = normal.                    *)
Pages(cmd, rows, size) ==
  {page \in SUBSET rows :
     /\ \/ Cardinality(page) = size
        \/ Cardinality(page) < size /\ page = rows
     /\ \A r \in page, left \in rows \ page :
          /\ cmd = "pvasc"  => r.pv <= left.pv
          /\ cmd = "pvdesc" => r.pv >= left.pv}

MyListSelect ==
  /\ myfiles.pc = "list: select"
  /\ \E page \in Pages(myfiles.cmd, JoinedRows(myfiles.user), myfiles.size) :
       myfiles' = [myfiles EXCEPT !.pc = "reply", !.shown = page,
                     !.code = IF page = {} THEN "015" ELSE "ok"]
  /\ UNCHANGED storeVars

MyFilesReply ==
  /\ myfiles.pc = "reply"
  /\ myfiles' = MyFilesIdle
  /\ UNCHANGED storeVars

MyFilesStep == MyCountSelect \/ MyListSelect \/ MyFilesReply

(* A connection cannot be made or the SELECT fails: the count is 0. *)
MyFilesFails ==
  /\ \E code \in {"110", "111", "015"} :
       /\ \/ myfiles.pc = "count: select" /\ code = myfiles.token
          \/ myfiles.pc = "list: select"  /\ code = "015"
       /\ myfiles' = [myfiles EXCEPT !.pc = "reply", !.lost = TRUE,
                                     !.code = code]
  /\ UNCHANGED storeVars

(* The process is killed, or dies in the LOG before the SELECT of the list *)
(* (line 231), whose %s has no argument: it printed (null) in the logs     *)
(* that the repository keeps, and may as well read anywhere; or in the LOG *)
(* after it (line 313), which has 4096 bytes for the list.  Somebody       *)
(* starts it again.                                                        *)
MyFilesDies ==
  /\ myfiles.pc # "idle"
  /\ myfiles' = MyFilesIdle
  /\ UNCHANGED storeVars
=============================================================================
