----------------------------- MODULE CloudStore -----------------------------
(***************************************************************************)
(* The stores that the FastCGI programs of the cloud disk share:           *)
(*   - the MySQL tables of JKYi_CloudDisk.sql,                             *)
(*   - the two Redis keys of include/redis_keys.h,                         *)
(*   - the blobs kept by the FastDFS storage server.                       *)
(*                                                                         *)
(* The programs use no transaction, so each SQL statement and each Redis   *)
(* command is one atomic step of its own; there is one operator per        *)
(* statement, and it says what the statement does to every store.          *)
(*                                                                         *)
(* A table is the map from the columns its WHERE clauses test to the rows  *)
(* that match, in insertion order (id is AUTO_INCREMENT, no other column   *)
(* is unique but user_file_count.user).  Every UPDATE and DELETE reaches   *)
(* all matching rows; a SELECT without ORDER BY that reads one row may     *)
(* return any of them.                                                     *)
(***************************************************************************)
EXTENDS Integers, Sequences, FiniteSets

CONSTANTS
  Users,       \* registered users
  Md5s,        \* contents, told apart by their md5
  Names,       \* file names
  ShareTotal,  \* the row "xxx_share_xxx_file_xxx_list_xxx_count_xxx"
  None         \* no row, no member, no value

ASSUME ShareTotalIsNoUser == ShareTotal \notin Users
ASSUME NoneIsNoValue      == None \notin Int /\ None \notin Users

Files    == [md5: Md5s, name: Names]   \* what md5 + file_name identify
Counters == Users \cup {ShareTotal}

VARIABLES
  file_info,        \* per md5: its rows [file_id, count]
  user_file_list,   \* per user and file: rows [shared, pv]
  share_file_list,  \* per user and file: the pv of each row
  user_file_count,  \* per user, and for ShareTotal: the count, or None
  zset,             \* FILE_PUBLIC_ZSET: the score of each file, or None
  hash,             \* FILE_NAME_HASH: the files that have a name there
  storage,          \* ids of the blobs FastDFS holds
  uploaded,         \* ids FastDFS gave out so far: 1 .. uploaded
  misread           \* history, no store: what a failed SELECT misread (Missed)

mysqlVars == <<file_info, user_file_list, share_file_list, user_file_count>>
redisVars == <<zset, hash>>
blobVars  == <<storage, uploaded>>
storeVars == <<mysqlVars, redisVars, blobVars>>

FileInfoRows == [file_id: Nat, count: Int]
UserFileRows == [shared: {0, 1}, pv: Nat]

StoreTypeOK ==
  /\ file_info       \in [Md5s -> Seq(FileInfoRows)]
  /\ user_file_list  \in [Users -> [Files -> Seq(UserFileRows)]]
  /\ share_file_list \in [Users -> [Files -> Seq(Nat)]]
  /\ user_file_count \in [Counters -> Int \cup {None}]
  /\ zset            \in [Files -> Nat \cup {None}]
  /\ hash            \in SUBSET Files
  /\ storage         \in SUBSET Nat
  /\ uploaded        \in Nat

(* The tables as JKYi_CloudDisk.sql creates them, an empty Redis and an    *)
(* empty storage.                                                          *)
StoreInit ==
  /\ file_info       = [m \in Md5s |-> <<>>]
  /\ user_file_list  = [u \in Users |-> [f \in Files |-> <<>>]]
  /\ share_file_list = [u \in Users |-> [f \in Files |-> <<>>]]
  /\ user_file_count = [c \in Counters |-> None]
  /\ zset            = [f \in Files |-> None]
  /\ hash            = {}
  /\ storage         = {}
  /\ uploaded        = 0

-----------------------------------------------------------------------------
(* A SELECT through process_result_one.  When mysql_query fails, the       *)
(* statement "ret -1;" sets nothing: the answer is 0, a value was read, and *)
(* the buffer is what it was before.  No row is answer 1, rows without a   *)
(* buffer to put them in 2, no result set -1.                              *)

(* atoi of the buffer, which is empty until something was read into it. *)
Atoi(buf) == IF buf = None THEN 0 ELSE buf

(* The history notes whose counter was misread, and the file of which it   *)
(* was misread that somebody shares it.                                    *)
Missed(x) == misread' = misread \cup {x}

-----------------------------------------------------------------------------
(* Statements on file_info *)

InsertFileInfo(m, id) ==
  /\ file_info' = [file_info EXCEPT
                     ![m] = Append(@, [file_id |-> id, count |-> 1])]
  /\ UNCHANGED <<user_file_list, share_file_list, user_file_count,
                 redisVars, blobVars>>

UpdateFileInfo(m, n) ==
  /\ file_info' = [file_info EXCEPT
                     ![m] = [i \in DOMAIN @ |-> [@[i] EXCEPT !.count = n]]]
  /\ UNCHANGED <<user_file_list, share_file_list, user_file_count,
                 redisVars, blobVars>>

DeleteFileInfo(m) ==
  /\ file_info' = [file_info EXCEPT ![m] = <<>>]
  /\ UNCHANGED <<user_file_list, share_file_list, user_file_count,
                 redisVars, blobVars>>

-----------------------------------------------------------------------------
(* Statements on user_file_list *)

Lists(u, f) == user_file_list[u][f] # <<>>

SetUserRows(u, f, rows) ==
  /\ user_file_list' = [user_file_list EXCEPT ![u][f] = rows]
  /\ UNCHANGED <<file_info, share_file_list, user_file_count,
                 redisVars, blobVars>>

InsertUserFile(u, f) ==
  SetUserRows(u, f, Append(user_file_list[u][f], [shared |-> 0, pv |-> 0]))

UpdateShared(u, f, status) ==
  SetUserRows(u, f, [i \in DOMAIN user_file_list[u][f] |->
                       [user_file_list[u][f][i] EXCEPT !.shared = status]])

UpdateUserPv(u, f, n) ==
  SetUserRows(u, f, [i \in DOMAIN user_file_list[u][f] |->
                       [user_file_list[u][f][i] EXCEPT !.pv = n]])

DeleteUserFile(u, f) == SetUserRows(u, f, <<>>)

-----------------------------------------------------------------------------
(* Statements on share_file_list.  Shares are looked up by md5 and name,   *)
(* whoever made them, and deleted by user, md5 and name.                   *)

IsShared(f) == \E u \in Users : share_file_list[u][f] # <<>>

SetShares(shares) ==
  /\ share_file_list' = shares
  /\ UNCHANGED <<file_info, user_file_list, user_file_count,
                 redisVars, blobVars>>

InsertShare(u, f) ==
  SetShares([share_file_list EXCEPT ![u][f] = Append(@, 0)])

DeleteShare(u, f) ==
  SetShares([share_file_list EXCEPT ![u][f] = <<>>])

UpdateSharePv(f, n) ==
  SetShares([u \in Users |-> [share_file_list[u] EXCEPT
                                ![f] = [i \in DOMAIN @ |-> n]]])

-----------------------------------------------------------------------------
(* Statements on user_file_count *)

SetCount(c, n) ==
  /\ user_file_count' = [user_file_count EXCEPT ![c] = n]
  /\ UNCHANGED <<file_info, user_file_list, share_file_list,
                 redisVars, blobVars>>

UpdateCount(c, n) ==
  SetCount(c, IF user_file_count[c] = None THEN None ELSE n)

DeleteCount(c) == SetCount(c, None)

(* "Add one" as upload, md5 and share do it: the count read by the SELECT  *)
(* before (None: no row) decides between INSERT .. 1 and UPDATE .. read+1. *)
(* The INSERT fails on the unique key when the row appeared meanwhile.     *)
IncrementFails(c, read) == read = None /\ user_file_count[c] # None

(* Slip: the UPDATE writes the number that was read. *)
IncrementCountNot(c, read) ==
  IF read # None             THEN UpdateCount(c, read)
  ELSE IF IncrementFails(c, read) THEN UNCHANGED storeVars
  ELSE SetCount(c, 1)

IncrementCount(c, read) ==
  IF read # None             THEN UpdateCount(c, read + 1)
  ELSE IF IncrementFails(c, read) THEN UNCHANGED storeVars
  ELSE SetCount(c, 1)

-----------------------------------------------------------------------------
(* Redis commands *)

Ranked == {f \in Files : zset[f] # None}

SetZset(scores) ==
  /\ zset' = scores
  /\ UNCHANGED <<mysqlVars, hash, blobVars>>

Zadd(f, score) == SetZset([zset EXCEPT ![f] = score])

(* Slip: the increment has the wrong sign. *)
ZincrbyDown(f) == SetZset([zset EXCEPT ![f] = IF @ = None THEN 1 ELSE @ - 1])

Zincrby(f)     == SetZset([zset EXCEPT ![f] = IF @ = None THEN 1 ELSE @ + 1])
Zrem(f)        == SetZset([zset EXCEPT ![f] = None])
DelZset        == SetZset([f \in Files |-> None])

SetHash(names) ==
  /\ hash' = names
  /\ UNCHANGED <<mysqlVars, zset, blobVars>>

Hset(f) == SetHash(hash \cup {f})
Hdel(f) == SetHash(hash \ {f})   \* ends its program, maybe, if f \notin hash
DelHash == SetHash({})

(* rop_zset_exit answers with ZLEXCOUNT key [member [member.  Redis counts *)
(* a member exactly only among members of equal score; when the scores     *)
(* differ its scan, which is by score first, may miss the member, or count *)
(* others with it (it takes three members for that).  A file that is no    *)
(* member is never counted.                                                *)
ZsetExit(f) ==
  IF zset[f] = None THEN {0}
  ELSE IF \A g \in Ranked : zset[g] = zset[f] THEN {1}
  ELSE IF \E g, h \in Ranked : g # h /\ f \notin {g, h} THEN {0, 1, 2}
  ELSE {0, 1}

-----------------------------------------------------------------------------
(* FastDFS: fdfs_upload_file and fdfs_delete_file *)

StoreBlob ==
  /\ uploaded' = uploaded + 1
  /\ storage'  = storage \cup {uploaded + 1}
  /\ UNCHANGED <<mysqlVars, redisVars>>

RemoveBlob(id) ==
  /\ storage' = storage \ {id}
  /\ UNCHANGED <<mysqlVars, redisVars, uploaded>>
=============================================================================
