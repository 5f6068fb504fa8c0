---------------------------- MODULE ShareFilesCgi ----------------------------
(***************************************************************************)
(* bin_cgi/sharefiles, built from src_cgi/sharefiles_cgi.c: the number of  *)
(* shared files, their list from MySQL, and their ranking by downloads     *)
(* from Redis, which it reloads from MySQL when the two do not hold the    *)
(* same number of files.                                                   *)
(***************************************************************************)
EXTENDS CloudStore

VARIABLE listing   \* the process: its next statement and its locals

ListingIdle ==
  [pc |-> "idle", cmd |-> "", total |-> 0, mysql |-> TRUE, rows |-> {},
   row |-> None, left |-> {}, shown |-> {}, code |-> ""]

ListingSteps ==
  {"count: select", "normal: select",
   "rank: select total", "rank: zcard", "rank: del zset", "rank: del hash",
   "rank: select shares", "rank: zadd", "rank: hset", "rank: zrevrange",
   "rank: hget", "rank: zscore"}

ShareRows == [file: Files, pv: Nat]

ListingStates ==
  [pc: ListingSteps \cup {"idle", "reply"},
   cmd: {"", "count", "normal", "pvdesc"}, total: Int, mysql: BOOLEAN,
   rows: SUBSET ShareRows, row: Files \cup {None},
   left: SUBSET Files, shown: SUBSET Files, code: {"", "ok", "015"}]

ListingTypeOK == listing \in ListingStates

ListingGoes(pc)      == listing' = [listing EXCEPT !.pc = pc]
ListingReplies(code) == listing' = [listing EXCEPT !.pc = "reply",
                                                   !.code = code]

ListingAccept(cmd) ==
  /\ listing.pc = "idle"
  /\ listing' = [ListingIdle EXCEPT
       !.pc = CASE cmd = "count"  -> "count: select"
                [] cmd = "normal" -> "normal: select"
                [] cmd = "pvdesc" -> "rank: select total",
       !.cmd = cmd]
  /\ UNCHANGED storeVars

ListingReply ==
  /\ listing.pc = "reply"
  /\ listing' = ListingIdle
  /\ UNCHANGED storeVars

-----------------------------------------------------------------------------
(* get_share_files_count and get_share_filelist: one SELECT each.  The     *)
(* list joins file_info, so a share whose content is gone is not in it.    *)

CountSelect ==
  /\ listing.pc = "count: select"
  /\ listing' = [listing EXCEPT !.pc = "reply", !.code = "ok",
       !.total = IF user_file_count[ShareTotal] = None
                 THEN 0 ELSE user_file_count[ShareTotal]]
  /\ UNCHANGED storeVars

NormalSelect ==
  /\ listing.pc = "normal: select"
  /\ LET joined == {f \in Files : IsShared(f) /\ file_info[f.md5] # <<>>}
     IN listing' = [listing EXCEPT !.pc = "reply", !.shown = joined,
          !.code = IF joined = {} THEN "015" ELSE "ok"]
  /\ UNCHANGED storeVars

-----------------------------------------------------------------------------
(* get_ranking_filelist *)

RankSelectTotal ==
  /\ listing.pc = "rank: select total"
  /\ IF user_file_count[ShareTotal] = None
     THEN ListingReplies("015")
     ELSE listing' = [listing EXCEPT !.pc = "rank: zcard",
                                     !.total = user_file_count[ShareTotal]]
  /\ UNCHANGED storeVars

(* This SELECT fails, and alone, or with it every later statement of the   *)
(* connection: process_result_one does not say so, the total read is 0.    *)
RankTotalMisread ==
  /\ listing.pc = "rank: select total"
  /\ \E alive \in BOOLEAN :
       listing' = [listing EXCEPT !.pc = "rank: zcard", !.mysql = alive]
  /\ UNCHANGED storeVars

(* Slip: Redis is trusted as it is. *)
RankZcardNot ==
  /\ listing.pc = "rank: zcard"
  /\ ListingGoes("rank: zrevrange")
  /\ UNCHANGED storeVars

RankZcard ==
  /\ listing.pc = "rank: zcard"
  /\ ListingGoes(IF listing.total = Cardinality(Ranked)
                 THEN "rank: zrevrange" ELSE "rank: del zset")
  /\ UNCHANGED storeVars

RankDelZset ==
  /\ listing.pc = "rank: del zset"
  /\ DelZset
  /\ ListingGoes("rank: del hash")

RankDelHash ==
  /\ listing.pc = "rank: del hash"
  /\ DelHash
  /\ ListingGoes("rank: select shares")

(* select md5,file_name,pv from share_file_list order by pv desc *)
SharedRows ==
  UNION {{[file |-> f, pv |-> share_file_list[u][f][i]] :
            i \in DOMAIN share_file_list[u][f]} : u \in Users, f \in Files}

RankSelectShares ==
  /\ listing.pc = "rank: select shares"
  /\ IF listing.mysql /\ SharedRows # {}
     THEN listing' = [listing EXCEPT !.pc = "rank: zadd", !.rows = SharedRows]
     ELSE ListingReplies("015")
  /\ UNCHANGED storeVars

(* The next row of the result set: none of the rest has a greater pv. *)
RankZadd ==
  /\ listing.pc = "rank: zadd"
  /\ \E row \in listing.rows :
       /\ \A other \in listing.rows : other.pv <= row.pv
       /\ Zadd(row.file, row.pv)
       /\ listing' = [listing EXCEPT !.pc = "rank: hset", !.row = row.file,
                                     !.rows = @ \ {row}]

(* Slip: the reload forgets the names. *)
RankHsetNot ==
  /\ listing.pc = "rank: hset"
  /\ ListingGoes(IF listing.rows = {} THEN "rank: zrevrange"
                                      ELSE "rank: zadd")
  /\ UNCHANGED storeVars

RankHset ==
  /\ listing.pc = "rank: hset"
  /\ Hset(listing.row)
  /\ ListingGoes(IF listing.rows = {} THEN "rank: zrevrange"
                                      ELSE "rank: zadd")

(* start = 0 and a count that reaches the last member *)
RankZrevrange ==
  /\ listing.pc = "rank: zrevrange"
  /\ listing' = [listing EXCEPT !.left = Ranked,
       !.pc   = IF Ranked = {} THEN "reply" ELSE "rank: hget",
       !.code = IF Ranked = {} THEN "ok" ELSE ""]
  /\ UNCHANGED storeVars

(* A member without a name fails the whole request. *)
RankHget ==
  /\ listing.pc = "rank: hget"
  /\ \E f \in listing.left :
       IF f \in hash
       THEN listing' = [listing EXCEPT !.pc = "rank: zscore", !.row = f]
       ELSE ListingReplies("015")
  /\ UNCHANGED storeVars

(* Slip: the member stays among those to come. *)
RankZscoreAgain ==
  /\ listing.pc = "rank: zscore"
  /\ IF zset[listing.row] = None
     THEN ListingReplies("015")
     ELSE listing' = [listing EXCEPT !.pc = "rank: hget",
                                     !.shown = @ \cup {listing.row}]
  /\ UNCHANGED storeVars

(* So does one that left the set meanwhile. *)
RankZscore ==
  /\ listing.pc = "rank: zscore"
  /\ LET rest == listing.left \ {listing.row}
     IN IF zset[listing.row] = None
        THEN ListingReplies("015")
        ELSE listing' = [listing EXCEPT !.left = rest,
               !.shown = @ \cup {listing.row},
               !.pc    = IF rest = {} THEN "reply" ELSE "rank: hget",
               !.code  = IF rest = {} THEN "ok" ELSE ""]
  /\ UNCHANGED storeVars

RankStep ==
  \/ RankSelectTotal  \/ RankZcard \/ RankDelZset \/ RankDelHash
  \/ RankSelectShares \/ RankZadd  \/ RankHset    \/ RankZrevrange
  \/ RankHget         \/ RankZscore

-----------------------------------------------------------------------------
ListingStep == CountSelect \/ NormalSelect \/ RankStep \/ ListingReply

(* A connection cannot be made or MySQL is lost.  count answers 0 then;    *)
(* the list answers 015 when its SELECT fails, and prints "(null)" when it *)
(* could not connect (ret is still 0); the ranking answers 015 where it    *)
(* notices.                                                                *)
ListingFails ==
  \/ /\ listing.pc \in {"normal: select", "rank: select total",
                        "rank: select shares"}
     /\ ListingReplies("015")
     /\ UNCHANGED storeVars
  \/ /\ listing.pc \in {"count: select", "normal: select"}
     /\ ListingReplies("ok")
     /\ UNCHANGED storeVars
  \/ RankTotalMisread
=============================================================================
