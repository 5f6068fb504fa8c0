--------------------------- MODULE CloudDiskPages ---------------------------
(***************************************************************************)
(* CloudDisk with the program that shows users their files beside it, and  *)
(* a Redis that may come back with nothing: redis.sh stops it by kill -9,  *)
(* and redis_6379.conf keeps no snapshot (save "") and its append-only     *)
(* file in the directory it is started from (dir ./).                      *)
(***************************************************************************)
EXTENDS CloudDisk, MyFilesCgi

CONSTANT MaxForgets   \* bound: how often Redis comes back empty

ASSUME MaxForgetsIsNat == MaxForgets \in Nat

(* What the properties remember of the past: how often Redis was emptied;  *)
(* the shared files whose cancel ended its program half way; those shared  *)
(* a second time (012) while Redis did not know them, which have no name   *)
(* there since; those whose deletion left them in Redis, for ZLEXCOUNT had *)
(* missed them; and whether a deletion was misled by such a member, which  *)
(* it took for a share, or by a member without a name, which ended it      *)
(* between the share and the file.                                         *)
VARIABLE past

pagesVars == <<vars, myfiles, past>>

PagesInit ==
  /\ Init
  /\ myfiles = MyFilesIdle
  /\ past    = [forgets |-> 0, brokenOff |-> {}, sharedAgain |-> {},
                leftBehind |-> {}, misled |-> FALSE]

Busy == Cardinality(AtWork) + (IF myfiles.pc = "idle" THEN 0 ELSE 1)

(* The user asks on a page of the site.  What is asked changes nothing, so *)
(* that there is no bound to it but the sizes of the pages.                *)
AskMyFiles ==
  /\ Busy < MaxBusy
  /\ \E u \in Users, token \in {"110", "111"} :
       /\ Awaited(u)
       /\ \/ MyFilesAccept("count", u, 0, token)
          \/ \E cmd \in ListCmds, size \in PageSizes :
               MyFilesAccept(cmd, u, size, token)
  /\ UNCHANGED <<programVars, boundVars, past>>

MyFilesRuns == MyFilesStep /\ UNCHANGED <<programVars, boundVars, past>>

(* What breaks off here leaves nothing behind, so that it needs no bound. *)
MyFilesFault ==
  /\ MyFilesFails \/ MyFilesDies
  /\ UNCHANGED <<programVars, boundVars, past>>

JustBrokenOff ==
  {f \in {dealshare.file} : dealshare.pc # "dead" /\ dealshare'.pc = "dead"}
JustSharedAgain ==
  {f \in {dealfile.file} : dealfile.pc = "share: zadd again"}
JustLeftBehind ==
  {f \in {dealfile.file} : dealfile.pc = "del: write total" /\ ~dealfile.flag}
JustMisled ==
  \/ /\ dealfile.pc = "del: zset_exit" /\ dealfile'.flag
     /\ dealfile.file \in past.leftBehind
  \/ dealfile.pc = "del: hdel" /\ dealfile'.pc = "idle"

Remembers ==
  past' = [past EXCEPT
    !.brokenOff   = {f \in @ \cup JustBrokenOff : IsShared(f)'},
    !.sharedAgain = (@ \cup JustSharedAgain) \ hash',
    !.leftBehind  = {f \in @ \cup JustLeftBehind :
                       zset'[f] # None /\ ~IsShared(f)'},
    !.misled      = @ \/ JustMisled]

(* A program of CloudDisk moves; it takes up a request only when less than *)
(* MaxBusy programs are at work, this one among them.                      *)
CloudDiskMoves ==
  /\ Next
  /\ accepted' # accepted => Busy < MaxBusy
  /\ Remembers
  /\ UNCHANGED myfiles

(* Redis is stopped and started while no program talks to it (a program    *)
(* that does would meet a null reply, and crash).                          *)
RedisForgets ==
  /\ Busy = 0 /\ past.forgets < MaxForgets
  /\ zset' = [f \in Files |-> None]
  /\ hash' = {}
  /\ past' = [past EXCEPT !.forgets = @ + 1, !.sharedAgain = {},
                           !.leftBehind = {}]
  /\ UNCHANGED <<mysqlVars, blobVars, programVars, boundVars, myfiles>>

PagesNext ==
  CloudDiskMoves \/ AskMyFiles \/ MyFilesRuns \/ MyFilesFault \/ RedisForgets

PagesSpec == PagesInit /\ [][PagesNext]_pagesVars

-----------------------------------------------------------------------------
(* What a user sees is what the user has, with one request after the other *)
(* and no failure: count answers the number of rows that upload and md5 made *)
(* and del left, and a page of that many rows shows each of them once, for *)
(* each file keeps its content's row in file_info and gets no second one.  *)
FilesAreShown ==
  myfiles.pc = "reply" /\ myfiles.token = "110" /\ ~myfiles.lost =>
    /\ myfiles.cmd = "count" => myfiles.num = RowsOf(myfiles.user)
    /\ myfiles.cmd \in ListCmds /\ myfiles.size >= CountOf(myfiles.user) =>
         /\ Cardinality(myfiles.shown) = RowsOf(myfiles.user)
         /\ \A f \in Files : Lists(myfiles.user, f)
              => \E r \in myfiles.shown : r.file = f

(* The two Redis keys name the same files, but for those that somebody     *)
(* shared a second time after Redis had lost them: share_file then puts    *)
(* the member back and not its name (dealfile_cgi.c:169).  A reload, a     *)
(* deletion and a cancel keep the two together whatever Redis forgot.      *)
NamesFollowMembers ==
  AllQuiet => hash \subseteq Ranked /\ Ranked \ hash \subseteq past.sharedAgain

(* The total of shares is right, although Redis misleads a deletion about  *)
(* its file now and then, until it misleads one: about a file that it has  *)
(* still from a share deleted before, when del takes one off for nothing,  *)
(* or by a member without a name, when the next del does.                  *)
TotalCountsShares ==
  AllQuiet /\ ~past.misled =>
    CountOf(ShareTotal) = Cardinality(AllShareRows)

(* A ranking that is answered lists exactly the shared files, unless it    *)
(* lists one whose deletion left it in Redis: when the two numbers agree   *)
(* and Redis has no such file, the set there is the set in MySQL, and when *)
(* they do not, the reload makes it so.                                    *)
RankingIsExact ==
  listing.pc = "reply" /\ listing.cmd = "pvdesc" /\ listing.code = "ok"
    /\ ~past.misled =>
    \/ \A f \in Files : f \in listing.shown <=> IsShared(f)
    \/ listing.shown \cap past.leftBehind # {}

(* A ranking fails although files are shared only over a file without a    *)
(* name: neither a Redis that lost everything nor a cancel that died nor a *)
(* file left behind keeps it from answering, for it reloads from MySQL.    *)
RankingFailsOnlyNameless ==
  listing.pc = "reply" /\ listing.cmd = "pvdesc" /\ listing.code = "015"
    /\ ~past.misled /\ AllShareRows # {} => Ranked \cap past.sharedAgain # {}

(* What a user's list says of sharing is what share_file_list says, but    *)
(* for the cancel that ended its program after it had cleared the mark:    *)
(* that share stays, and the owner's list does not show it.                *)
SharedMarkIsRow ==
  AllQuiet /\ ~past.misled =>
    \A u \in Users, f \in Files : \A i \in DOMAIN user_file_list[u][f] :
      IF user_file_list[u][f][i].shared = 1
      THEN share_file_list[u][f] # <<>>
      ELSE share_file_list[u][f] # <<>> => f \in past.brokenOff
=============================================================================
