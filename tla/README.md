# JKYi-CloudDisk in TLA+

TLA+ models of the FastCGI programs of JKYi-CloudDisk and of the stores they
share, TLC configurations that check them on small instances, and TLAPS proofs
of the safety properties that hold for every instance.

## 1. The system

nginx hands each request to one of eight FastCGI programs. `fcgi.sh` starts
each program once with `spawn-fcgi` (one process, one request at a time) and
stops them with `kill -9`; nothing restarts one that dies. The programs talk to
each other only through the stores:

| store | kept in | written by |
|---|---|---|
| `file_info`: a row per stored content, with a reference count | MySQL | upload, md5, dealfile |
| `user_file_list`: a row per file of a user, `shared_status`, `pv` | MySQL | upload, md5, dealfile, dealsharefile |
| `share_file_list`: a row per shared file, `pv` | MySQL | dealfile, dealsharefile |
| `user_file_count`: a counter per user, and one row (`xxx_share_...`) that counts all shares | MySQL | upload, md5, dealfile, dealsharefile |
| `FILE_PUBLIC_ZSET`: the shared files with their downloads as score; `FILE_NAME_HASH`: their names | Redis | dealfile, dealsharefile, sharefiles |
| the contents | FastDFS | upload, dealfile |
| `user_info`, one token per user | MySQL, Redis | register, login |

There is no transaction and no lock: each SQL statement, each Redis command and
each FastDFS call is atomic by itself and nothing larger is. Numbers are read by
one statement, changed in the program and written by another.

### Components, and what makes each correct

| component | operations | what must hold | status |
|---|---|---|---|
| stores | the statements and commands above | a row never names a missing blob | `CloudStore`, `BlobLife` |
| upload, on the tables | upload a content | blob first, rows after; blob never listed twice | `UploadCgi` |
| upload, on its machine | save the body, fork the FastDFS tools, read their output, answer, serve on | a row names what was sent, once; one program serves; an answer comes | `UploadHost` |
| md5 | list a known content for another user | counts as many owners as there are | `Md5Cgi` |
| dealfile | share, delete, count a download | one share row per file; rows gone before the blob; counters follow rows | `DealFileCgi` |
| dealsharefile | count a download of a shared file, cancel a share, save a shared file | Redis follows MySQL; every request is answered | `DealShareFileCgi` |
| sharefiles | count, list and rank the shared files | a ranking lists the shared files; a reload loses none | `ShareFilesCgi` |
| processes, clients, faults | any request at any time, failing calls, `kill -9` | the above, at all times | `CloudDisk` |
| login, register, tokens | register, log in, verify a token | who was registered is admitted; who is accepted is registered; the newest token is the valid one | `Session` |
| myfiles | count and list a user's files | what is shown is what the user has | `MyFilesCgi` |
| text helpers of `util_cgi.c` | trim, search, replace, parse | the content ends at the boundary | `memstr` in `UploadHost` |
| Redis, as `redis.sh` runs it | kill, start | a ranking recovers what was lost | `CloudDiskPages` |
| cfg, log, cJSON, DES, MD5, base64, scripts | | | not modelled, see 7 |

The hard behaviours are the interleavings of programs on the same rows (read,
change, write back), operations of up to fifteen statements that may stop after
any of them, SELECTs that fail without the handler's notice, two stores (MySQL and Redis) that say the same thing twice, the
ranking, which empties and refills Redis beside everybody else, and the process
tree of upload, in which a child whose `execlp` failed goes on as a second
program. `PROJECT.json` lists them under "hazards", line by line.

## 2. The modules

    CloudStore                      stores: variables, one operator per statement
      |-- UploadCgi                 variable upload
      |-- Md5Cgi                    variable instant
      |-- DealFileCgi               variable dealfile
      |-- DealShareFileCgi          variable dealshare
      |-- ShareFilesCgi             variable listing
            \-- CloudDisk           all five side by side, clients, faults, properties
                  |-- MCCloudDisk        symmetry sets for TLC
                  |-- CloudDiskPages     with MyFilesCgi (variable myfiles), and a
                  |     |-- MCCloudDiskPages            Redis that comes back empty
                  |     \-- CloudDiskPagesProofs        (over CloudDiskLife)
                  |           \-- CloudDiskSharing      the shares of one user, contents, lists
                  \-- CloudDiskProofs    (over CloudDiskTypes)
                        \-- CloudDiskLife     CloudDisk implements BlobLife
    UploadHost                      upload on its own machine: processes, local
      |-- MCUploadHost              files, blobs, rows
      \-- UploadHostProofs
            \-- UploadHostLife      UploadHost implements BlobLife; what failures leave
    BlobLife                        abstract life of a blob
    Session                         register, login, verify_token; table user_info and
      |-- MCSession                 the tokens in Redis, shared with nothing above
      \-- SessionProofs

**State.** A program's variable is a record: `pc` names the statement it will
issue next, the other fields are the locals of the handler that survive to a
later statement (`count`, `id`, `flag`, ...) and the request (`user`, `file`).
A file is its md5 and its name, for `md5 + file_name` is what the WHERE clauses
and the Redis members consist of. `file_info` is looked up by md5 alone. A table
maps the columns of its WHERE clauses to the sequence of matching rows, because
no table but `user_file_count` has a unique key on them: several rows can match,
an UPDATE or DELETE reaches all, and a SELECT that reads one may get any.

**Actions.** One action per statement of a handler; its guard is `pc` and the
conditions and early returns of the code, and it includes all that the code does
until the next statement. Each program has three operators: `...Step` for what it does,
`...Misreads` for a SELECT that fails unnoticed, `...Fails` for a call whose failure it sees. For example `DelWriteRefs` is `dealfile_cgi.c:403-410`,
with the `count--` of line 403 in `DelSelectRefs` before it. The calls that can
be answered only by an error code of the handler go to `"reply"` with that code.
`UploadRuns`, `InstantRuns`, `DealRuns`, `DealShareRuns` and `ListingRuns` in
`CloudDisk` are the processes; `Ask` is the clients.

**myfiles** only reads, and so is composed beside `CloudDisk` rather than within:
`CloudDiskPages` lets it run between any two steps of the others. A page is a set of rows of the join
of `user_file_list` with `file_info`, cut to the size asked for; the SELECT says
nothing of the order of equal rows, so any page that `ORDER BY` admits may come.

A second addition of `CloudDiskPages` is `RedisForgets`: `redis.sh stop` kills
Redis with -9, the configuration keeps no snapshot and its append-only file lies
in the directory Redis happens to be started from, so that it may come back with
nothing. It does so while no program is at work. The variable `past` holds what
the properties need to tell the known exceptions from others: the files shared a
second time while Redis did not know them, those whose cancel ended its program, those
whose deletion left them in Redis, and whether a deletion took such a file for shared.

**UploadHost** takes apart what is one step of `UploadCgi`, to store a blob or
fail (`upload_cgi.c:43-387`). `proc` maps a pid to what the process is at and to
the locals of `main` it has: a fork copies them. The tools are processes too, and
go on when the program that forked them is killed. `dir` is the working directory,
where a file has the name that the client gave it. A content is a sequence of
bytes, one of which may be the `-` that boundaries begin with, and `Received` finds
its end by `memstr`, as the code does. Nobody looks at what `ftruncate` and `write` answer
(lines 188-189): `SaveSpoils` lets the first fail, or the second after any number of
bytes, the file keeping old bytes or zeros, and the program goes on as after `Save`;
`spoilt` remembers the upload. `ExecFails` returns from the function as the
child does (lines 281-299): it goes on at the statement after, with no id. Its
parent is at `"read"` until all write ends of the pipe are closed, which is when
the copy ends. The copy, once it has answered, accepts the next request: it has
the listening socket too. The tables other than `file_info` are
left to `UploadCgi`, which, on its side, has no copies and no tool that outlives
its program: both modules implement `BlobLife`.

**Session** has a process per program (`register`, `login`, and `verify` for the
programs that call `verify_token`), a clock and the clients, who use the tokens
they were answered. A token is the user and the second of the login, for
`srand(time(NULL))` makes the four random numbers a function of the second.
`RegisterSelect` has one successor: its test `ret2 == -2` is never true, and a SELECT
that fails goes on to the INSERT as one that finds nothing does. `check_user_pwd`
compares the password with a buffer that is empty when the SELECT finds no row or
fails, and `main` ignores what `get_login_info` answers: a login without a password
(`Empty`; the repository's `logs/cgi/2023/02/login-23.log:34-35` has one) of a user who is
not registered is answered 000 with a token (`LoginCompares`), and `blank` remembers
that user.

**Faults.** `CallFails`: a connection cannot be made or is lost, or a statement that
writes fails, and the handler takes its error path (`goto END`) with all it did so far
left in place. `Misreads`: a SELECT through `process_result_one` fails and nothing else
does. Then `ret -1;` (`deal_mysql.c:60`) sets nothing, the answer is 0, "one row", and the
buffer keeps what it held: nothing (`Atoi` makes 0 of it), or in `del_file`, which has one
buffer for five SELECTs, what the last one read. So upload writes 1 over any count
(`UploadMisreads`), md5 lists an unknown content (`InstantMisreads`), share inserts a
second row (`ShareMisreads`), del writes -1 or hands a number to the storage as an id
(`DelMisreads`, `DelRemoveNothing`). When the result set is missing instead, the
answer is -1, which some callers take for "no": both outcomes are in the actions. `misread` is a history of the two such SELECTs that
a property cannot survive: the users whose counter was misread on its way to be written
back, and the files that share took for unshared. It occurs in no guard.
`Killed`: the process is killed between two statements and starts afresh; this
also stands for the crashes after a null reply of Redis and after a failing
`fdfs_file_info`, whose effect on the tables is the same (`UploadHost` has the second by itself). The two `sprintf` calls
that print an int with `%s` are not faults: they happen on legal requests, and
take dealsharefile to `"dead"`, from which only `Revived` (somebody runs
`fcgi.sh`) takes it back. Likewise `rop_hash_del`, when there is no name to delete, logs
with an argument fewer than its format has (`redis_op.c:740`): that prints something or
ends the program (`DelHdelDies`, `CancelHdelDies`).

**What a statement can answer.** `rop_zset_exit` asks `ZLEXCOUNT key [m [m`, which
Redis defines only for members of equal score. `ZsetExit` gives every answer that
can come: exact when all scores are equal, possibly 0 for a member otherwise, and
2 when there are three members or more.

## 3. The runs

All are of `MCCloudDisk` but `MCOneUser` (of `MCCloudDiskPages`), `MCSession` and
`MCUploadHost`. `MaxRequests` bounds the requests, `MaxFaults` the
faults, `MaxBusy` the programs at work at the same time. `Careful` limits
clients to what the site's pages offer (share or delete a listed file, upload a
content that md5 answered 007, download or cancel what is shared); without it a
client asks anything. `Serialized` makes a user await each answer.

| run | instance | shows |
|---|---|---|
| `MCInterleaved` | 2 users, 1 file, 4 requests of any kind, 2 at once, 1 fault | `TypeOK`, `StoredWhenListed`, `CountsPositive`, `OneShareRowPerFile`, and that every step is one of `BlobLife` (`BlobsLiveOnce`) |
| `MCOneUser` | 1 user, 2 contents, 9 requests one by one, pages of 1 and 2 files in between, Redis empty once | `NoOrphans`, `TotalCountsShares`, `ScoreWithinPv`, `RankingIsExact`, `FilesAreShown`, `NamesFollowMembers`, `RankingFailsOnlyNameless`, `SharedMarkIsRow`, `MyFilesTypeOK` |
| `MCPerUser` | 2 users, 1 content under 2 names, 5 requests, 2 at once, 1 fault, each user awaits answers | `DriftWithinFaults` |
| `MCRankingRace` | 1 user, 2 files, 4 requests of share, delete, download and ranking, 2 at once, fair | `SharedIsRanked`, `EveryRequestIsAnswered` |
| `MCSession` | 2 users, 2 nick names, a password and the empty one, 5 requests, lifetime 2 of 3 seconds, 1 fault | `TypeOK`, `AcceptedIsRegistered`, `LastAnswerIsStored`, `RegisteredIsAdmitted` |
| `MCUploadHost` | 2 uploads of one name with contents of 1 to 3 times the byte `-`, 5 processes at once, 3 faults, fair | `RowsAreSent`, `OneRowPerUpload`, `RowsAreComplete`, `OneServes`, `LeftWithinFaults`, `AnsweredOnce`, `HostBlobsLiveOnce`, `UploadEnds`, `HostTypeOK` |

Bounds. Every race in the code is between two handlers, since each touches a row
by one read and one later write: two at once show it, and the third and fourth
request bring the rows they race on into being. Two users and one file are what
sharing a content takes; two files are what makes Redis scores differ and
`ZLEXCOUNT` inexact; two names of one content separate the list of a user from
the reference count. Nine requests let one user upload and share two files,
download one, delete it, upload and delete it again, and then rank (below). One fault anywhere shows every broken-off
handler beside another request. In `MCSession` five requests let two users
register, one log in twice and use both tokens, and the clock passes the end of a
lifetime of two. In `MCUploadHost` one name is what makes uploads meet in a local
file, three lengths show a file that is written over and one that is left half old, and three faults are what a
second answer takes (an `execlp`, a failure of the copy, and its end in the second
upload); five processes are a program, two copies and two tools. The safety theorems of section 5 need none of
these bounds.

`CountsPositive` and `DriftWithinFaults` leave out the users in `misread`,
`OneShareRowPerFile` the files in it: what they say holds up against every other
failure, the other unnoticed ones included, and for everybody else. `RowsAreSent`
leaves out the uploads in `spoilt`, whose rows may name other bytes; but no other
upload gets those bytes, although it may have the same local file.
`AcceptedIsRegistered` excepts the users in `blank`.

`MCRankingRace` serves no upload and no md5, so that `EveryRequestIsAnswered` says
something of the other three programs there. Upload and md5 do not loop (a handler
is a fixed number of statements), and `UploadEnds` has the liveness of upload.
`LastAnswerIsStored` is of runs without faults, and the faults of `Session` do not
include a Redis that `redis.sh` kills: it may come back without the tokens.

Deadlock is checked in every run: `Done` is the only way to stop, and it needs
all requests sent and all programs idle (or dead).

### Where the code does otherwise

Six runs each check one statement that the repository makes and the code does
not keep; TLC finds a counterexample in each.

| run | the statement | what happens |
|---|---|---|
| `MCRefCount` | `file_info.count` is the number of users who have the content (`JKYi_CloudDisk.sql:18`) | `del_file` takes two off (`dealfile_cgi.c:403-404`) |
| `MCLostUpdate` | `user_file_count.count` is the number of files (`JKYi_CloudDisk.sql:39`) | upload and md5 of one user at once lose one increment |
| `MCShareTotal` | the `xxx_share_...` row is the number of shared files (`sharefiles_cgi.c:280`) | deleting one's copy of a file that somebody else shares takes one off |
| `MCSharedPv` | a counted download is answered 016 (`dealsharefile_cgi.c:167`) | the wrapper of ZINCRBY takes the new score for an error: 017 |
| `MCCancel` | a cancel is answered 018 or 019 (`dealsharefile_cgi.c:270-271`) | with more than one share the process dies (line 241) |
| `MCTakeOver` | a content goes when its count is zero (`dealfile_cgi.c:411`) | md5 lists it for another user between the statements of the deletion |

One more divergence is in the model and has no run: a name that exists is answered
004 and not 003 (`reg_cgi.c:139` against `reg_cgi.c:210-211`), for `RegisterSelect`
tests for an answer that `process_result_one` never gives.

`ShareTotalIsRows` fails with one user too, and without any fault, although it takes
eight requests: upload f and g, share both, download f (now the scores differ),
delete f (`ZLEXCOUNT` misses it: `del_file` goes by the mark, deletes the share and
takes one off the total, but leaves the member in Redis, for `flag` is not set,
`dealfile_cgi.c:362`), upload f again, delete it: now `ZLEXCOUNT` finds the old member,
and one is taken off the total for no share. From then on the mark of a file can be
wrong too, and a ranking can lack files. `past.leftBehind` and `past.misled` name the
two deletions, so that `TotalCountsShares`, `SharedMarkIsRow`, `RankingIsExact` and
`RankingFailsOnlyNameless` say all that holds: `MCOneUser` has the requests to get there.

## 4. Fairness

`FairSpec` assumes weak fairness of each of the five processes: they are
processes of the operating system, every call they make returns or fails, and a
handler always has a next statement until it has answered. No fairness is assumed
of clients, faults or restarts. Under it `EveryRequestIsAnswered` holds, with the
ranking as the case that needs an argument: it makes two calls per member it read
at once by ZREVRANGE, so that members coming and going meanwhile do not prolong it.

`FairHostSpec` assumes the same of every process of upload's tree: the programs,
their copies and the tools. A `read` from a pipe is enabled only when its write
ends are closed, and an `accept` needs no fairness, since clients owe nothing.
Under it `UploadEnds` holds: the upload is answered, or no process has it any more
because one crashed or was killed.

## 5. What is proved

TLAPS checks the following for all sets of users, contents and names, and for
all bounds. Those that have hypotheses of their own are marked; the others hold with and
without `Careful` and `Serialized`. "One at a time" is `OneAtATime`: `MaxBusy <= 1`
and no faults, the requests and their order still being arbitrary.

| theorem | module | statement |
|---|---|---|
| `TypeCorrect` | `CloudDiskTypes` | `Spec => []TypeOK` |
| `CountsStayPositive` | `CloudDiskProofs` | `Spec => []CountsPositive` |
| `SharesStaySingle` | `CloudDiskProofs` | `Spec => []OneShareRowPerFile` |
| `DriftStaysWithinFaults` | `CloudDiskProofs` | `Spec => []DriftWithinFaults`, if `Careful` and `Serialized` |
| `SharedStaysRanked` | `CloudDiskProofs` | `Spec => []SharedIsRanked`, without faults and cancels, and with one user if files are deleted |
| `ListedStaysStored` | `CloudDiskLife` | `Spec => []StoredWhenListed` |
| `SessionTypes` | `SessionProofs` | `Spec => []TypeOK`, of `Session` |
| `AcceptedStaysRegistered` | `SessionProofs` | `Spec => []AcceptedIsRegistered` |
| `RegisteredStaysAdmitted` | `SessionProofs` | `Spec => RegisteredIsAdmitted`, an action property |
| `LastAnswerStaysStored` | `SessionProofs` | `Spec => []LastAnswerIsStored` |
| `BlobsLive` | `CloudDiskLife` | `Spec => BlobsLiveOnce`: `CloudDisk` implements `BlobLife` |
| `SharesSurviveForgetting` | `CloudDiskPagesProofs` | `PagesSpec => []OneShareRowPerFile`, also with a Redis that comes back empty |
| `BlobsSurviveForgetting` | `CloudDiskPagesProofs` | `PagesSpec => BlobsLiveOnce`, also with such a Redis |
| `PagesStayTyped` | `CloudDiskPagesProofs` | `PagesSpec => []MyFilesTypeOK` |
| `NamesStayWithMembers` | `CloudDiskPagesProofs` | `PagesSpec => []NamesFollowMembers`, one at a time |
| `ScoreStaysWithinPv` | `CloudDiskPagesProofs` | `PagesSpec => []ScoreWithinPv`, one at a time |
| `TotalFollowsShares` | `CloudDiskSharing` | `PagesSpec => []TotalCountsShares`, one at a time, one user, `Careful` |
| `MarksFollowShares` | `CloudDiskSharing` | `PagesSpec => []SharedMarkIsRow`, likewise |
| `RankingStaysExact` | `CloudDiskSharing` | `PagesSpec => []RankingIsExact`, likewise |
| `RankingFailsNamelessAlways` | `CloudDiskSharing` | `PagesSpec => []RankingFailsOnlyNameless`, likewise |
| `NothingIsOrphaned` | `CloudDiskSharing` | `PagesSpec => []NoOrphans`, one at a time, `Careful`, `OneOwnerEach` |
| `FilesStayShown` | `CloudDiskSharing` | `PagesSpec => []FilesAreShown`, likewise |
| `HostTypes` | `UploadHostProofs` | `HostSpec => []HostTypeOK` |
| `RowsStaySent` | `UploadHostProofs` | `HostSpec => []RowsAreSent` |
| `OneRowStays` | `UploadHostProofs` | `HostSpec => []OneRowPerUpload` |
| `OneAlwaysServes` | `UploadHostProofs` | `HostSpec => []OneServes` |
| `HostBlobsLive` | `UploadHostLife` | `HostSpec => HostBlobsLiveOnce`: `UploadHost` implements `BlobLife` |
| `RowsStayComplete` | `UploadHostLife` | `HostSpec => []RowsAreComplete` |
| `LeftStaysWithinFaults` | `UploadHostLife` | `HostSpec => []LeftWithinFaults` |
| `AnsweredOnceStays` | `UploadHostLife` | `HostSpec => []AnsweredOnce` |

The assumptions are those the modules state: `ShareTotal` is not a user, `None`
is no value, bounds and lifetimes are naturals, the commands served are known; and
of `UploadHost` that `None` is no content, number or process (`NoneIsNoContent`,
`NoneIsNoProcess`), that there may be one process at least, and that no content has
the byte `b` of the boundary (`BoundaryIsNoContent`: browsers choose a boundary that
the content does not contain).

*Types.* `TypeOK` alone is not inductive: a step that reads `upload.file.md5`
needs to know that a program at work has a file. `Typed` adds, for each program,
what its locals are at each statement (`UploadLocals`, ... say that user and file
are set while at work and a count is a number where it is used). `CloudDiskTypes` first
states for every statement operator that it keeps the type of the stores; each
program then has one lemma for its steps, one for its faults, and `NextTyped`
puts them together.

*Counters.* For users outside `misread`, `CountsInv` says that a counter is at least 1, and that whoever is
about to write one back holds a read of at least 1 (`None` or at least 1 for the
increments). A deletion that read 1 deletes the row; one that read more writes at
least 1. So no stale read does harm to this property, although it makes the
number wrong.

*Shares.* Between the SELECT that found no share row and the INSERT, `SharesInv`
keeps the file unshared, unless that SELECT failed and the file is in `misread`: only
dealfile inserts, and it is the process that waits. Redis does not occur in the argument, which is why its inexact answer does
no harm here.

*Drift.* `Drift` is a user's counter less the user's rows plus what is `Owed`: 1
while a program has moved one of the two and not yet the other. `DriftInv` keeps it
within the faults: a fault in between forgets what is owed, which is one, and
nothing else changes it. A SELECT that fails unnoticed is a fault of this kind, or
takes the user out of the claim when it is the one on the counter. This needs that what a program read of the user's rows and
counter is still so when it writes (`UploadKnows`, `InstantKnows`, `DealKnows`), hence
`ServedOnce`: of the three programs that write them one serves the user, the others
leave these rows alone (`Calm`). `Serialized` gives `ServedOnce`; `Careful` keeps out the
deletion of a file that is not listed, which takes one off a counter, and the upload
of a listed one, which adds a second row.

*The ranking.* `RankedInv` says of each shared file where its member and its name
are: in Redis, or still to come, from the share that inserted the row
or from the ranking that emptied Redis. A ranking between its two deletions and its
SELECT will find every row there is; after the SELECT its rows are those of the shares
then, and the share inserted since has its ZADD and HSET to come. Only a deletion
takes a member or name away, and its file is shared no more. With two users that
is not so: `del_file` removes from Redis what its own user has perhaps not shared,
which is why the theorem has one user as soon as there are deletions, and `cancel`
would break off. `RankedInv` was checked by TLC with one user and deletions, and with
two users and none, before it was proved.

*Blobs.* `BlobsInv` says that ids in use are ids given out, that two rows (and
the blob upload holds in its hand) never have the same id, and that between the
deletion of the rows and the removal of the blob no row names it.

*Life of the blobs.* `LifeOf` computes what became of a blob from the tables, the
storage and what upload has in hand. By `BlobsInv` a step that inserts a row lists
a blob that was stored and not listed, a deletion drops the blobs of all rows of
its content, and the one id that dealfile removes has no row any more. Each
program has a lemma that takes its steps to `List`, `Drop`, `GiveUp`, `Remove`,
`StoreNew` or a stutter.

*A Redis that forgets.* Steps of `myfiles` are stutters of `CloudDisk`, and
`RedisForgets` changes the sorted set and the hash only, which none of `CountsInv`,
`SharesInv`, `BlobsInv` and `LifeOf` mentions; that it keeps the types is all that is left
to show. For `MyFilesTypeOK`, `MyFilesLocals` says that a program at work has a user.

*One request after the other.* `AloneInv` says that at least five of the six programs
are at rest, and `OneMoves` what a step can then be: a client asks while all rest, one
program moves while the others rest, somebody starts dealsharefile again, or Redis
forgets. The theorems below go through these cases. `NamesInv` adds to
`NamesFollowMembers` the statements between which a member and its name come and go:
the HDEL that follows a ZREM, the HSET that follows a ZADD. `ScoreInv` says that the pv
a download read is still the pv, and that a share at its ZADD may find the score of an
older member, which it then sets to 0; the score of a ranked file may therefore be
below the pv (a download that found no member adds it with its own pv, a second share
puts it back with 0) and never above.

*The shares of one user.* `SharingInv` holds until `past.misled`. It has four parts:
`TotalInv`, the total and the statements under way that will still move it (`Behind`)
make up the number of shared files; `SharingKnows`, what the program at work knows
(a share past its SELECT is of an unshared file, a cancel of a shared one, and a deletion
that decided to delete a share has one to delete); `MarkInv`, marks and shares agree but
at the file in hand, or one whose cancel died; `LeftInv`, what is in Redis is shared, was
left behind, or leaves with the next statements. The parts need each other: the total
is right because the deletion decided rightly, which it did because Redis holds no file
that is not shared (unless left behind: then the deletion is misled) and because the
mark is right where Redis says nothing. `Careful` brings the uploads of files that are
not there already, and with them a mark 0; `CountsInOrder`, from `DriftInv` without
faults, says that the user's own counter does not break a deletion off half way.
`ShareTotal` is read with a count of rows: a file has one share row (`SharesInv`), so
that rows and files are equally many (`RowsAreFiles`).

*An exact ranking.* `ExactInv`: what is ranked equals what is shared, or a file left
behind is ranked. Here is where `ZCARD` agreeing with the total is used: without a file left
behind the ranked files are among the shared ones, and a finite set has no proper
subset of its size (`SameNumberSameFiles`). After a reload the two are equal again. A
reload writes a name with each member, so that HGET fails only for a member that came
back alone (`NamesInv`).

*The contents and their blobs.* `OneOwnerEach` says that no content gets a second owner:
`md5` is not served, or there is one user with one name for each content. It has to be
there, since a deletion with a second owner takes two off `file_info.count`
(`dealfile_cgi.c:403-404`, see `MCRefCount`), after which the count
relates to no number of rows. `ContentInv` keeps the two tables and the storage
together. `RowsInv`: a content has at most one row, an owned one has a row that counts
one owner, and a row without an owner is one that upload has inserted and not yet
listed, or one that a deletion is about to remove. `UploadContent`, `InstantContent`
and `DelContent` say what the program at work knows of its content: upload finds no row
and inserts the only one, md5 finds none and answers, a deletion reads the count 1,
finds nobody left and holds the id of the row it deletes. `StoredInv`: the storage is what
`file_info` lists, with the blob that upload has stored and not listed, and the one that a
deletion has unlisted and not removed. With all programs at rest these exceptions are
void, which is `NoOrphans`.

*What myfiles shows.* With `OneRowPerFile` (of `DriftInv`) and `RowsInv` the join has
one row for each listed file (`JoinIsRows`, a bijection between the two), the
counter is the number of rows (`CountIsCard`, nobody owes anything while `myfiles` is at
work), and a page that may be as long as the join is the join (`WholePage`).
`MyFilesKnows` holds this in the reply until it is sent: no other program writes the
tables meanwhile (`ShownTablesStay`), and what Redis forgets is not read.

*Upload's process tree.* The invariant is `HostInv`. `HandsInv` says what a process
has in hand: a request that was sent, and an id only of what that request sent.
`ReadsInv` and `FamilyInv` tie a program that reads to its child and every child to
its parent: a child that has not run its tool is a copy of its parent, and what a
zombie has written is the id of what its parent sent. `FileInv` says that the local
file, from the save to the tool, is what this program saved (any bytes for an upload in `spoilt`); this is where copies
could do harm, and `ServesInv` is why they do not: of all programs one at most does
not wait for a copy, so that nobody else writes the directory meanwhile. A tool
that was orphaned by `kill -9` may store anything; `HandsInv` shows that its id
reaches nobody. `SpentInv` is what makes `OneRowPerUpload` inductive: once a row is
inserted, every other program with that request is past the insert or waits for
an output that does not come. `RowsAreSent` needs, besides, that `memstr` finds
the boundary and nothing before it (`BoundaryFound`, `ReceivedIsSent`), also when
the content ends in `-` or contains it. `OneServes` adds `RankInv`: there is a rank that falls
along each wait for a copy, since a fork takes a pid that nobody waits for, so
that the waits end in a program that serves (by well-founded induction on the ranks).
For `HostBlobsLive` the lemmas `...FindsNone` show that no step gives a process an
id that nobody had, except the tool that stored it.

*What failures leave behind.* Three invariants charge what is left to failures that
were counted. They rest on `HostDoes`, which tells each step of `HostNext` once more as
what it does to each process, and on `UrlInv` (a program has an url only with an id, and
comes to the insert only after it asked for the url). `LackInv` counts uploads, not rows: those that
have no url, in the row or in the program about to insert it, and those that a program
goes on with although it has no id; together they are no more than the `execlp` that
failed, since only a copy that goes on adds one. `OneRowPerUpload` makes the rows an
injection into the uploads, which is `RowsAreComplete`. `LeakInv` counts for each
program its descriptors and the zombies it will not wait for; a program that will read no id
has its descriptor and zombie charged already (`Failed`), when its tool failed or its child
became a copy. `KeptInv`: the files in the directory, but for those whose program will still
remove them, are no more than the faults; who holds a file (`Holds`) passes it on to the
copy, removes it, or a fault is counted.

*Second answers.* When a program answers, every other one waits for a copy of its own
(`OthersHaveCopies`). One with the same upload that wants the url is `Doomed`: it
crashes when it has waited. One that wants the id will answer 009 when its copy ends,
but then the copy had no id, and for the copy to answer at all something had to fail
besides the `execlp` (`CopyInv`, `IdlessInv`). `TroubleInv` is the last step: a copy
ends only by a crash, and while such a program waits, none is about to crash unless a
third failure made it so; if it lacks its id, an `execlp` of another upload did.

*Sessions.* `Rows` follows the row of a user: a key in Redis, a login past its
SELECT, an accepted token, an answer 002 that is about to go out and every answer
002 that went out have a row behind them, the last two with the password that was
sent; but for the users in `blank`, who get as far without. `RowsStay` is the reason it is inductive: nothing changes a row, for the
only write is an INSERT that the unique keys refuse when there is one. `Answered`
adds that a login about to answer holds the token that is stored; it needs that
there is no fault, since a login killed after SETEX replaces a token silently.

The first four invariants (`Typed`, `CountsInv`, `SharesInv`, `BlobsInv`) were checked
by TLC as invariants of `MCInterleaved` before they were proved, `DriftInv` as one of
`MCPerUser`; the invariants of the theorems for one request at a time as invariants of
the instance of `MCOneUser`.

Only model-checked: liveness (`EveryRequestIsAnswered`, `UploadEnds`), which is out
of reach of the prover. Every invariant and every other property of the passing runs
is stated by a theorem.

## 6. Plan

1. `UploadCgi` as an abstraction of `UploadHost`, so that the copies meet the other
   tables too.
2. The list of a content that was uploaded twice, which `myfiles` shows twice.

## 7. Not modelled

- Paging (`start`, `count`) of the shared lists, and `start` in `myfiles`; the
  formatting of all lists. A page of shared files here holds every row. The
  column order of the share list, which differs from the table's, is formatting.
- Requests that fail before the first statement (a refused token; bad JSON, where that
  is looked at): they change no store. `login` does not look (`login_cgi.c:222`), and its
  requests without a password are in `Session`.
- The request buffers that dealfile and dealsharefile keep between requests
  (`dealfile_cgi.c:510-514`, `dealsharefile_cgi.c:397-400`): a request that lacks a
  field runs with that of the request before, and is for the stores a request for
  another user or file, which the runs and theorems without `Careful` admit.
- The header lines of an upload (`upload_cgi.c:100-156`), read with `strstr` and
  without a check, and `trim_space`, `query_parse_key_value`, `get_file_suffix`:
  they shape texts that no state depends on. `string_replace`, `base64_decode`,
  `DesDec` and `upload_to_dstorage_1` are never called.
- A tool that is killed, or hangs, by itself: `ToolFails` stands for one that ends
  without output, and `UploadEnds` assumes that a tool ends.
- `cfg.c` (read once at the start), `make_log.c` (appended under a mutex, read by
  nobody; it formats a line into 4096 bytes, so that myfiles and sharefiles, which log a
  whole list, may die of a long one: they keep nothing, and `MyFilesDies` and `Killed`
  have the same effect), `cJSON.c` and `md5.c` (third-party), `des.c` and `base64.c` (the
  arithmetic of the token), the scripts of third-party servers.
- A Redis that dies with the tokens of `Session` (`CloudDiskPages` has it for the shared
  files).
- Integer width: counts come from `int(11)` columns and grow by one per request.
