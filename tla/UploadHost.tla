------------------------------ MODULE UploadHost ------------------------------
(***************************************************************************)
(* What bin_cgi/upload does on its own machine before it writes the tables *)
(* (src_cgi/upload_cgi.c): it saves the body under the file's name in its  *)
(* working directory, forks fdfs_upload_file to store it, reads the file   *)
(* id from a pipe, removes the file, forks fdfs_file_info for the url, and *)
(* inserts the row.  UploadCgi has all of this as the one step that yields *)
(* an id or fails, and has the other tables.                               *)
(*                                                                         *)
(* A forked child whose execlp fails does not exit.  It returns from the   *)
(* function as if it had succeeded, finishes the request, answers it and   *)
(* stays as a program that serves, while its parent waits for its output.  *)
(***************************************************************************)
EXTENDS Integers, Sequences, FiniteSets

CONSTANTS
  Names,        \* file names
  Bytes,        \* what contents are made of; the boundary's "-" may be one
  None,         \* no process, no file, no output
  MaxLen,       \* bound: the length of a content
  MaxPid,       \* bound: the processes there are at once
  MaxRequests,  \* bound: how many uploads clients send
  MaxFaults     \* bound: how many calls fail or programs are killed

ASSUME BoundsAreNat == MaxLen \in Nat /\ MaxPid \in Nat \ {0}
                         /\ MaxRequests \in Nat /\ MaxFaults \in Nat
(* What files are made of: a byte that was never written is zero. *)
Octets == Bytes \cup {"NUL"}

ASSUME NoneIsNoContent == None \notin Seq(Octets) /\ None \notin Nat
ASSUME BoundaryIsNoContent == "b" \notin Bytes   \* browsers see to that

Contents == UNION {[1..n -> Bytes] : n \in 1..MaxLen}
Pids     == 1..MaxPid

VARIABLES
  proc,       \* per pid: the process, or None
  dir,        \* the working directory: per name the file's content, or None
  blobs,      \* FastDFS: the contents it was given; an id is an index
  rows,       \* file_info: the rows inserted
  sent,       \* the uploads so far
  answers,    \* per upload: what it was answered
  spoilt,     \* the uploads whose file was not written as it should be
  execFails,  \* how many execlp failed
  faults      \* how many calls failed or programs were killed

hostVars ==
  <<proc, dir, blobs, rows, sent, answers, spoilt, execFails, faults>>

(* Before it runs a program, "exec", a child is a copy of its parent.      *)
Serves == {"accept", "save", "fork", "exec", "read", "wait", "unlink",
           "insert", "reply"}

Processes ==
  [pc: Serves \cup {"tool", "zombie"},
   parent: {0} \cup Pids,           \* 0: init
   child:  {0} \cup Pids,           \* the one whose output is read
   wants:  {"id", "url"},           \* which tool that is
   req:    Nat,                     \* the upload it serves, 0: none
   id:     Nat,                     \* fieldid, 0: empty
   url:    BOOLEAN,                 \* fdfs_file_url is filled
   out:    Nat \cup {None},         \* what it wrote into the pipe
   leaked: Nat,                     \* descriptors it forgot to close
   code:   {"", "008", "009"}]

ASSUME NoneIsNoProcess == None \notin Processes

Fresh == [pc |-> "accept", parent |-> 0, child |-> 0, wants |-> "id",
          req |-> 0, id |-> 0, url |-> FALSE, out |-> None, leaked |-> 0,
          code |-> ""]

HostTypeOK ==
  /\ proc      \in [Pids -> Processes \cup {None}]
  /\ dir       \in [Names -> Seq(Octets) \cup {None}]
  /\ blobs     \in Seq(Seq(Octets))
  /\ rows      \in Seq([req: Nat, id: Nat, url: BOOLEAN])
  /\ sent      \in Seq([name: Names, content: Contents])
  /\ answers   \in [1..MaxRequests -> Seq({"008", "009"})]
  /\ spoilt    \in SUBSET Nat
  /\ execFails \in 0..faults
  /\ faults    \in 0..MaxFaults

HostInit ==
  /\ proc      = [p \in Pids |-> IF p = 1 THEN Fresh ELSE None]
  /\ dir       = [n \in Names |-> None]
  /\ blobs     = <<>>
  /\ rows      = <<>>
  /\ sent      = <<>>
  /\ answers   = [r \in 1..MaxRequests |-> <<>>]
  /\ spoilt    = {}
  /\ execFails = 0
  /\ faults    = 0

-----------------------------------------------------------------------------
(* Processes *)

Alive    == {p \in Pids : proc[p] # None}
Programs == {p \in Alive : proc[p].pc \in Serves}
Free     == Pids \ Alive
LeastOf(S) == CHOOSE p \in S : \A q \in S : p <= q

At(p, pc)  == p \in Alive /\ proc[p].pc = pc
NameOf(p)  == sent[proc[p].req].name

Goes(p, pc)      == proc' = [proc EXCEPT ![p].pc = pc]
Replies(p, code) == proc' = [proc EXCEPT ![p].pc = "reply", ![p].code = code]

(* When the processes S end: their children become init's, which waits for *)
(* them, and the zombies of other parents stay until those wait.           *)
Ended(S) ==
  [p \in Pids |->
     CASE p \in S /\ proc[p].parent \in Alive \ S
            -> [Fresh EXCEPT !.pc = "zombie", !.parent = proc[p].parent]
       [] p \in S /\ proc[p].parent \notin Alive \ S -> None
       [] p \in Alive \ S /\ proc[p].parent \in S
            -> IF proc[p].pc = "zombie" THEN None
               ELSE [proc[p] EXCEPT !.parent = 0]
       [] OTHER -> proc[p]]

-----------------------------------------------------------------------------
(* recv_save_file *)

CRLF     == <<"CR", "LF">>
Boundary == <<"-", "-", "b">>

Body(content) == content \o CRLF \o Boundary \o <<"-", "-">>

(* The index of the first occurrence; the callers' text has one. *)
memstr(text, sub) ==
  LeastOf({i \in 1..(Len(text) - Len(sub) + 1) :
             SubSeq(text, i, i + Len(sub) - 1) = sub})

(* Slip: the line end before the boundary is taken for content. *)
ReceivedRaw(content) ==
  SubSeq(Body(content), 1, memstr(Body(content), Boundary) - 1)

(* From the first byte after the headers to two before the boundary *)
Received(content) ==
  SubSeq(Body(content), 1, memstr(Body(content), Boundary) - 1 - Len(CRLF))

Truncated(file, n) ==
  [i \in 1..n |-> IF i <= Len(file) THEN file[i] ELSE "NUL"]
WrittenOver(file, text) ==
  text \o SubSeq(file, Len(text) + 1, Len(file))

Accept(p, n, c) ==
  /\ At(p, "accept") /\ Len(sent) < MaxRequests
  /\ sent' = Append(sent, [name |-> n, content |-> c])
  /\ proc' = [proc EXCEPT ![p].pc = "save", ![p].req = Len(sent) + 1]
  /\ UNCHANGED <<dir, blobs, rows, answers, spoilt, execFails, faults>>

(* Slip: the file is not truncated. *)
SaveOver(p) ==
  /\ At(p, "save")
  /\ LET text == Received(sent[proc[p].req].content)
         file == IF dir[NameOf(p)] = None THEN <<>> ELSE dir[NameOf(p)]
     IN dir' = [dir EXCEPT ![NameOf(p)] = WrittenOver(file, text)]
  /\ Goes(p, "fork")
  /\ UNCHANGED <<blobs, rows, sent, answers, spoilt, execFails, faults>>

(* open, ftruncate, write: a file of that name that is there is reused *)
Save(p) ==
  /\ At(p, "save")
  /\ LET text == Received(sent[proc[p].req].content)
         file == IF dir[NameOf(p)] = None THEN <<>> ELSE dir[NameOf(p)]
     IN dir' = [dir EXCEPT ![NameOf(p)] =
                  WrittenOver(Truncated(file, Len(text)), text)]
  /\ Goes(p, "fork")
  /\ UNCHANGED <<blobs, rows, sent, answers, spoilt, execFails, faults>>

(* ftruncate, or write after n of the bytes, fails, and nobody asks. *)
SaveSpoils(p) ==
  /\ At(p, "save") /\ faults < MaxFaults
  /\ LET text == Received(sent[proc[p].req].content)
         file == IF dir[NameOf(p)] = None THEN <<>> ELSE dir[NameOf(p)]
         full == Truncated(file, Len(text))
     IN \E n \in 0..Len(text), cut \in {file, full} :
          /\ n = Len(text) => cut # full
          /\ dir' = [dir EXCEPT ![NameOf(p)] =
                       WrittenOver(cut, SubSeq(text, 1, n))]
  /\ Goes(p, "fork")
  /\ spoilt' = spoilt \cup {proc[p].req}
  /\ faults' = faults + 1
  /\ UNCHANGED <<blobs, rows, sent, answers, execFails>>

-----------------------------------------------------------------------------
(* upload_to_dstorage (wants "id") and make_file_url (wants "url") *)

(* The child has the pipe's write end for its stdout, and the parent       *)
(* closes its own, so that the parent reads the end of the file when the   *)
(* child is gone.                                                          *)
Fork(p) ==
  /\ At(p, "fork") /\ Free # {}
  /\ LET c == LeastOf(Free)
     IN proc' = [proc EXCEPT
          ![p] = [@ EXCEPT !.pc = "read", !.child = c],
          ![c] = [proc[p] EXCEPT !.pc = "exec", !.parent = p, !.child = 0]]
  /\ UNCHANGED <<dir, blobs, rows, sent, answers, spoilt, execFails, faults>>

Exec(c) ==
  /\ At(c, "exec")
  /\ Goes(c, "tool")
  /\ UNCHANGED <<dir, blobs, rows, sent, answers, spoilt, execFails, faults>>

(* The child goes on where its parent would: with no id, or with no url.   *)
ExecFails(c) ==
  /\ At(c, "exec") /\ faults < MaxFaults
  /\ Goes(c, IF proc[c].wants = "id" THEN "unlink" ELSE "insert")
  /\ execFails' = execFails + 1
  /\ faults' = faults + 1
  /\ UNCHANGED <<dir, blobs, rows, sent, answers, spoilt>>

(* fdfs_upload_file stores the file that has the name now and prints its   *)
(* id; fdfs_file_info prints where the id is.  Then they exit.             *)
ExitsWith(c, out) ==
  proc' = [Ended({c}) EXCEPT ![c] =
             IF @ = None THEN None ELSE [@ EXCEPT !.out = out]]

Tool(c) ==
  /\ At(c, "tool")
  /\ IF proc[c].wants = "id" /\ dir[NameOf(c)] # None
     THEN /\ blobs' = Append(blobs, dir[NameOf(c)])
          /\ ExitsWith(c, Len(blobs) + 1)
     ELSE /\ ExitsWith(c, IF proc[c].id = 0 THEN None ELSE proc[c].id)
          /\ UNCHANGED blobs
  /\ UNCHANGED <<dir, rows, sent, answers, spoilt, execFails, faults>>

ToolFails(c) ==
  /\ At(c, "tool") /\ faults < MaxFaults
  /\ ExitsWith(c, None)
  /\ faults' = faults + 1
  /\ UNCHANGED <<dir, blobs, rows, sent, answers, spoilt, execFails>>

(* fieldid keeps what it held when there is nothing to read. *)
ReadId(p, c) ==
  LET id == IF proc[c].out = None THEN proc[p].id ELSE proc[c].out
  IN proc' = IF id = 0
             THEN [proc EXCEPT
                     ![p] = [proc[p] EXCEPT !.pc = "reply", !.code = "009",
                                            !.leaked = @ + 1]]
             ELSE [proc EXCEPT ![p].pc = "wait", ![p].id = id, ![c].out = None]

ReadUrl(p, c) ==
  proc' = [proc EXCEPT ![p].pc = "wait", ![p].url = proc[c].out # None,
                       ![c].out = None]

(* Slip: the parent keeps its write end, and never reads the end of file.  *)
ReadForEver(p) ==
  /\ At(p, "read") /\ proc[proc[p].child].out # None
  /\ IF proc[p].wants = "id" THEN ReadId(p, proc[p].child)
                             ELSE ReadUrl(p, proc[p].child)
  /\ UNCHANGED <<dir, blobs, rows, sent, answers, spoilt, execFails, faults>>

(* Slip: a child whose execlp fails closes its stdout with the pipe.       *)
ReadClosed(p) ==
  /\ At(p, "read")
  /\ proc[proc[p].child].pc \notin {"exec", "tool"}
  /\ IF proc[p].wants = "id" THEN ReadId(p, proc[p].child)
                             ELSE ReadUrl(p, proc[p].child)
  /\ UNCHANGED <<dir, blobs, rows, sent, answers, spoilt, execFails, faults>>

(* The child is gone, and what it wrote, if anything, is read.  With no id *)
(* the handler leaves without wait and close.                              *)
Read(p) ==
  /\ At(p, "read") /\ At(proc[p].child, "zombie")
  /\ IF proc[p].wants = "id" THEN ReadId(p, proc[p].child)
                             ELSE ReadUrl(p, proc[p].child)
  /\ UNCHANGED <<dir, blobs, rows, sent, answers, spoilt, execFails, faults>>

Reaped(p) == {c \in Alive : proc[c].pc = "zombie" /\ proc[c].parent = p}

(* wait(NULL) takes any child that ended. *)
WaitGoes(p, pc) ==
  /\ At(p, "wait")
  /\ \E c \in Reaped(p) :
       proc' = [proc EXCEPT ![c] = None, ![p].pc = pc, ![p].child = 0]
  /\ UNCHANGED <<dir, blobs, rows, sent, answers, spoilt, execFails, faults>>

WaitId(p)  == At(p, "wait") /\ proc[p].wants = "id" /\ WaitGoes(p, "unlink")

(* Slip: without an address the url stays empty and the handler goes on. *)
WaitUrlAnyhow(p) ==
  At(p, "wait") /\ proc[p].wants = "url" /\ WaitGoes(p, "insert")

WaitUrl(p) == /\ At(p, "wait") /\ proc[p].wants = "url" /\ proc[p].url
              /\ WaitGoes(p, "insert")

(* strstr finds no "source ip address: " and the null pointer is read. *)
Crash(p) ==
  /\ At(p, "wait") /\ proc[p].wants = "url" /\ ~proc[p].url
  /\ proc' = Ended({p})
  /\ UNCHANGED <<dir, blobs, rows, sent, answers, spoilt, execFails, faults>>

-----------------------------------------------------------------------------
(* The rest of main *)

(* Slip: the local file stays. *)
UnlinkNot(p) ==
  /\ At(p, "unlink")
  /\ proc' = [proc EXCEPT ![p].pc = "fork", ![p].wants = "url"]
  /\ UNCHANGED <<dir, blobs, rows, sent, answers, spoilt, execFails, faults>>

Unlink(p) ==
  /\ At(p, "unlink")
  /\ dir' = [dir EXCEPT ![NameOf(p)] = None]
  /\ proc' = [proc EXCEPT ![p].pc = "fork", ![p].wants = "url"]
  /\ UNCHANGED <<blobs, rows, sent, answers, spoilt, execFails, faults>>

Insert(p) ==
  /\ At(p, "insert")
  /\ rows' = Append(rows, [req |-> proc[p].req, id |-> proc[p].id,
                           url |-> proc[p].url])
  /\ Replies(p, "008")
  /\ UNCHANGED <<dir, blobs, sent, answers, spoilt, execFails, faults>>

(* Slip: fieldid is not cleared. *)
ReplyKeepsId(p) ==
  /\ At(p, "reply")
  /\ answers' = [answers EXCEPT ![proc[p].req] = Append(@, proc[p].code)]
  /\ proc' = [proc EXCEPT ![p] = [Fresh EXCEPT !.parent = proc[p].parent,
                                               !.leaked = proc[p].leaked,
                                               !.id     = proc[p].id]]
  /\ UNCHANGED <<dir, blobs, rows, sent, spoilt, execFails, faults>>

(* The answer is printed and the buffers are cleared. *)
Reply(p) ==
  /\ At(p, "reply")
  /\ answers' = [answers EXCEPT ![proc[p].req] = Append(@, proc[p].code)]
  /\ proc' = [proc EXCEPT ![p] = [Fresh EXCEPT !.parent = proc[p].parent,
                                               !.leaked = proc[p].leaked]]
  /\ UNCHANGED <<dir, blobs, rows, sent, spoilt, execFails, faults>>

Step(p) ==
  \/ Save(p)   \/ Fork(p)    \/ Exec(p)  \/ Tool(p)   \/ Read(p)
  \/ WaitId(p) \/ WaitUrl(p) \/ Crash(p) \/ Unlink(p) \/ Insert(p)
  \/ Reply(p)

-----------------------------------------------------------------------------
(* Faults *)

(* open, pipe or the INSERT fails *)
CallFails(p) ==
  /\ \E pc \in {"save", "fork", "insert"} : At(p, pc)
  /\ faults < MaxFaults
  /\ Replies(p, "009")
  /\ faults' = faults + 1
  /\ UNCHANGED <<dir, blobs, rows, sent, answers, spoilt, execFails>>

(* fork fails: both ends of the pipe stay open *)
ForkFails(p) ==
  /\ At(p, "fork") /\ faults < MaxFaults
  /\ proc' = [proc EXCEPT
                ![p] = [proc[p] EXCEPT !.pc = "reply", !.code = "009",
                                       !.leaked = @ + 2]]
  /\ faults' = faults + 1
  /\ UNCHANGED <<dir, blobs, rows, sent, answers, spoilt, execFails>>

(* fcgi.sh kills what is called bin_cgi/upload, and starts one. *)
Restarts ==
  LET left == Ended(Programs)
  IN proc' = [left EXCEPT ![LeastOf({p \in Pids : left[p] = None})] = Fresh]

Killed ==
  /\ Programs # {} /\ faults < MaxFaults
  /\ Restarts
  /\ faults' = faults + 1
  /\ UNCHANGED <<dir, blobs, rows, sent, answers, spoilt, execFails>>

Restarted ==
  /\ Programs = {} /\ Free # {}
  /\ Restarts
  /\ UNCHANGED <<dir, blobs, rows, sent, answers, spoilt, execFails, faults>>

(* The clients have sent all that the bound admits. *)
Done ==
  /\ Len(sent) = MaxRequests
  /\ \E p \in Pids : At(p, "accept")
  /\ \A p \in Pids : ~At(p, "tool")
  /\ UNCHANGED hostVars

HostNext ==
  \/ \E p \in Pids : \/ \E n \in Names, c \in Contents : Accept(p, n, c)
                     \/ Step(p)
                     \/ ExecFails(p) \/ ToolFails(p)
                     \/ CallFails(p) \/ ForkFails(p) \/ SaveSpoils(p)
  \/ Killed \/ Restarted \/ Done

HostSpec == HostInit /\ [][HostNext]_hostVars

(* Every process runs, the programs, their copies and the tools. *)
FairHostSpec == HostSpec /\ \A p \in Pids : WF_hostVars(Step(p))
-----------------------------------------------------------------------------
(* What the tables get from the process tree *)

(* A row of file_info names a blob with the content that its upload sent,  *)
(* byte by byte, although uploads of one name share a local file, failed   *)
(* ones leave theirs behind, and a tool outlives the program that kill -9  *)
(* ended: only an upload whose own ftruncate or write failed has others,   *)
(* and what it leaves in the file comes into no later blob.                *)
RowsAreSent ==
  \A i \in DOMAIN rows :
    rows[i].id # 0 /\ rows[i].req \notin spoilt =>
      blobs[rows[i].id] = sent[rows[i].req].content

(* An upload gets one row at most, also when a copy of the program goes on *)
(* with it: the one that waits for the copy never inserts, for it crashes  *)
(* or answers 009 when the copy ends.                                      *)
OneRowPerUpload ==
  \A i, j \in DOMAIN rows : rows[i].req = rows[j].req => i = j

(* A row lacks its url, or its id as well, only by an execlp that failed,  *)
(* one for each: no other failure inserts half of a row.                   *)
RowsAreComplete ==
  Cardinality({i \in DOMAIN rows : ~rows[i].url})
    + Cardinality({i \in DOMAIN rows : rows[i].id = 0}) <= execFails

(* However many copies of the program there are, one of them serves, and   *)
(* the others wait for its end, each for the next.                         *)
WaitsForCopy(p) == At(p, "read") /\ proc[p].child \in Programs

OneServes ==
  Programs # {} => Cardinality({p \in Programs : ~WaitsForCopy(p)}) = 1

(* What failed uploads leave behind is bounded by what failed: two open    *)
(* descriptors, one zombie or one local file for each failure.             *)
LeftWithinFaults ==
  /\ \A p \in Programs :
       proc[p].leaked + Cardinality(Reaped(p) \ {proc[p].child}) <= 2 * faults
  /\ (\A p \in Programs : proc[p].req = 0) =>
       Cardinality({n \in Names : dir[n] # None}) <= faults

(* A second answer to an upload takes three failures: an execlp, what lets *)
(* its copy answer (it has no id, so that the tool for the url would end   *)
(* it), and the crash of the copy in a later upload.  Then the program     *)
(* that waited answers 009.                                                *)
AnsweredOnce ==
  \A r \in DOMAIN answers :
    Len(answers[r]) > 1 => execFails >= 1 /\ faults >= 3

(* An upload comes to an end: it is answered, or no process has it any     *)
(* more.  A parent that waits for its copy does not hold up the answer.    *)
UploadEnds ==
  \A r \in 1..MaxRequests :
    Len(sent) >= r ~>
      answers[r] # <<>> \/ \A p \in Programs : proc[p].req # r

(* The life of a blob: a process has the id until its row is inserted, or  *)
(* its tool has written it where a program reads.                          *)
HasId(p, id) ==
  \/ p \in Programs /\ proc[p].id = id /\ proc[p].pc # "reply"
  \/ At(p, "zombie") /\ proc[p].out = id

HostLifeOf(id) ==
  IF \E i \in DOMAIN rows : rows[i].id = id THEN "listed"
  ELSE IF \E p \in Pids : HasId(p, id)    THEN "stored"
  ELSE "dropped"

HostLife ==
  INSTANCE BlobLife WITH life <- [id \in DOMAIN blobs |-> HostLifeOf(id)]

(* Every step of the process tree is a step in the life of the blobs: one  *)
(* that was given up, by a failure or with the program that asked for it,  *)
(* is never listed, and none that is listed is lost from the table.        *)
HostBlobsLiveOnce == HostLife!LifeSpec
=============================================================================
