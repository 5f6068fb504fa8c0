-------------------------- MODULE UploadHostProofs --------------------------
(***************************************************************************)
(* What holds of UploadHost for all names, contents and bounds: its types, *)
(* RowsAreSent, OneRowPerUpload and OneServes; UploadHostLife goes on to   *)
(* BlobLife.  They rest on one invariant, HostInv, which says what every   *)
(* process knows of the others: a program that reads has a child, a child  *)
(* that has not run its tool yet is a copy of the one that reads, and one  *)
(* program at most does not wait for a copy of itself.                     *)
(***************************************************************************)
EXTENDS UploadHost, FiniteSetTheorems, SequenceTheorems, WellFoundedInduction,
        TLAPS

(* What the file of an upload may hold: what the upload sent, or any bytes *)
(* when ftruncate or write failed.                                         *)
FilesOf(r)    == IF r \in spoilt THEN Seq(Octets) ELSE {sent[r].content}
ContentsOf(p) == FilesOf(proc[p].req)

Forked(p) == At(p, "exec") \/ At(p, "tool")

(* What a process has in hand: an upload that was sent, once it accepted   *)
(* one; the id of what that upload sent, once it stored it; no output.      *)
HandsOf(p) ==
  /\ proc[p].out = None
  /\ IF proc[p].pc = "accept" THEN proc[p].req = 0
                              ELSE proc[p].req \in DOMAIN sent
  /\ proc[p].id # 0 => /\ proc[p].id \in DOMAIN blobs
                       /\ proc[p].req \in DOMAIN sent
                       /\ blobs[proc[p].id] \in ContentsOf(p)
  /\ proc[p].pc \in {"accept", "save"} => proc[p].wants = "id"
  /\ proc[p].wants = "id" =>
       proc[p].id = 0 \/ proc[p].pc \in {"wait", "unlink", "reply"}
  /\ proc[p].pc = "reply" => proc[p].code # ""

HandsInv ==
  \A p \in Pids : p \in Alive /\ proc[p].pc # "zombie" => HandsOf(p)

(* A program that reads, and the child it reads from *)
ReadsFrom(p, c) ==
  /\ c \in Alive /\ proc[c].parent = p
  /\ Forked(c) => /\ proc[c].req   = proc[p].req
                  /\ proc[c].wants = proc[p].wants
                  /\ proc[c].id    = proc[p].id
  /\ At(c, "zombie") /\ proc[c].out # None /\ proc[p].wants = "id" =>
       proc[c].out \in DOMAIN blobs /\ blobs[proc[c].out] \in ContentsOf(p)

ReadsInv ==
  \A p \in Pids : At(p, "read") =>
    ReadsFrom(p, proc[p].child)

(* A parent is a program, and is about to read from a child that has not  *)
(* ended.                                                                  *)
IsParent(p, c) ==
  /\ p \in Programs /\ proc[p].pc # "exec" /\ p # c
  /\ proc[c].pc # "zombie" => At(p, "read") /\ proc[p].child = c

FamilyInv ==
  \A c \in Pids : c \in Alive /\ proc[c].parent # 0 =>
    IsParent(proc[c].parent, c)

(* The file that a tool is going to store is the one its program saved.    *)
FileInv ==
  \A p \in Pids :
    /\ At(p, "fork") \/ (At(p, "read") /\ Forked(proc[p].child))
    /\ proc[p].wants = "id"
    => dir[NameOf(p)] \in ContentsOf(p)

Serving(p) == p \in Programs /\ ~WaitsForCopy(p)

ServesInv == \A p, q \in Pids : Serving(p) /\ Serving(q) => p = q

RowsInv ==
  \A i \in DOMAIN rows :
    /\ rows[i].req \in DOMAIN sent
    /\ rows[i].id # 0 => /\ rows[i].id \in DOMAIN blobs
                         /\ blobs[rows[i].id] \in FilesOf(rows[i].req)

(* A program that will not insert a row any more for the upload it has *)
Spent(p) ==
  \/ At(p, "reply")
  \/ WaitsForCopy(p)
  \/ At(p, "read") /\ At(proc[p].child, "zombie") /\ proc[proc[p].child].out = None
  \/ At(p, "wait") /\ proc[p].wants = "url" /\ ~proc[p].url

SpentInv ==
  \A i \in DOMAIN rows, p \in Programs : proc[p].req = rows[i].req => Spent(p)

HostInv ==
  /\ HostTypeOK
  /\ HandsInv /\ ReadsInv /\ FamilyInv /\ FileInv
  /\ ServesInv
  /\ RowsInv  /\ SpentInv /\ OneRowPerUpload

(* The programs that wait for a copy end in one that does not. *)
RankInv ==
  \E rank \in [Pids -> Nat] :
    \A p \in Pids : WaitsForCopy(p) => rank[proc[p].child] < rank[p]

-----------------------------------------------------------------------------
(* Processes *)

LEMMA ProcTyped ==
  ASSUME HostTypeOK, NEW p \in Alive
  PROVE  proc[p] \in Processes
BY DEF HostTypeOK, Alive

LEMMA ServesIsNoTool == "zombie" \notin Serves /\ "tool" \notin Serves
BY DEF Serves

LEMMA NatAdds == \A k \in Nat : k + 1 \in Nat /\ k + 2 \in Nat
OBVIOUS

(* One program moves on with its locals.  It was not reading, and does not *)
(* read after the move; when it was a copy that has not run its tool yet,  *)
(* it may run it now.                                                      *)
OneMoves(p, r) ==
  /\ p \in Programs /\ proc[p].pc # "read"
  /\ r \in Processes /\ r.pc \in (Serves \ {"read", "exec"}) \cup {"tool"}
  /\ r.parent = proc[p].parent
  /\ r.pc = "tool" => /\ proc[p].pc = "exec"
                      /\ r = [proc[p] EXCEPT !.pc = "tool"]
  /\ proc' = [proc EXCEPT ![p] = r]

LEMMA OneMovesProc ==
  ASSUME HostTypeOK, NEW p \in Pids, NEW r, OneMoves(p, r)
  PROVE  /\ proc' \in [Pids -> Processes \cup {None}]
         /\ proc'[p] = r /\ r # None
         /\ \A q \in Pids : q # p => proc'[q] = proc[q]
         /\ Alive' = Alive
<1>1. /\ proc \in [Pids -> Processes \cup {None}]
      /\ r \in Processes /\ r # None
  BY NoneIsNoProcess DEF HostTypeOK, OneMoves
<1>2. proc[p] # None
  BY DEF OneMoves, Programs, Alive
<1>3. /\ proc' \in [Pids -> Processes \cup {None}]
      /\ proc'[p] = r
      /\ \A q \in Pids : q # p => proc'[q] = proc[q]
  BY <1>1 DEF OneMoves
<1>4. QED
  BY <1>1, <1>2, <1>3 DEF Alive

(* What a file may hold is not taken back. *)
LEMMA FilesStay ==
  ASSUME HostTypeOK, NEW r \in DOMAIN sent, sent'[r] = sent[r],
         spoilt \subseteq spoilt'
  PROVE  FilesOf(r) \subseteq FilesOf(r)'
<1>1. sent[r].content \in Seq(Octets)
  <2>1. sent[r] \in [name: Names, content: Contents]
    BY LenProperties, ElementOfSeq DEF HostTypeOK
  <2>2. Contents \subseteq Seq(Octets)
    BY DEF Contents, Octets
  <2>3. QED
    BY <2>1, <2>2
<1>2. QED
  BY <1>1 DEF FilesOf

LEMMA OneMovesReads ==
  ASSUME HostInv, NEW p \in Pids, NEW r, OneMoves(p, r),
         blobs' = blobs, \A i \in DOMAIN sent : sent'[i] = sent[i],
         spoilt \subseteq spoilt'
  PROVE  ReadsInv'
<1> USE DEF HostInv
<1> SUFFICES ASSUME NEW q \in Pids, At(q, "read")'
             PROVE  ReadsFrom(q, proc[q].child)'
  BY DEF ReadsInv
<1>1. q # p /\ proc'[q] = proc[q] /\ At(q, "read")
  BY OneMovesProc DEF OneMoves, At, Alive, Serves
<1>2. PICK c : c = proc[q].child
  OBVIOUS
<1>3. ReadsFrom(q, c)
  BY <1>1, <1>2 DEF ReadsInv
<1>4. ContentsOf(q) \subseteq ContentsOf(q)'
  <2>1. proc[q].req \in DOMAIN sent
    BY <1>1 DEF HandsInv, HandsOf, At
  <2>2. QED
    BY <1>1, <2>1, FilesStay DEF ContentsOf
<1>5. ReadsFrom(q, c)'
  <2>1. CASE c # p
    <3>1. c \in Alive' /\ c \in Pids /\ proc'[c] = proc[c]
      BY <1>3, <2>1, OneMovesProc DEF ReadsFrom, Alive
    <3>2. QED
      BY <1>1, <1>3, <1>4, <3>1 DEF ReadsFrom, Forked, At
  <2>2. CASE c = p
    <3>1. c \in Alive' /\ proc'[c] = r
      BY <1>3, <2>2, OneMovesProc DEF ReadsFrom, Alive
    <3>2. r.pc # "zombie" /\ r.pc # "exec" /\ r.parent = q
      BY <1>3, <2>2 DEF OneMoves, Serves, ReadsFrom
    <3>3. r.pc = "tool" => /\ Forked(p)
                           /\ r.req = proc[p].req /\ r.wants = proc[p].wants
                           /\ r.id = proc[p].id
      BY ProcTyped DEF OneMoves, Programs, Forked, At, Processes
    <3>4. QED
      BY <1>1, <1>3, <2>2, <3>1, <3>2, <3>3 DEF ReadsFrom, Forked, At
  <2>3. QED
    BY <2>1, <2>2
<1>6. QED
  BY <1>1, <1>2, <1>5

LEMMA OneMovesFamily ==
  ASSUME HostInv, NEW p \in Pids, NEW r, OneMoves(p, r)
  PROVE  FamilyInv'
<1> USE DEF HostInv
<1> SUFFICES ASSUME NEW c \in Pids, c \in Alive', proc'[c].parent # 0
             PROVE  IsParent(proc[c].parent, c)'
  BY DEF FamilyInv
<1>1. c \in Alive /\ proc'[c].parent = proc[c].parent
  BY OneMovesProc DEF OneMoves
<1>2. PICK q : q = proc[c].parent
  OBVIOUS
<1>3. IsParent(q, c)
  BY <1>1, <1>2 DEF FamilyInv
<1>4. CASE q # p
  <2>1. q \in Pids /\ proc'[q] = proc[q] /\ q \in Alive'
    BY <1>3, <1>4, OneMovesProc DEF Programs, Alive, IsParent
  <2>2. proc'[c].pc # "zombie" => proc[c].pc # "zombie"
    BY OneMovesProc DEF OneMoves, Programs, Serves
  <2>3. IsParent(q, c)'
    BY <1>3, <2>1, <2>2 DEF Programs, At, IsParent
  <2>4. QED
    BY <1>1, <1>2, <2>3
<1>5. CASE q = p
  <2>1. proc[c].pc = "zombie" /\ c # p
    BY <1>3, <1>5 DEF OneMoves, At, Programs, Serves, IsParent
  <2>2. proc'[c] = proc[c] /\ proc'[q] = r /\ q \in Alive'
    BY <1>3, <1>5, <2>1, OneMovesProc DEF Programs, IsParent
  <2>3. r.pc \in Serves /\ r.pc # "exec"
    BY <1>3, <1>5 DEF OneMoves, Serves, IsParent
  <2>4. IsParent(q, c)'
    BY <1>3, <2>1, <2>2, <2>3 DEF Programs, IsParent
  <2>5. QED
    BY <1>1, <1>2, <2>4
<1>6. QED
  BY <1>4, <1>5

LEMMA OneMovesServes ==
  ASSUME HostInv, NEW p \in Pids, NEW r, OneMoves(p, r)
  PROVE  ServesInv'
<1> USE DEF HostInv
<1>1. Serving(p)
  BY DEF OneMoves, Serving, WaitsForCopy, At
<1>2. CASE r.pc \in Serves
  <2>1. Programs' = Programs
    BY <1>2, OneMovesProc DEF OneMoves, Programs, Alive
  <2>2. \A q \in Pids : Serving(q)' => Serving(q) \/ q = p
    BY <2>1, OneMovesProc DEF Serving, WaitsForCopy, At, Programs
  <2>3. QED
    BY <1>1, <2>2 DEF ServesInv
<1>3. CASE r.pc = "tool"
  <2>1. Programs' = Programs \ {p}
    BY <1>3, OneMovesProc DEF OneMoves, Programs, Alive, Serves
  <2>2. ASSUME NEW q \in Pids, Serving(q)' PROVE q = proc[p].parent
    <3>1. q # p /\ q \in Programs /\ proc'[q] = proc[q]
      BY <2>1, <2>2, OneMovesProc DEF Serving
    <3>2. WaitsForCopy(q)
      BY <1>1, <3>1 DEF ServesInv, Serving
    <3>3. proc[q].child = p
      BY <2>1, <2>2, <3>1, <3>2 DEF Serving, WaitsForCopy, At, Programs
    <3>4. QED
      BY <3>2, <3>3 DEF ReadsInv, ReadsFrom, WaitsForCopy
  <2>3. QED
    BY <2>2 DEF ServesInv
<1>4. QED
  BY <1>2, <1>3 DEF OneMoves

LEMMA OneMovesHands ==
  ASSUME HostInv, NEW p \in Pids, NEW r, OneMoves(p, r), HandsOf(p)',
         blobs' = blobs, spoilt \subseteq spoilt',
         \A i \in DOMAIN sent : i \in DOMAIN sent' /\ sent'[i] = sent[i]
  PROVE  HandsInv'
<1> USE DEF HostInv
<1> SUFFICES ASSUME NEW q \in Pids, q # p, q \in Alive', proc'[q].pc # "zombie"
             PROVE  HandsOf(q)'
  BY DEF HandsInv
<1>1. q \in Alive /\ proc'[q] = proc[q]
  BY OneMovesProc
<1>2. HandsOf(q)
  BY <1>1 DEF HandsInv
<1>3. proc[q].req \in DOMAIN sent => ContentsOf(q) \subseteq ContentsOf(q)'
  BY <1>1, FilesStay DEF ContentsOf
<1>4. QED
  BY <1>1, <1>2, <1>3 DEF HandsOf

(* The file of a name is written or removed while nobody else needs it.    *)
LEMMA OneMovesFile ==
  ASSUME HostInv, NEW p \in Pids, NEW r, OneMoves(p, r),
         \A i \in DOMAIN sent : i \in DOMAIN sent' /\ sent'[i] = sent[i],
         spoilt \subseteq spoilt', dir' = dir \/ r.pc # "tool",
         r.pc = "fork" /\ r.wants = "id" => dir'[NameOf(p)'] \in ContentsOf(p)'
  PROVE  FileInv'
<1> USE DEF HostInv
<1> SUFFICES ASSUME NEW q \in Pids, q # p, proc'[q].wants = "id",
                    At(q, "fork")' \/ (At(q, "read") /\ Forked(proc[q].child))'
             PROVE  dir'[NameOf(q)'] \in ContentsOf(q)'
  <2>1. At(p, "fork")' => r.pc = "fork"
    BY OneMovesProc DEF At
  <2>2. ~At(p, "read")'
    BY OneMovesProc DEF At, OneMoves, Serves
  <2>3. proc'[p] = r
    BY OneMovesProc
  <2>4. QED
    BY <2>1, <2>2, <2>3 DEF FileInv
<1>1. q \in Alive /\ proc'[q] = proc[q]
  BY OneMovesProc DEF At
<1>2. ContentsOf(q) \subseteq ContentsOf(q)' /\ NameOf(q)' = NameOf(q)
  <2>1. proc[q].req \in DOMAIN sent
    BY <1>1 DEF HandsInv, HandsOf, At
  <2>2. QED
    BY <1>1, <2>1, FilesStay DEF ContentsOf, NameOf
<1>3. Serving(p)
  BY DEF OneMoves, Serving, WaitsForCopy, At
<1>4. ~At(q, "fork")
  BY <1>3 DEF ServesInv, Serving, WaitsForCopy, At, Programs, Serves
<1>5. At(q, "read") /\ Forked(proc[q].child)'
  BY <1>1, <1>4 DEF At
<1>6. PICK c : c = proc[q].child
  OBVIOUS
<1>7. Forked(c)'
  BY <1>1, <1>5, <1>6 DEF Forked, At
<1>8. Forked(c)
  <2>1. c # p => proc'[c] = proc[c] /\ c \in Alive
    BY <1>7, OneMovesProc DEF Forked, At, Alive
  <2>2. c = p => Forked(c)
    BY <1>7, OneMovesProc DEF Forked, At, OneMoves, Serves, Programs
  <2>3. QED
    BY <1>7, <2>1, <2>2 DEF Forked, At
<1>9. dir[NameOf(q)] \in ContentsOf(q)
  BY <1>1, <1>5, <1>6, <1>8 DEF FileInv
<1>10. r.pc = "tool"
  <2>1. c \in Programs
    BY <1>3, <1>5, <1>6 DEF ServesInv, Serving, WaitsForCopy, At, Programs,
      Serves
  <2>2. Serving(c)
    BY <1>8, <2>1 DEF Serving, WaitsForCopy, Forked, At, Programs, Serves
  <2>3. c = p
    BY <1>3, <2>1, <2>2 DEF ServesInv, Programs, Alive
  <2>4. QED
    BY <1>7, <2>3, OneMovesProc DEF Forked, At, OneMoves, Serves
<1>11. QED
  BY <1>2, <1>9, <1>10

LEMMA OneMovesSpent ==
  ASSUME HostInv, NEW p \in Pids, NEW r, OneMoves(p, r),
         \A i \in DOMAIN rows' : rows'[i].req = r.req => r.pc = "reply",
         \A i \in DOMAIN rows' :
           \/ \E j \in DOMAIN rows : rows[j].req = rows'[i].req
           \/ rows'[i].req = proc[p].req
  PROVE  SpentInv'
<1> USE DEF HostInv
<1> SUFFICES ASSUME NEW i \in DOMAIN rows', NEW q \in Pids, q \in Programs',
                    proc'[q].req = rows'[i].req
             PROVE  Spent(q)'
  BY DEF SpentInv, Programs, Alive
<1>1. Serving(p)
  BY DEF OneMoves, Serving, WaitsForCopy, At
<1>2. CASE q = p
  BY <1>2, OneMovesProc DEF Spent, At, Programs
<1>3. CASE q # p
  <2>1. q \in Programs /\ proc'[q] = proc[q] /\ q \in Alive'
    BY <1>3, OneMovesProc DEF Programs
  <2>2. Spent(q) /\ At(q, "read")
    <3>1. WaitsForCopy(q)
      BY <1>1, <1>3, <2>1 DEF ServesInv, Serving
    <3>2. QED
      BY <3>1 DEF Spent, WaitsForCopy
  <2>3. PICK c : c = proc[q].child
    OBVIOUS
  <2>4. ReadsFrom(q, c)
    BY <2>2, <2>3 DEF ReadsInv
  <2>5. CASE c # p
    <3>1. proc'[c] = proc[c] /\ (c \in Alive' <=> c \in Alive)
      BY <2>4, <2>5, OneMovesProc DEF ReadsFrom, Alive
    <3>2. QED
      BY <2>1, <2>2, <2>3, <3>1 DEF Spent, WaitsForCopy, At, Programs
  <2>6. CASE c = p
    <3>1. r.pc # "tool"
      <4>1. SUFFICES ASSUME r.pc = "tool" PROVE FALSE
        OBVIOUS
      <4>2. r.req = proc[p].req /\ Forked(p)
        BY <4>1, ProcTyped DEF OneMoves, Programs, Forked, At, Processes
      <4>3. rows'[i].req = r.req
        BY <2>1, <2>4, <2>6, <4>2 DEF ReadsFrom
      <4>4. QED
        BY <4>1, <4>3
    <3>2. p \in Programs'
      BY <3>1, OneMovesProc DEF OneMoves, Programs
    <3>3. QED
      BY <2>1, <2>2, <2>3, <2>6, <3>2 DEF Spent, WaitsForCopy, At
  <2>7. QED
    BY <2>5, <2>6
<1>4. QED
  BY <1>2, <1>3

LEMMA RowsKeep ==
  ASSUME HostTypeOK, RowsInv, OneRowPerUpload, rows' = rows,
         spoilt \subseteq spoilt',
         \A i \in DOMAIN sent : i \in DOMAIN sent' /\ sent'[i] = sent[i],
         \A i \in DOMAIN blobs : i \in DOMAIN blobs' /\ blobs'[i] = blobs[i]
  PROVE  RowsInv' /\ OneRowPerUpload'
<1>1. \A i \in DOMAIN sent : FilesOf(i) \subseteq FilesOf(i)'
  BY FilesStay
<1>2. RowsInv'
  <2> SUFFICES ASSUME NEW i \in DOMAIN rows
               PROVE  /\ rows[i].req \in DOMAIN sent'
                      /\ rows[i].id # 0 =>
                           /\ rows[i].id \in DOMAIN blobs'
                           /\ blobs'[rows[i].id] \in FilesOf(rows[i].req)'
    BY DEF RowsInv, FilesOf
  <2> PICK u, b : u = rows[i].req /\ b = rows[i].id
    OBVIOUS
  <2>1. /\ u \in DOMAIN sent
        /\ b # 0 => b \in DOMAIN blobs /\ blobs[b] \in FilesOf(u)
    BY DEF RowsInv
  <2>2. FilesOf(u) \subseteq FilesOf(u)'
    BY <1>1, <2>1
  <2>3. QED
    BY <2>1, <2>2 DEF FilesOf
<1>3. QED
  BY <1>2 DEF OneRowPerUpload

(* A move that inserts no row and writes no file keeps the invariant. *)
LEMMA OneMovesOn ==
  ASSUME HostInv, HostTypeOK', NEW p \in Pids, NEW r, OneMoves(p, r), HandsOf(p)',
         UNCHANGED <<dir, blobs, rows, spoilt>>,
         \A i \in DOMAIN sent : i \in DOMAIN sent' /\ sent'[i] = sent[i],
         r.pc # "fork",
         \A i \in DOMAIN rows : rows[i].req = r.req => r.pc = "reply"
  PROVE  HostInv'
<1>1. ReadsInv' /\ FamilyInv' /\ ServesInv'
  BY OneMovesReads, OneMovesFamily, OneMovesServes
<1>2. HandsInv' /\ FileInv'
  BY OneMovesHands, OneMovesFile
<1>3. SpentInv'
  BY OneMovesSpent
<1>4. RowsInv' /\ OneRowPerUpload'
  BY RowsKeep DEF HostInv
<1>5. QED
  BY <1>1, <1>2, <1>3, <1>4 DEF HostInv

(* A program that is still to do something for its upload found no row.    *)
LEMMA NoRowYet ==
  ASSUME HostInv, NEW p \in Programs,
         proc[p].pc \in {"save", "fork", "exec", "unlink", "insert"}
  PROVE  \A i \in DOMAIN rows : rows[i].req # proc[p].req
BY DEF HostInv, SpentInv, Spent, WaitsForCopy, At

LEMMA AcceptKeeps ==
  ASSUME HostInv, NEW p \in Pids, NEW n \in Names, NEW c \in Contents,
         Accept(p, n, c)
  PROVE  HostInv'
<1> USE DEF HostInv
<1> DEFINE new == [name |-> n, content |-> c]
<1> PICK k : k = Len(sent) + 1
  OBVIOUS
<1> PICK r : r = [proc[p] EXCEPT !.pc = "save", !.req = k]
  OBVIOUS
<1>1. p \in Programs /\ proc[p] \in Processes /\ proc[p].pc = "accept"
  BY ProcTyped DEF Accept, At, Programs, Serves
<1>2. /\ sent \in Seq([name: Names, content: Contents])
      /\ Len(sent) \in Nat /\ DOMAIN sent = 1..Len(sent)
  BY LenProperties DEF HostTypeOK
<1>3. /\ sent' \in Seq([name: Names, content: Contents])
      /\ DOMAIN sent' = 1..(Len(sent) + 1)
      /\ \A i \in DOMAIN sent : i \in DOMAIN sent' /\ sent'[i] = sent[i]
  <2>1. new \in [name: Names, content: Contents] /\ sent' = Append(sent, new)
    BY DEF Accept
  <2> HIDE DEF new
  <2>2. /\ sent' \in Seq([name: Names, content: Contents])
        /\ Len(sent') = Len(sent) + 1
        /\ \A i \in 1..Len(sent) : sent'[i] = sent[i]
    BY <1>2, <2>1, AppendProperties
  <2>3. DOMAIN sent' = 1..(Len(sent) + 1)
    BY <2>2, LenProperties
  <2>4. QED
    BY <1>2, <2>2, <2>3
<1>4. /\ r \in Processes /\ r.pc = "save" /\ r.parent = proc[p].parent
      /\ r.req = k /\ r.id = proc[p].id /\ r.out = proc[p].out
      /\ r.wants = proc[p].wants
  <2>1. k \in Nat
    BY <1>2
  <2>2. QED
    BY <1>1, <2>1 DEF Processes, Serves
<1>5. proc' = [proc EXCEPT ![p] = r]
  BY <1>1 DEF Accept, HostTypeOK
<1> HIDE DEF new
<1>6. OneMoves(p, r)
  BY <1>1, <1>4, <1>5 DEF OneMoves, Serves
<1>7. HostTypeOK'
  BY <1>3, <1>6, OneMovesProc DEF HostTypeOK, Accept
<1>8. HandsOf(p)'
  <2>1. HandsOf(p)
    BY <1>1 DEF HandsInv, Programs, Alive
  <2>2. proc[p].id = 0 /\ proc[p].out = None /\ proc[p].wants = "id"
    BY <1>1, <2>1 DEF HandsOf
  <2>3. Len(sent) + 1 \in DOMAIN sent'
    BY <1>2, <1>3
  <2>4. QED
    BY ZenonT(60), <1>4, <1>6, <2>2, <2>3, OneMovesProc DEF HandsOf
<1>9. \A i \in DOMAIN rows : rows[i].req # r.req
  BY <1>2, <1>4 DEF RowsInv
<1>10. QED
  BY <1>3, <1>4, <1>6, <1>7, <1>8, <1>9, OneMovesOn DEF Accept

LEMMA ReplyKeeps ==
  ASSUME HostInv, NEW p \in Pids, Reply(p)
  PROVE  HostInv'
<1> USE DEF HostInv
<1> DEFINE r == [Fresh EXCEPT !.parent = proc[p].parent,
                              !.leaked = proc[p].leaked]
<1>1. p \in Programs /\ proc[p] \in Processes /\ proc[p].pc = "reply"
  BY ProcTyped DEF Reply, At, Programs, Serves
<1>2. /\ r \in Processes /\ r.pc = "accept" /\ r.parent = proc[p].parent
      /\ r.req = 0 /\ r.id = 0 /\ r.out = None /\ r.wants = "id"
  BY <1>1 DEF Processes, Serves, Fresh
<1>3. proc' = [proc EXCEPT ![p] = r]
  BY DEF Reply
<1> HIDE DEF r
<1>4. OneMoves(p, r)
  BY <1>1, <1>2, <1>3 DEF OneMoves, Serves
<1>5. answers' \in [1..MaxRequests -> Seq({"008", "009"})]
  <2> DEFINE code == proc[p].code
  <2>1. code \in {"008", "009"}
    BY <1>1 DEF HandsInv, HandsOf, Programs, Alive, Processes
  <2>2. answers' = [answers EXCEPT ![proc[p].req] = Append(@, code)]
    BY DEF Reply
  <2> HIDE DEF code
  <2>3. \A s \in Seq({"008", "009"}) : Append(s, code) \in Seq({"008", "009"})
    BY <2>1, AppendProperties
  <2>4. QED
    BY <2>2, <2>3 DEF HostTypeOK
<1>6. HostTypeOK'
  BY <1>4, <1>5, OneMovesProc DEF HostTypeOK, Reply
<1>7. HandsOf(p)'
  BY <1>2, <1>4, OneMovesProc DEF HandsOf
<1>8. \A i \in DOMAIN rows : rows[i].req # r.req
  <2>1. 0 \notin DOMAIN sent
    BY LenProperties DEF HostTypeOK
  <2>2. QED
    BY <1>2, <2>1 DEF RowsInv
<1>9. QED
  BY <1>2, <1>4, <1>6, <1>7, <1>8, OneMovesOn DEF Reply

(* The moves of a copy before its tool runs, and after it fails to *)

LEMMA ExecKeeps ==
  ASSUME HostInv, NEW p \in Pids, Exec(p)
  PROVE  HostInv'
<1> USE DEF HostInv
<1> DEFINE r == [proc[p] EXCEPT !.pc = "tool"]
<1>1. p \in Programs /\ proc[p] \in Processes /\ proc[p].pc = "exec"
  BY ProcTyped DEF Exec, At, Programs, Serves
<1>2. /\ r \in Processes /\ r.pc = "tool" /\ r.parent = proc[p].parent
      /\ r.req = proc[p].req /\ r.id = proc[p].id /\ r.out = proc[p].out
      /\ r.wants = proc[p].wants
  BY <1>1 DEF Processes, Serves
<1>3. proc' = [proc EXCEPT ![p] = r]
  BY <1>1 DEF Exec, Goes, HostTypeOK
<1>4. OneMoves(p, r)
  BY <1>1, <1>2, <1>3 DEF OneMoves
<1> HIDE DEF r
<1>5. HostTypeOK'
  BY <1>4, OneMovesProc DEF HostTypeOK, Exec
<1>6. HandsOf(p)'
  <2>1. HandsOf(p)
    BY <1>1 DEF HandsInv, Programs, Alive
  <2>2. proc'[p] = r
    BY <1>4, OneMovesProc
  <2>3. QED
    BY <1>1, <1>2, <2>1, <2>2 DEF HandsOf, ContentsOf, FilesOf, Exec
<1>7. \A i \in DOMAIN rows : rows[i].req # r.req
  BY <1>1, <1>2, NoRowYet
<1>8. QED
  BY <1>2, <1>4, <1>5, <1>6, <1>7, OneMovesOn DEF Exec

LEMMA FaultCounts ==
  ASSUME HostTypeOK, faults < MaxFaults
  PROVE  /\ faults + 1 \in 0..MaxFaults
         /\ execFails \in 0..(faults + 1) /\ execFails + 1 \in 0..(faults + 1)
BY BoundsAreNat DEF HostTypeOK

LEMMA ExecFailsKeeps ==
  ASSUME HostInv, NEW p \in Pids, ExecFails(p)
  PROVE  HostInv'
<1> USE DEF HostInv
<1> DEFINE pc == IF proc[p].wants = "id" THEN "unlink" ELSE "insert"
           r  == [proc[p] EXCEPT !.pc = pc]
<1>1. p \in Programs /\ proc[p] \in Processes /\ proc[p].pc = "exec"
  BY ProcTyped DEF ExecFails, At, Programs, Serves
<1>2. /\ r \in Processes /\ r.pc = pc /\ r.parent = proc[p].parent
      /\ r.req = proc[p].req /\ r.id = proc[p].id /\ r.out = proc[p].out
      /\ r.wants = proc[p].wants
  BY <1>1 DEF Processes, Serves
<1>3. proc' = [proc EXCEPT ![p] = r]
  BY <1>1 DEF ExecFails, Goes, HostTypeOK
<1>4. OneMoves(p, r)
  BY <1>1, <1>2, <1>3 DEF OneMoves, Serves
<1> HIDE DEF r
<1>5. HostTypeOK'
  BY <1>4, OneMovesProc, FaultCounts DEF HostTypeOK, ExecFails
<1>6. HandsOf(p)'
  <2>1. HandsOf(p)
    BY <1>1 DEF HandsInv, Programs, Alive
  <2>2. QED
    BY <1>1, <1>2, <1>4, <2>1, OneMovesProc DEF HandsOf, ContentsOf, FilesOf, ExecFails
<1>7. \A i \in DOMAIN rows : rows[i].req # r.req
  BY <1>1, <1>2, NoRowYet
<1>8. QED
  BY <1>2, <1>4, <1>5, <1>6, <1>7, OneMovesOn DEF ExecFails

(* A call that fails, and fork that fails *)
LEMMA GivesUpKeeps ==
  ASSUME HostInv, NEW p \in Pids, NEW r \in Processes, p \in Programs,
         proc[p].pc \in {"save", "fork", "insert"},
         r.pc = "reply", r.parent = proc[p].parent, r.req = proc[p].req,
         r.id = proc[p].id, r.out = proc[p].out, r.wants = proc[p].wants,
         r.code = "009", proc' = [proc EXCEPT ![p] = r],
         faults < MaxFaults, faults' = faults + 1,
         UNCHANGED <<dir, blobs, rows, sent, answers, spoilt, execFails>>
  PROVE  HostInv'
<1> USE DEF HostInv
<1>1. OneMoves(p, r)
  BY DEF OneMoves, Serves
<1>2. HostTypeOK'
  BY <1>1, OneMovesProc, FaultCounts DEF HostTypeOK
<1>3. HandsOf(p)'
  <2>1. HandsOf(p)
    BY DEF HandsInv, Programs, Alive, Serves
  <2>2. QED
    BY <1>1, <2>1, OneMovesProc DEF HandsOf, ContentsOf, FilesOf
<1>4. \A i \in DOMAIN rows : rows[i].req # r.req
  BY NoRowYet
<1>5. QED
  BY <1>1, <1>2, <1>3, <1>4, OneMovesOn

LEMMA CallFailsKeeps ==
  ASSUME HostInv, NEW p \in Pids, CallFails(p) \/ ForkFails(p)
  PROVE  HostInv'
<1> USE DEF HostInv
<1>1. /\ p \in Programs /\ proc[p] \in Processes
      /\ proc[p].pc \in {"save", "fork", "insert"}
  BY ProcTyped DEF CallFails, ForkFails, At, Programs, Serves
<1>2. CASE CallFails(p)
  <2> DEFINE r == [proc[p] EXCEPT !.pc = "reply", !.code = "009"]
  <2>1. /\ r \in Processes /\ r.pc = "reply" /\ r.parent = proc[p].parent
        /\ r.req = proc[p].req /\ r.id = proc[p].id /\ r.out = proc[p].out
        /\ r.wants = proc[p].wants /\ r.code = "009"
    BY <1>1 DEF Processes, Serves
  <2>2. proc' = [proc EXCEPT ![p] = r]
    BY <1>1, <1>2 DEF CallFails, Replies, HostTypeOK
  <2> HIDE DEF r
  <2>3. QED
    BY <1>1, <1>2, <2>1, <2>2, GivesUpKeeps DEF CallFails
<1>3. CASE ForkFails(p)
  <2> PICK k : k = proc[p].leaked + 2
    OBVIOUS
  <2> PICK r : r = [proc[p] EXCEPT !.pc = "reply", !.code = "009",
                                   !.leaked = k]
    OBVIOUS
  <2>1. /\ r \in Processes /\ r.pc = "reply" /\ r.parent = proc[p].parent
        /\ r.req = proc[p].req /\ r.id = proc[p].id /\ r.out = proc[p].out
        /\ r.wants = proc[p].wants /\ r.code = "009"
    <3>1. proc[p].leaked \in Nat
      BY <1>1 DEF Processes
    <3>2. k \in Nat
      BY <3>1, NatAdds, Zenon
    <3>3. QED
      BY <1>1, <3>2 DEF Processes, Serves
  <2>2. proc' = [proc EXCEPT ![p] = r]
    BY <1>3 DEF ForkFails
  <2>3. QED
    BY <1>1, <1>3, <2>1, <2>2, GivesUpKeeps DEF ForkFails
<1>4. QED
  BY <1>2, <1>3

-----------------------------------------------------------------------------
(* The file that is saved *)

BodyBytes == Bytes \cup {"CR", "LF", "-", "b"}

(* u is s of length n, and then t of length k. *)
IsJoined(u, s, n, t, k) ==
  /\ u \in Seq(BodyBytes) /\ Len(u) = n + k
  /\ \A i \in 1..n : u[i] = s[i]
  /\ \A j \in 1..k : u[n + j] = t[j]

LEMMA JoinedIs ==
  ASSUME NEW s \in Seq(BodyBytes), NEW t \in Seq(BodyBytes),
         NEW n \in Nat, Len(s) = n, NEW k \in Nat, Len(t) = k
  PROVE  IsJoined(s \o t, s, n, t, k)
<1> DEFINE u == s \o t
<1>1. /\ u \in Seq(BodyBytes) /\ Len(u) = n + k
      /\ \A i \in 1..(n + k) : u[i] = IF i <= n THEN s[i] ELSE t[i - n]
  BY ConcatProperties
<1> HIDE DEF u
<1>2. \A i \in 1..n : u[i] = s[i]
  BY <1>1
<1>3. ASSUME NEW j \in 1..k PROVE u[n + j] = t[j]
  <2>1. PICK m : m = n + j
    OBVIOUS
  <2>2. m \in 1..(n + k) /\ ~(m <= n) /\ m - n = j
    BY <2>1
  <2>3. u[m] = t[m - n]
    BY <1>1, <2>2
  <2>4. QED
    BY <2>1, <2>2, <2>3
<1>4. IsJoined(u, s, n, t, k)
  BY <1>1, <1>2, <1>3 DEF IsJoined
<1>5. QED
  BY <1>4 DEF u

LEMMA BodyIs ==
  ASSUME NEW c \in Seq(Bytes)
  PROVE  /\ Body(c) \in Seq(BodyBytes)
         /\ Len(Body(c)) = Len(c) + 7
         /\ \A i \in 1..Len(c) : Body(c)[i] = c[i]
         /\ Body(c)[Len(c) + 1] = "CR" /\ Body(c)[Len(c) + 2] = "LF"
         /\ Body(c)[Len(c) + 3] = "-"  /\ Body(c)[Len(c) + 4] = "-"
         /\ Body(c)[Len(c) + 5] = "b"  /\ Body(c)[Len(c) + 6] = "-"
         /\ Body(c)[Len(c) + 7] = "-"
<1> PICK n : n = Len(c)
  OBVIOUS
<1>1. c \in Seq(BodyBytes) /\ n \in Nat
  BY SeqMonotonic, LenProperties DEF BodyBytes
<1>2. /\ CRLF \in Seq(BodyBytes) /\ Len(CRLF) = 2
      /\ CRLF[1] = "CR" /\ CRLF[2] = "LF"
  BY DEF CRLF, BodyBytes
<1>3. /\ Boundary \in Seq(BodyBytes) /\ Len(Boundary) = 3
      /\ Boundary[1] = "-" /\ Boundary[2] = "-" /\ Boundary[3] = "b"
  BY DEF Boundary, BodyBytes
<1> DEFINE last == <<"-", "-">>
<1>4. /\ last \in Seq(BodyBytes) /\ Len(last) = 2
      /\ last[1] = "-" /\ last[2] = "-"
  BY DEF BodyBytes
<1> HIDE DEF last
<1> DEFINE one == c \o CRLF
           two == one \o Boundary
<1>5. /\ one \in Seq(BodyBytes) /\ Len(one) = n + 2
      /\ \A i \in 1..n : one[i] = c[i]
      /\ \A j \in 1..2 : one[n + j] = CRLF[j]
  <2>1. 2 \in Nat
    OBVIOUS
  <2>2. IsJoined(one, c, n, CRLF, 2)
    BY <1>1, <1>2, <2>1, JoinedIs
  <2>3. QED
    BY <2>2 DEF IsJoined
<1> HIDE DEF one
<1> PICK m : m = n + 2
  OBVIOUS
<1>6. /\ two \in Seq(BodyBytes) /\ Len(two) = m + 3
      /\ \A i \in 1..m : two[i] = one[i]
      /\ \A j \in 1..3 : two[m + j] = Boundary[j]
  <2>1. 3 \in Nat /\ m \in Nat
    BY <1>1
  <2>2. IsJoined(two, one, m, Boundary, 3)
    BY <1>3, <1>5, <2>1, JoinedIs
  <2>3. QED
    BY <2>2 DEF IsJoined
<1> HIDE DEF two
<1> PICK k : k = m + 3
  OBVIOUS
<1>7. Body(c) = two \o last
  BY DEF Body, one, two, last
<1>8. /\ Body(c) \in Seq(BodyBytes) /\ Len(Body(c)) = k + 2
      /\ \A i \in 1..k : Body(c)[i] = two[i]
      /\ \A j \in 1..2 : Body(c)[k + j] = last[j]
  <2>1. 2 \in Nat /\ k \in Nat
    BY <1>1
  <2>2. IsJoined(Body(c), two, k, last, 2)
    BY ZenonT(60), <1>4, <1>6, <1>7, <2>1, JoinedIs
  <2>3. QED
    BY <2>2 DEF IsJoined
<1> DEFINE text == Body(c)
<1> HIDE DEF text
<1>9. ASSUME NEW i \in 1..n PROVE text[i] = c[i]
  <2>1. i \in 1..m /\ i \in 1..k
    BY <1>1
  <2>2. one[i] = c[i] /\ two[i] = one[i]
    BY <1>5, <1>6, <2>1
  <2>3. QED
    BY <1>8, <2>1, <2>2 DEF text
<1>10. text[n + 1] = "CR" /\ text[n + 2] = "LF"
  <2>1. n + 1 \in 1..m /\ n + 2 \in 1..m /\ n + 1 \in 1..k /\ n + 2 \in 1..k
    BY <1>1
  <2>2. one[n + 1] = "CR" /\ one[n + 2] = "LF"
    BY <1>2, <1>5
  <2>3. QED
    BY <1>6, <1>8, <2>1, <2>2 DEF text
<1>11. text[n + 3] = "-" /\ text[n + 4] = "-" /\ text[n + 5] = "b"
  <2>1. /\ n + 3 = m + 1 /\ n + 4 = m + 2 /\ n + 5 = m + 3
        /\ m + 1 \in 1..k /\ m + 2 \in 1..k /\ m + 3 \in 1..k
    BY <1>1
  <2>2. two[m + 1] = "-" /\ two[m + 2] = "-" /\ two[m + 3] = "b"
    BY <1>3, <1>6
  <2>3. QED
    BY <1>8, <2>1, <2>2 DEF text
<1>12. text[n + 6] = "-" /\ text[n + 7] = "-"
  <2>1. n + 6 = k + 1 /\ n + 7 = k + 2
    BY <1>1
  <2>2. QED
    BY <1>4, <1>8, <2>1 DEF text
<1>13. k + 2 = n + 7
  BY <1>1
<1>14. QED
  BY <1>8, <1>9, <1>10, <1>11, <1>12, <1>13 DEF text

(* The boundary is found behind the content, and nowhere in it. *)
LEMMA BoundaryFound ==
  ASSUME NEW c \in Seq(Bytes)
  PROVE  memstr(Body(c), Boundary) = Len(c) + 3
<1> DEFINE text == Body(c)
           n    == Len(c)
           Occurs(i) == SubSeq(text, i, i + Len(Boundary) - 1) = Boundary
<1>1. /\ Boundary \in Seq(BodyBytes) /\ Len(Boundary) = 3
      /\ Boundary[1] = "-" /\ Boundary[2] = "-" /\ Boundary[3] = "b"
  BY DEF Boundary, BodyBytes
<1>2. n \in Nat /\ text \in Seq(BodyBytes) /\ Len(text) = n + 7
  BY BodyIs, LenProperties
<1>3. ASSUME NEW i \in 1..(n + 5) PROVE Occurs(i) <=> i = n + 3
  <2> DEFINE sub == SubSeq(text, i, i + 2)
  <2>1. i \in 1..Len(text) + 1 /\ i + 2 \in 0..Len(text) /\ i + 2 >= i
    BY <1>2
  <2>2. sub \in Seq(BodyBytes) /\ Len(sub) = 3
        /\ \A j \in 1..3 : sub[j] = text[i + j - 1]
    BY <1>2, <2>1, SubSeqProperties
  <2> HIDE DEF sub
  <2>3. sub[1] = text[i] /\ sub[2] = text[i + 1] /\ sub[3] = text[i + 2]
    BY <2>2
  <2>4. CASE i = n + 3
    <3>1. sub[1] = "-" /\ sub[2] = "-" /\ sub[3] = "b"
      <4>1. i + 1 = n + 4 /\ i + 2 = n + 5
        BY <1>2, <2>4
      <4>2. QED
        BY <2>3, <2>4, <4>1, BodyIs
    <3>2. \A j \in 1..3 : sub[j] = Boundary[j]
      BY <1>1, <3>1
    <3>3. sub = Boundary
      BY <1>1, <2>2, <3>2, SeqEqual
    <3>4. QED
      BY <1>1, <1>2, <2>4, <3>3 DEF sub
  <2>5. CASE i # n + 3
    <3>1. text[i + 2] # "b"
      <4>1. i + 2 # n + 5 /\ i + 2 \in 1..(n + 7)
        BY <1>2, <2>5
      <4>2. \A j \in 1..n : c[j] # "b"
        BY BoundaryIsNoContent, LenProperties, ElementOfSeq
      <4>3. \A j \in 1..(n + 7) : j # n + 5 => text[j] # "b"
        <5>1. \A j \in 1..(n + 7) :
                \/ j \in 1..n \/ j = n + 1 \/ j = n + 2 \/ j = n + 3
                \/ j = n + 4 \/ j = n + 5 \/ j = n + 6 \/ j = n + 7
          BY <1>2
        <5>2. QED
          BY <4>2, <5>1, BodyIs
      <4>4. QED
        BY <4>1, <4>3
    <3>2. sub # Boundary
      BY <1>1, <2>3, <3>1
    <3>3. QED
      BY <1>1, <1>2, <2>5, <3>2 DEF sub
  <2>6. QED
    BY <2>4, <2>5
<1>4. {i \in 1..(Len(text) - Len(Boundary) + 1) : Occurs(i)} = {n + 3}
  <2>1. Len(text) - Len(Boundary) + 1 = n + 5 /\ n + 3 \in 1..(n + 5)
    BY <1>1, <1>2
  <2> HIDE DEF Occurs
  <2>2. QED
    BY <1>3, <2>1
<1>5. LeastOf({n + 3}) = n + 3
  BY <1>2 DEF LeastOf
<1>6. QED
  BY <1>4, <1>5 DEF memstr

LEMMA ReceivedIsSent ==
  ASSUME NEW c \in Seq(Bytes)
  PROVE  Received(c) = c
<1> DEFINE text == Body(c)
           n    == Len(c)
<1>1. n \in Nat /\ text \in Seq(BodyBytes) /\ Len(text) = n + 7
  BY BodyIs, LenProperties
<1>2. Received(c) = SubSeq(text, 1, n)
  <2>1. Len(CRLF) = 2
    BY DEF CRLF
  <2>2. n + 3 - 1 - 2 = n
    BY <1>1
  <2>3. QED
    BY <2>1, <2>2, BoundaryFound DEF Received
<1> DEFINE sub == SubSeq(text, 1, n)
<1>3. /\ sub \in Seq(BodyBytes) /\ Len(sub) = n
      /\ \A i \in 1..n : sub[i] = text[i]
  BY <1>1, SubSeqProperties
<1>4. c \in Seq(BodyBytes)
  BY SeqMonotonic DEF BodyBytes
<1> HIDE DEF sub, text
<1>5. \A i \in 1..n : sub[i] = c[i]
  BY <1>3, BodyIs DEF text
<1>6. sub = c
  BY <1>1, <1>3, <1>4, <1>5, SeqEqual
<1>7. QED
  BY <1>2, <1>6 DEF sub, text

LEMMA Overwritten ==
  ASSUME NEW file \in Seq(Octets), NEW text \in Seq(Bytes)
  PROVE  WrittenOver(Truncated(file, Len(text)), text) = text
<1> PICK n : n = Len(text)
  OBVIOUS
<1> DEFINE cut == Truncated(file, n)
<1>1. n \in Nat /\ Len(file) \in Nat
  BY LenProperties
<1>2. cut \in [1..n -> Octets]
  <2>1. \A i \in 1..n : i <= Len(file) => file[i] \in Octets
    BY <1>1, ElementOfSeq
  <2>2. QED
    BY <2>1 DEF Truncated, Octets
<1> HIDE DEF cut
<1>3. Len(cut) = n
  BY <1>1, <1>2
<1>4. SubSeq(cut, n + 1, n) = <<>>
  BY <1>1, SubSeqEmpty
<1>5. WrittenOver(cut, text) = text \o <<>>
  BY <1>3, <1>4 DEF WrittenOver
<1>6. text \o <<>> = text
  BY ConcatEmptySeq
<1>7. QED
  BY <1>5, <1>6 DEF cut

LEMMA ContentsAreSeqs == Contents \subseteq Seq(Bytes)
BY DEF Contents

(* The file that a failed ftruncate or write leaves *)
LEMMA SpoiltIs ==
  ASSUME NEW file \in Seq(Octets), NEW text \in Seq(Bytes),
         NEW n \in 0..Len(text),
         NEW cut \in {file, Truncated(file, Len(text))}
  PROVE  WrittenOver(cut, SubSeq(text, 1, n)) \in Seq(Octets)
<1>1. Len(text) \in Nat /\ Len(file) \in Nat
  BY LenProperties
<1>2. Truncated(file, Len(text)) \in Seq(Octets)
  <2> PICK k : k = Len(text)
    OBVIOUS
  <2>1. \A i \in 1..k : i <= Len(file) => file[i] \in Octets
    BY <1>1, ElementOfSeq
  <2>2. Truncated(file, k) \in [1..k -> Octets]
    BY <2>1 DEF Truncated, Octets
  <2>3. QED
    BY <1>1, <2>2
<1>3. cut \in Seq(Octets) /\ Len(cut) \in Nat
  BY <1>2, LenProperties
<1>4. text \in Seq(Octets)
  BY DEF Octets
<1>5. SubSeq(text, 1, n) \in Seq(Octets)
  <2>1. \A i \in 1..n : i \in 1..Len(text)
    BY <1>1
  <2>2. \A i \in 1..n : text[i] \in Octets
    BY <1>4, <2>1, ElementOfSeq
  <2>3. QED
    BY <2>2, SubSeqProperties
<1> PICK start : start = SubSeq(text, 1, n)
  OBVIOUS
<1>6. start \in Seq(Octets) /\ Len(start) \in Nat
  BY <1>5, LenProperties
<1>7. SubSeq(cut, Len(start) + 1, Len(cut)) \in Seq(Octets)
  <2>1. \A i \in (Len(start) + 1)..Len(cut) : i \in 1..Len(cut)
    BY <1>3, <1>6
  <2>2. \A i \in (Len(start) + 1)..Len(cut) : cut[i] \in Octets
    BY <1>3, <2>1, ElementOfSeq
  <2>3. QED
    BY <1>3, <1>6, <2>2, SubSeqProperties
<1>8. QED
  BY <1>6, <1>7, ConcatProperties DEF WrittenOver

LEMMA SaveKeeps ==
  ASSUME HostInv, NEW p \in Pids, Save(p) \/ SaveSpoils(p)
  PROVE  HostInv'
<1> USE DEF HostInv
<1> DEFINE r == [proc[p] EXCEPT !.pc = "fork"]
<1>1. p \in Programs /\ proc[p] \in Processes /\ proc[p].pc = "save"
  BY ProcTyped DEF Save, SaveSpoils, At, Programs, Serves
<1>2. /\ r \in Processes /\ r.pc = "fork" /\ r.parent = proc[p].parent
      /\ r.req = proc[p].req /\ r.id = proc[p].id /\ r.out = proc[p].out
      /\ r.wants = proc[p].wants
  BY <1>1 DEF Processes, Serves
<1>3. proc' = [proc EXCEPT ![p] = r]
  BY <1>1 DEF Save, SaveSpoils, Goes, HostTypeOK
<1>4. OneMoves(p, r)
  BY <1>1, <1>2, <1>3 DEF OneMoves, Serves
<1> HIDE DEF r
<1>5. HandsOf(p)
  BY <1>1 DEF HandsInv, Programs, Alive
<1>6. proc[p].req \in DOMAIN sent
  BY <1>1, <1>5 DEF HandsOf
<1> PICK content : content = sent[proc[p].req].content
  OBVIOUS
<1>7. /\ NameOf(p) \in Names /\ content \in Seq(Bytes)
      /\ content \in Seq(Octets) /\ proc[p].req \in Nat
  <2>1. sent[proc[p].req] \in [name: Names, content: Contents]
    BY <1>6, LenProperties, ElementOfSeq DEF HostTypeOK
  <2>2. Seq(Bytes) \subseteq Seq(Octets)
    BY DEF Octets
  <2>3. QED
    BY <1>1, <2>1, <2>2, ContentsAreSeqs DEF NameOf, Processes
<1>8. \E bytes \in Seq(Octets) :
        /\ dir' = [dir EXCEPT ![NameOf(p)] = bytes]
        /\ Save(p) => bytes = content
  <2> DEFINE file == IF dir[NameOf(p)] = None THEN <<>> ELSE dir[NameOf(p)]
             text == Received(content)
  <2>1. file \in Seq(Octets)
    BY <1>7, EmptySeq DEF HostTypeOK
  <2>2. text = content
    BY <1>7, ReceivedIsSent
  <2>3. Save(p) =>
          dir' = [dir EXCEPT ![NameOf(p)] =
                    WrittenOver(Truncated(file, Len(text)), text)]
    BY DEF Save
  <2>4. SaveSpoils(p) =>
          \E n \in 0..Len(text), cut \in {file, Truncated(file, Len(text))} :
            dir' = [dir EXCEPT ![NameOf(p)] =
                      WrittenOver(cut, SubSeq(text, 1, n))]
    BY DEF SaveSpoils
  <2>5. ~(Save(p) /\ SaveSpoils(p))
    BY DEF Save, SaveSpoils, HostTypeOK
  <2> HIDE DEF file, text
  <2>6. CASE Save(p)
    BY <1>7, <2>1, <2>2, <2>3, <2>6, Overwritten
  <2>7. CASE SaveSpoils(p)
    <3>1. PICK n \in 0..Len(text),
               cut \in {file, Truncated(file, Len(text))} :
                 dir' = [dir EXCEPT ![NameOf(p)] =
                           WrittenOver(cut, SubSeq(text, 1, n))]
      BY <2>4, <2>7
    <3>2. WrittenOver(cut, SubSeq(text, 1, n)) \in Seq(Octets)
      BY <1>7, <2>1, <2>2, SpoiltIs
    <3>3. QED
      BY <2>5, <2>7, <3>1, <3>2
  <2>8. QED
    BY <2>6, <2>7
<1>9. /\ spoilt \subseteq spoilt' /\ spoilt' \in SUBSET Nat
      /\ SaveSpoils(p) => proc[p].req \in spoilt'
      /\ UNCHANGED <<blobs, rows, sent, answers, execFails>>
      /\ faults' \in 0..MaxFaults /\ execFails' \in 0..faults'
  <2>1. CASE Save(p)
    BY <2>1 DEF Save, HostTypeOK, SaveSpoils
  <2>2. CASE SaveSpoils(p)
    BY <1>7, <2>2, FaultCounts DEF SaveSpoils, HostTypeOK
  <2>3. QED
    BY <2>1, <2>2
<1>10. HostTypeOK'
  BY <1>4, <1>7, <1>8, <1>9, OneMovesProc DEF HostTypeOK
<1>11. HandsOf(p)'
  <2>1. proc[p].id = 0
    BY <1>1, <1>5 DEF HandsOf
  <2>2. QED
    BY <1>1, <1>2, <1>4, <1>5, <1>9, <2>1, OneMovesProc DEF HandsOf
<1>12. ReadsInv' /\ FamilyInv' /\ ServesInv' /\ HandsInv'
  BY <1>4, <1>9, <1>11, OneMovesReads, OneMovesFamily, OneMovesServes,
    OneMovesHands
<1>13. FileInv'
  <2>1. NameOf(p)' = NameOf(p)
    BY <1>2, <1>4, <1>9, OneMovesProc DEF NameOf
  <2>2. PICK bytes \in Seq(Octets) :
          /\ dir' = [dir EXCEPT ![NameOf(p)] = bytes]
          /\ Save(p) => bytes = content
    BY <1>8
  <2>3. bytes \in FilesOf(proc[p].req)'
    <3>1. content \in FilesOf(proc[p].req)'
      BY <1>2, <1>4, <1>7, <1>9, OneMovesProc DEF FilesOf
    <3>2. SaveSpoils(p) => FilesOf(proc[p].req)' = Seq(Octets)
      BY <1>2, <1>4, <1>9, OneMovesProc DEF FilesOf
    <3>3. QED
      BY <2>2, <3>1, <3>2
  <2>4. dir'[NameOf(p)'] \in ContentsOf(p)'
    BY <1>7, <2>1, <2>2, <2>3 DEF HostTypeOK, ContentsOf
  <2>5. QED
    BY <1>2, <1>4, <1>9, <2>4, OneMovesFile
<1>14. SpentInv'
  <2>1. \A i \in DOMAIN rows : rows[i].req # r.req
    BY <1>1, <1>2, NoRowYet
  <2>2. QED
    BY <1>4, <1>9, <2>1, OneMovesSpent
<1>16. RowsInv' /\ OneRowPerUpload'
  BY <1>9, RowsKeep
<1>15. QED
  BY <1>10, <1>12, <1>13, <1>14, <1>16

LEMMA UnlinkKeeps ==
  ASSUME HostInv, NEW p \in Pids, Unlink(p)
  PROVE  HostInv'
<1> USE DEF HostInv
<1> DEFINE r == [proc[p] EXCEPT !.pc = "fork", !.wants = "url"]
<1>1. p \in Programs /\ proc[p] \in Processes /\ proc[p].pc = "unlink"
  BY ProcTyped DEF Unlink, At, Programs, Serves
<1>2. /\ r \in Processes /\ r.pc = "fork" /\ r.parent = proc[p].parent
      /\ r.req = proc[p].req /\ r.id = proc[p].id /\ r.out = proc[p].out
      /\ r.wants = "url"
  BY <1>1 DEF Processes, Serves
<1>3. proc' = [proc EXCEPT ![p] = r]
  BY <1>1 DEF Unlink, HostTypeOK
<1>4. OneMoves(p, r)
  BY <1>1, <1>2, <1>3 DEF OneMoves, Serves
<1> HIDE DEF r
<1>5. HandsOf(p)
  BY <1>1 DEF HandsInv, Programs, Alive
<1>6. HostTypeOK'
  BY <1>4, OneMovesProc DEF HostTypeOK, Unlink
<1>7. HandsOf(p)'
  <2>1. proc'[p] = r /\ blobs' = blobs /\ sent' = sent
    BY <1>4, OneMovesProc DEF Unlink
  <2>2. ContentsOf(p)' = ContentsOf(p)
    <3>1. proc'[p].req = proc[p].req
      BY <1>2, <2>1
    <3>2. sent' = sent /\ spoilt' = spoilt
      BY DEF Unlink
    <3>3. QED
      BY <3>1, <3>2 DEF ContentsOf, FilesOf
  <2>3. QED
    BY <1>1, <1>2, <1>5, <2>1, <2>2 DEF HandsOf
<1>8. ReadsInv' /\ FamilyInv' /\ ServesInv' /\ HandsInv'
  BY <1>4, <1>7, OneMovesReads, OneMovesFamily, OneMovesServes, OneMovesHands
    DEF Unlink
<1>9. FileInv'
  BY <1>2, <1>4, OneMovesFile DEF Unlink
<1>10. SpentInv'
  <2>1. \A i \in DOMAIN rows : rows[i].req # r.req
    BY <1>1, <1>2, NoRowYet
  <2>2. QED
    BY <1>4, <2>1, OneMovesSpent DEF Unlink
<1>11. RowsInv' /\ OneRowPerUpload'
  BY RowsKeep DEF Unlink
<1>12. QED
  BY <1>6, <1>8, <1>9, <1>10, <1>11

LEMMA InsertKeeps ==
  ASSUME HostInv, NEW p \in Pids, Insert(p)
  PROVE  HostInv'
<1> USE DEF HostInv
<1> DEFINE r   == [proc[p] EXCEPT !.pc = "reply", !.code = "008"]
           Row == [req: Nat, id: Nat, url: BOOLEAN]
<1> PICK new : new = [req |-> proc[p].req, id |-> proc[p].id,
                      url |-> proc[p].url]
  OBVIOUS
<1>1. p \in Programs /\ proc[p] \in Processes /\ proc[p].pc = "insert"
  BY ProcTyped DEF Insert, At, Programs, Serves
<1>2. /\ r \in Processes /\ r.pc = "reply" /\ r.parent = proc[p].parent
      /\ r.req = proc[p].req /\ r.id = proc[p].id /\ r.out = proc[p].out
      /\ r.wants = proc[p].wants /\ r.code = "008"
  BY <1>1 DEF Processes, Serves
<1>3. proc' = [proc EXCEPT ![p] = r]
  BY <1>1 DEF Insert, Replies, HostTypeOK
<1>4. OneMoves(p, r)
  BY <1>1, <1>2, <1>3 DEF OneMoves, Serves
<1> HIDE DEF r
<1>5. HandsOf(p)
  BY <1>1 DEF HandsInv, Programs, Alive
<1>6. new \in Row /\ new.req = proc[p].req /\ new.id = proc[p].id
  BY <1>1 DEF Processes
<1>7. rows' = Append(rows, new)
  BY DEF Insert
<1>8. /\ rows \in Seq(Row) /\ Len(rows) \in Nat /\ DOMAIN rows = 1..Len(rows)
  BY LenProperties DEF HostTypeOK
<1> HIDE DEF Row
<1>9. /\ rows' \in Seq(Row) /\ DOMAIN rows' = 1..(Len(rows) + 1)
      /\ \A i \in DOMAIN rows : rows'[i] = rows[i]
      /\ rows'[Len(rows) + 1] = new
  <2>1. /\ rows' \in Seq(Row) /\ Len(rows') = Len(rows) + 1
        /\ \A i \in 1..Len(rows) : rows'[i] = rows[i]
        /\ rows'[Len(rows) + 1] = new
    BY <1>6, <1>7, <1>8, AppendProperties
  <2>2. QED
    BY <1>8, <2>1, LenProperties
<1>10. \A i \in DOMAIN rows' :
         (i \in DOMAIN rows /\ rows'[i] = rows[i]) \/ rows'[i] = new
  <2>1. \A i \in DOMAIN rows' : i \in DOMAIN rows \/ i = Len(rows) + 1
    BY <1>8, <1>9
  <2>2. QED
    BY <1>9, <2>1
<1>11. HostTypeOK'
  BY <1>4, <1>9, OneMovesProc DEF HostTypeOK, Insert, Row
<1>12. HandsOf(p)'
  BY ZenonT(60), <1>1, <1>2, <1>4, <1>5, OneMovesProc DEF HandsOf, ContentsOf, FilesOf, Insert
<1>13. ReadsInv' /\ FamilyInv' /\ ServesInv' /\ HandsInv' /\ FileInv'
  BY <1>2, <1>4, <1>12, OneMovesReads, OneMovesFamily, OneMovesServes,
    OneMovesHands, OneMovesFile DEF Insert
<1>14. SpentInv'
  BY <1>2, <1>4, <1>6, <1>10, OneMovesSpent DEF Insert
<1>15. RowsInv'
  <2>1. new.req \in DOMAIN sent
    BY <1>1, <1>5, <1>6 DEF HandsOf
  <2>2. new.id # 0 => /\ new.id \in DOMAIN blobs
                      /\ blobs[new.id] \in FilesOf(new.req)
    BY <1>5, <1>6 DEF HandsOf, ContentsOf, FilesOf
  <2>3. QED
    BY <1>10, <2>1, <2>2 DEF RowsInv, FilesOf, Insert
<1>16. OneRowPerUpload'
  <2>1. \A i \in DOMAIN rows : rows[i].req # new.req
    BY <1>1, <1>6, NoRowYet
  <2>2. \A i \in DOMAIN rows' : rows'[i].req = new.req => i = Len(rows) + 1
    BY <1>8, <1>9, <2>1
  <2>3. QED
    BY <1>10, <2>1, <2>2 DEF OneRowPerUpload
<1>17. QED
  BY <1>11, <1>13, <1>14, <1>15, <1>16

-----------------------------------------------------------------------------
(* Steps that change two processes *)

LEMMA LeastIsIn ==
  ASSUME NEW S \in SUBSET Pids, S # {}
  PROVE  LeastOf(S) \in S
<1>1. S \in SUBSET Nat
  BY DEF Pids
<1>2. \E n \in S : \A m \in S : n <= m
  <2>1. IsWellFoundedOn(OpToRel(<, Nat), Nat)
    BY NatLessThanWellFounded
  <2>2. \E n \in S : \A m \in S : ~(<<m, n>> \in OpToRel(<, Nat))
    BY <1>1, <2>1, WFMin, Zenon
  <2>3. PICK n \in S : \A m \in S : ~(<<m, n>> \in OpToRel(<, Nat))
    BY <2>2
  <2>4. \A m \in S : m \in Nat /\ n \in Nat /\ ~(m < n)
    BY <1>1, <2>3 DEF OpToRel
  <2>5. QED
    BY <2>4
<1>3. QED
  BY <1>2 DEF LeastOf

(* While one program serves, the others wait for copies. *)
LEMMA OthersWait ==
  ASSUME HostInv, NEW p \in Pids, Serving(p), NEW q \in Programs, q # p
  PROVE  WaitsForCopy(q)
BY DEF HostInv, ServesInv, Serving, Programs, Alive

LEMMA ChildIs ==
  ASSUME HostInv, NEW p \in Pids, At(p, "read")
  PROVE  /\ ReadsFrom(p, proc[p].child)
         /\ proc[p].child \in Alive /\ proc[p].child \in Pids
         /\ proc[proc[p].child].parent = p
BY DEF HostInv, ReadsInv, ReadsFrom, Alive

LEMMA ParentIs ==
  ASSUME HostInv, NEW c \in Alive, proc[c].parent # 0
  PROVE  /\ IsParent(proc[c].parent, c)
         /\ proc[c].parent \in Programs /\ proc[c].parent \in Alive
         /\ proc[c].parent \in Pids /\ proc[c].parent # c
<1>1. IsParent(proc[c].parent, c)
  BY DEF HostInv, FamilyInv, Alive
<1>2. proc[c].parent # c
  BY <1>1 DEF IsParent
<1>3. QED
  BY <1>1, <1>2 DEF IsParent, Programs, Alive

(* A program copies itself into a free pid and reads from the copy. *)
LEMMA ForkProc ==
  ASSUME HostInv, NEW p \in Pids, Fork(p)
  PROVE  \E c \in Free :
           /\ proc' \in [Pids -> Processes \cup {None}]
           /\ \A q \in Pids \ {p, c} : proc'[q] = proc[q]
           /\ proc'[p] # None /\ proc'[c] # None
           /\ proc'[p].pc = "read" /\ proc'[p].child = c
           /\ proc'[p].parent = proc[p].parent
           /\ proc'[c].pc = "exec" /\ proc'[c].parent = p
           /\ \A q \in {p, c} : /\ proc'[q].req   = proc[p].req
                                /\ proc'[q].wants = proc[p].wants
                                /\ proc'[q].id    = proc[p].id
                                /\ proc'[q].out   = proc[p].out
<1>1. PICK c : c = LeastOf(Free)
  OBVIOUS
<1>2. c \in Free /\ c \in Pids /\ p # c /\ proc[p] \in Processes
  BY <1>1, LeastIsIn, ProcTyped DEF HostInv, Fork, Free, At
<1> DEFINE r == [proc[p] EXCEPT !.pc = "read", !.child = c]
           k == [proc[p] EXCEPT !.pc = "exec", !.parent = p, !.child = 0]
<1>3. proc' = [proc EXCEPT ![p] = r, ![c] = k]
  BY <1>1, <1>2 DEF Fork, HostInv, HostTypeOK
<1>4. /\ r \in Processes /\ r.pc = "read" /\ r.child = c
      /\ r.parent = proc[p].parent /\ r.req = proc[p].req
      /\ r.wants = proc[p].wants /\ r.id = proc[p].id /\ r.out = proc[p].out
  BY <1>2 DEF Processes, Serves
<1>5. /\ k \in Processes /\ k.pc = "exec" /\ k.parent = p
      /\ k.req = proc[p].req
      /\ k.wants = proc[p].wants /\ k.id = proc[p].id /\ k.out = proc[p].out
  BY <1>2 DEF Processes, Serves
<1> HIDE DEF r, k
<1>6. proc'[p] = r /\ proc'[c] = k
  BY <1>2, <1>3 DEF HostInv, HostTypeOK
<1>7. /\ proc' \in [Pids -> Processes \cup {None}]
      /\ \A q \in Pids \ {p, c} : proc'[q] = proc[q]
  BY <1>2, <1>3, <1>4, <1>5 DEF HostInv, HostTypeOK
<1>8. QED
  BY <1>2, <1>4, <1>5, <1>6, <1>7, NoneIsNoProcess

LEMMA ForkKeeps ==
  ASSUME HostInv, NEW p \in Pids, Fork(p)
  PROVE  HostInv'
<1> USE DEF HostInv
<1>1. PICK c \in Free :
        /\ proc' \in [Pids -> Processes \cup {None}]
        /\ \A q \in Pids \ {p, c} : proc'[q] = proc[q]
        /\ proc'[p] # None /\ proc'[c] # None
        /\ proc'[p].pc = "read" /\ proc'[p].child = c
        /\ proc'[p].parent = proc[p].parent
        /\ proc'[c].pc = "exec" /\ proc'[c].parent = p
        /\ \A q \in {p, c} : /\ proc'[q].req   = proc[p].req
                             /\ proc'[q].wants = proc[p].wants
                             /\ proc'[q].id    = proc[p].id
                             /\ proc'[q].out   = proc[p].out
  BY ForkProc
<1>2. /\ p \in Alive /\ p \in Programs /\ proc[p].pc = "fork"
      /\ c \in Pids /\ c \notin Alive /\ c # p
  BY DEF Fork, At, Free, Programs, Serves
<1>3. UNCHANGED <<dir, blobs, rows, sent, answers, spoilt, execFails, faults>>
  BY DEF Fork
<1>4. Alive' = Alive \cup {c} /\ Programs' = Programs \cup {c}
  <2>1. Alive' = Alive \cup {c}
    BY <1>1, <1>2 DEF Alive
  <2>2. QED
    BY <1>1, <1>2, <2>1 DEF Programs, Alive, Serves
<1>5. \A q \in Alive \ {p} : q # c /\ proc'[q] = proc[q] /\ q \in Alive'
  BY <1>1, <1>2, <1>4 DEF Alive
<1>6. Serving(p) /\ HandsOf(p)
  BY <1>2 DEF Serving, WaitsForCopy, At, HandsInv, Serves, Alive
<1>7. ASSUME NEW q \in Pids, q # p, At(q, "read")'
      PROVE  /\ At(q, "read") /\ proc'[q] = proc[q] /\ proc[q].child # c
             /\ proc[q].child \in Alive
  <2>1. At(q, "read") /\ proc'[q] = proc[q]
    BY <1>1, <1>4, <1>5, <1>7 DEF At
  <2>2. QED
    BY <1>2, <2>1, ChildIs
<1>8. ASSUME NEW d \in Alive, Forked(d)' PROVE Forked(d) /\ d # p
  BY <1>1, <1>5, <1>8 DEF Forked, At
<1>9. ASSUME NEW q \in Pids, q \notin {p, c}, q \in Programs'
      PROVE  WaitsForCopy(q)'
  <2>1. q \in Programs /\ proc'[q] = proc[q] /\ q \in Alive'
    BY <1>4, <1>5, <1>9 DEF Programs
  <2>2. WaitsForCopy(q)
    BY <1>6, <1>9, <2>1, OthersWait
  <2>3. QED
    BY <1>4, <2>1, <2>2 DEF WaitsForCopy, At
<1>10. HostTypeOK'
  BY <1>1, <1>3 DEF HostTypeOK
<1>11. HandsInv'
  <2> SUFFICES ASSUME NEW q \in Pids, q \in Alive', proc'[q].pc # "zombie"
               PROVE  HandsOf(q)'
    BY DEF HandsInv
  <2>1. CASE q \in {p, c}
    BY <1>1, <1>2, <1>3, <1>6, <2>1 DEF HandsOf, ContentsOf, FilesOf
  <2>2. CASE q \notin {p, c}
    <3>1. q \in Alive /\ proc'[q] = proc[q]
      BY <1>4, <1>5, <2>2
    <3>2. HandsOf(q)
      BY <3>1 DEF HandsInv
    <3>3. QED
      BY <1>3, <3>1, <3>2 DEF HandsOf, ContentsOf, FilesOf
  <2>3. QED
    BY <2>1, <2>2
<1>12. ReadsInv'
  <2> SUFFICES ASSUME NEW q \in Pids, At(q, "read")'
               PROVE  ReadsFrom(q, proc[q].child)'
    BY DEF ReadsInv
  <2>1. CASE q = p
    <3>1. ReadsFrom(p, c)'
      BY <1>1, <1>4 DEF ReadsFrom, At
    <3>2. QED
      BY <1>1, <2>1, <3>1
  <2>2. CASE q # p
    <3>1. PICK d : d = proc[q].child
      OBVIOUS
    <3>2. /\ At(q, "read") /\ proc'[q] = proc[q] /\ d \in Alive
          /\ ReadsFrom(q, d)
      BY <1>7, <2>2, <3>1, ChildIs
    <3>3. ContentsOf(q)' = ContentsOf(q)
      BY <1>3, <3>2 DEF ContentsOf, FilesOf
    <3>4. CASE d = p
      <4>1. ReadsFrom(q, p)'
        BY <1>1, <1>2, <1>4, <3>2, <3>4 DEF ReadsFrom, Forked, At
      <4>2. QED
        BY <3>1, <3>2, <3>4, <4>1
    <3>5. CASE d # p
      <4>1. proc'[d] = proc[d] /\ d \in Alive'
        BY <1>5, <3>2, <3>5
      <4>2. ReadsFrom(q, d)'
        BY <1>3, <3>2, <3>3, <4>1 DEF ReadsFrom, Forked, At
      <4>3. QED
        BY <3>1, <3>2, <4>2
    <3>6. QED
      BY <3>4, <3>5
  <2>3. QED
    BY <2>1, <2>2
<1>13. FamilyInv'
  <2> SUFFICES ASSUME NEW x \in Pids, x \in Alive', proc'[x].parent # 0
               PROVE  IsParent(proc[x].parent, x)'
    BY DEF FamilyInv
  <2>1. CASE x = c
    BY <1>1, <1>2, <1>4, <2>1 DEF IsParent, At
  <2>2. CASE x # c
    <3>1. PICK q : q = proc[x].parent
      OBVIOUS
    <3>2. x \in Alive /\ proc'[x].parent = q /\ q # 0
      BY <1>1, <1>4, <1>5, <2>2, <3>1
    <3>3. IsParent(q, x) /\ q \in Alive /\ q \in Programs /\ q # x
      BY <3>1, <3>2, ParentIs
    <3>4. CASE q = p
      <4>1. proc[x].pc = "zombie"
        BY <1>2, <3>3, <3>4 DEF IsParent, At
      <4>2. proc'[x] = proc[x]
        BY <1>5, <3>2, <3>3, <3>4
      <4>3. IsParent(q, x)'
        BY <1>1, <1>4, <3>3, <3>4, <4>1, <4>2 DEF IsParent
      <4>4. QED
        BY <3>2, <4>3
    <3>5. CASE q # p
      <4>1. proc'[q] = proc[q] /\ q \in Programs' /\ q \in Alive'
        BY <1>4, <1>5, <3>3, <3>5
      <4>2. proc'[x].pc # "zombie" => proc[x].pc # "zombie"
        BY <1>2, <1>5, <3>2
      <4>3. IsParent(q, x)'
        BY <3>3, <4>1, <4>2 DEF IsParent, At
      <4>4. QED
        BY <3>2, <4>3
    <3>6. QED
      BY <3>4, <3>5
  <2>3. QED
    BY <2>1, <2>2
<1>14. FileInv'
  <2> SUFFICES ASSUME NEW q \in Pids, proc'[q].wants = "id",
                      At(q, "fork")' \/ (At(q, "read") /\ Forked(proc[q].child))'
               PROVE  dir'[NameOf(q)'] \in ContentsOf(q)'
    BY DEF FileInv
  <2>1. CASE q = p
    <3>1. dir[NameOf(p)] \in ContentsOf(p)
      BY <1>1, <1>2, <2>1 DEF FileInv, At
    <3>2. NameOf(p)' = NameOf(p) /\ ContentsOf(p)' = ContentsOf(p)
      BY <1>1, <1>3 DEF NameOf, ContentsOf, FilesOf
    <3>3. QED
      BY <1>3, <2>1, <3>1, <3>2
  <2>2. CASE q # p
    <3>1. q # c
      BY <1>1 DEF At
    <3>2. proc'[q] = proc[q] /\ q \in Alive
      BY <1>1, <1>4, <2>2, <3>1 DEF At
    <3>3. At(q, "fork") \/ (At(q, "read") /\ Forked(proc[q].child))
      <4>1. CASE At(q, "fork")'
        BY <3>2, <4>1 DEF At
      <4>2. CASE At(q, "read")' /\ Forked(proc[q].child)'
        <5>1. PICK d : d = proc[q].child
          OBVIOUS
        <5>2. At(q, "read") /\ d \in Alive /\ Forked(d)'
          BY <1>7, <2>2, <3>2, <4>2, <5>1 DEF Forked, At
        <5>3. QED
          BY <1>8, <5>1, <5>2
      <4>3. QED
        BY <4>1, <4>2
    <3>4. QED
      BY <1>3, <3>2, <3>3 DEF FileInv, NameOf, ContentsOf, FilesOf
  <2>3. QED
    BY <2>1, <2>2
<1>15. WaitsForCopy(p)'
  BY <1>1, <1>4, <1>2 DEF WaitsForCopy, At
<1>16. ServesInv'
  BY <1>9, <1>15 DEF ServesInv, Serving
<1>17. SpentInv'
  <2> SUFFICES ASSUME NEW i \in DOMAIN rows, NEW q \in Pids, q \in Programs',
                      proc'[q].req = rows[i].req
               PROVE  Spent(q)'
    BY <1>3 DEF SpentInv, Programs, Alive
  <2>1. q \notin {p, c}
    BY <1>1, <1>2, NoRowYet
  <2>2. QED
    BY <1>9, <2>1 DEF Spent
<1>18. RowsInv' /\ OneRowPerUpload'
  BY <1>3, RowsKeep
<1>19. QED
  BY <1>10, <1>11, <1>12, <1>13, <1>14, <1>16, <1>17, <1>18

(* A program goes on after its child c ended: it reads what c wrote, or    *)
(* waits for c, and k is what is left of c.                                *)
GoesOn(p, r, c, k) ==
  /\ p \in Programs /\ proc[p].pc \in {"read", "wait"}
  /\ At(p, "read") => proc[p].child = c
  /\ At(c, "zombie") /\ proc[c].parent = p
  /\ r \in Processes /\ r.pc \in {"reply", "wait", "unlink", "insert"}
  /\ r.parent = proc[p].parent
  /\ \/ k = None
     \/ k \in Processes /\ k.pc = "zombie" /\ k.parent = p
  /\ proc' = [proc EXCEPT ![p] = r, ![c] = k]

LEMMA GoesOnKeeps ==
  ASSUME HostInv, NEW p \in Pids, NEW c \in Pids, NEW r, NEW k,
         GoesOn(p, r, c, k), HandsOf(p)',
         UNCHANGED <<dir, blobs, rows, sent, answers, spoilt, execFails, faults>>,
         \A i \in DOMAIN rows : rows[i].req = r.req => Spent(p)'
  PROVE  HostInv'
<1> USE DEF HostInv
<1>1. /\ p \in Alive /\ c \in Alive /\ p # c
      /\ proc[p].pc # "zombie" /\ proc[p].pc # "fork" /\ proc[c].pc = "zombie"
      /\ c \notin Programs
  BY DEF GoesOn, Programs, Alive, At, Serves
<1>2. /\ proc' \in [Pids -> Processes \cup {None}]
      /\ proc'[p] = r /\ proc'[c] = k /\ r # None
      /\ \A q \in Pids \ {p, c} : proc'[q] = proc[q]
  <2>1. proc \in [Pids -> Processes \cup {None}]
    BY DEF HostTypeOK
  <2>2. /\ r \in Processes /\ k \in Processes \cup {None}
        /\ proc' = [proc EXCEPT ![p] = r, ![c] = k]
    BY DEF GoesOn
  <2>3. QED
    BY <1>1, <2>1, <2>2, NoneIsNoProcess
<1>3. /\ Alive' \subseteq Alive /\ Alive \ {c} \subseteq Alive'
      /\ c \in Alive' => k # None
  BY <1>1, <1>2 DEF Alive
<1>4. \A q \in Alive \ {p, c} : proc'[q] = proc[q] /\ q \in Alive'
  BY <1>2, <1>3 DEF Alive
<1>5. Programs' = Programs
  <2>1. p \in Programs'
    BY <1>1, <1>2, <1>3 DEF Programs, GoesOn, Serves
  <2>2. c \notin Programs'
    BY <1>2, <1>3 DEF Programs, GoesOn, Serves
  <2>3. \A q \in Alive \ {p, c} : q \in Programs' <=> q \in Programs
    BY <1>3, <1>4 DEF Programs
  <2>4. Programs' \subseteq Alive /\ Programs \subseteq Alive
    BY <1>3 DEF Programs
  <2>5. p \in Programs
    BY DEF GoesOn
  <2>6. QED
    BY <1>1, <2>1, <2>2, <2>3, <2>4, <2>5
<1>6. Serving(p)
  BY <1>1 DEF GoesOn, Serving, WaitsForCopy
<1>7. ASSUME NEW q \in Pids, At(q, "read")'
      PROVE  /\ q # p /\ At(q, "read") /\ proc'[q] = proc[q]
             /\ proc[q].child \in Alive /\ proc[q].child # c
  <2>1. q \notin {p, c}
    BY <1>2, <1>3, <1>7 DEF At, GoesOn
  <2>2. At(q, "read") /\ proc'[q] = proc[q]
    BY <1>2, <1>3, <1>7, <2>1 DEF At
  <2>3. proc[c].parent = p
    BY DEF GoesOn
  <2>4. QED
    BY <2>1, <2>2, <2>3, ChildIs
<1>8. ASSUME NEW q \in Programs, q # p
      PROVE  WaitsForCopy(q)'
  <2>1. WaitsForCopy(q)
    BY <1>6, <1>8, OthersWait
  <2>2. proc'[q] = proc[q] /\ q \in Alive'
    BY <1>1, <1>4, <1>8 DEF Programs
  <2>3. QED
    BY <1>5, <2>1, <2>2 DEF WaitsForCopy, At
<1>9. ASSUME NEW d \in Alive, Forked(d)' PROVE Forked(d) /\ d \notin {p, c}
  <2>1. d \notin {p, c}
    BY <1>2, <1>3, <1>9 DEF Forked, At, GoesOn
  <2>2. QED
    BY <1>4, <1>9, <2>1 DEF Forked, At
<1>10. HostTypeOK'
  BY <1>2 DEF HostTypeOK
<1>11. HandsInv'
  <2> SUFFICES ASSUME NEW q \in Pids, q # p, q \in Alive', proc'[q].pc # "zombie"
               PROVE  HandsOf(q)'
    BY DEF HandsInv
  <2>1. q # c
    BY <1>2, <1>3 DEF GoesOn
  <2>2. q \in Alive /\ proc'[q] = proc[q]
    BY <1>2, <1>3, <2>1
  <2>3. HandsOf(q)
    BY <2>2 DEF HandsInv
  <2>4. QED
    BY <2>2, <2>3 DEF HandsOf, ContentsOf, FilesOf
<1>12. ReadsInv'
  <2> SUFFICES ASSUME NEW q \in Pids, At(q, "read")'
               PROVE  ReadsFrom(q, proc[q].child)'
    BY DEF ReadsInv
  <2>1. PICK d : d = proc[q].child
    OBVIOUS
  <2>2. /\ At(q, "read") /\ proc'[q] = proc[q] /\ d \in Alive /\ d # c
        /\ ReadsFrom(q, d)
    BY <1>7, <2>1, ChildIs
  <2>3. ContentsOf(q)' = ContentsOf(q)
    BY <2>2 DEF ContentsOf, FilesOf
  <2>4. CASE d = p
    <3>1. proc'[d] = r /\ d \in Alive' /\ r.parent = q
      BY <1>1, <1>2, <1>3, <2>2, <2>4 DEF ReadsFrom, GoesOn
    <3>2. r.pc \notin {"zombie", "exec", "tool"}
      BY DEF GoesOn
    <3>3. ReadsFrom(q, d)'
      BY <3>1, <3>2 DEF ReadsFrom, Forked, At
    <3>4. QED
      BY <2>1, <2>2, <3>3
  <2>5. CASE d # p
    <3>1. proc'[d] = proc[d] /\ d \in Alive'
      BY <1>4, <2>2, <2>5
    <3>2. ReadsFrom(q, d)'
      BY <2>2, <2>3, <3>1 DEF ReadsFrom, Forked, At
    <3>3. QED
      BY <2>1, <2>2, <3>2
  <2>6. QED
    BY <2>4, <2>5
<1>13. FamilyInv'
  <2> SUFFICES ASSUME NEW x \in Pids, x \in Alive', proc'[x].parent # 0
               PROVE  IsParent(proc[x].parent, x)'
    BY DEF FamilyInv
  <2>1. PICK q : q = proc[x].parent
    OBVIOUS
  <2>2. x \in Alive /\ proc'[x].parent = q /\ q # 0
    <3>1. x \in Alive
      BY <1>3
    <3>2. proc'[x].parent = proc[x].parent
      BY <1>2, <1>3, <1>4, <3>1 DEF GoesOn
    <3>3. QED
      BY <2>1, <3>1, <3>2
  <2>3. IsParent(q, x) /\ q \in Programs /\ q \in Alive /\ q # x
    BY <2>1, <2>2, ParentIs
  <2>4. proc'[x].pc # "zombie" => proc[x].pc # "zombie"
    BY <1>1, <1>2, <1>3, <1>4, <2>2 DEF GoesOn
  <2>5. CASE q = p
    <3>1. proc'[x].pc = "zombie"
      <4>1. CASE x = c
        BY <1>2, <1>3, <4>1 DEF GoesOn
      <4>2. CASE x # c
        BY <1>4, <2>2, <2>3, <2>5, <4>2 DEF IsParent, GoesOn
      <4>3. QED
        BY <4>1, <4>2
    <3>2. p \in Programs' /\ proc'[p].pc # "exec"
      BY <1>2, <1>5 DEF GoesOn
    <3>3. IsParent(q, x)'
      BY <2>3, <2>5, <3>1, <3>2 DEF IsParent
    <3>4. QED
      BY <2>2, <3>3
  <2>6. CASE q # p
    <3>1. proc'[q] = proc[q] /\ q \in Programs' /\ q \in Alive'
      BY <1>1, <1>4, <1>5, <2>3, <2>6
    <3>2. IsParent(q, x)'
      BY <2>3, <2>4, <3>1 DEF IsParent, At
    <3>3. QED
      BY <2>2, <3>2
  <2>7. QED
    BY <2>5, <2>6
<1>14. FileInv'
  <2> SUFFICES ASSUME NEW q \in Pids, proc'[q].wants = "id",
                      At(q, "fork")' \/ (At(q, "read") /\ Forked(proc[q].child))'
               PROVE  dir'[NameOf(q)'] \in ContentsOf(q)'
    BY DEF FileInv
  <2>1. q \notin {p, c}
    BY <1>2, <1>3, <1>7 DEF At, GoesOn
  <2>2. q \in Alive /\ proc'[q] = proc[q]
    BY <1>2, <1>3, <2>1 DEF At
  <2>3. At(q, "fork") \/ (At(q, "read") /\ Forked(proc[q].child))
    <3>1. CASE At(q, "fork")'
      BY <2>2, <3>1 DEF At
    <3>2. CASE At(q, "read")' /\ Forked(proc[q].child)'
      <4>1. PICK d : d = proc[q].child
        OBVIOUS
      <4>2. At(q, "read") /\ d \in Alive /\ Forked(d)'
        BY <1>7, <2>2, <3>2, <4>1 DEF Forked, At
      <4>3. QED
        BY <1>9, <4>1, <4>2
    <3>3. QED
      BY <3>1, <3>2
  <2>4. QED
    BY <2>2, <2>3 DEF FileInv, NameOf, ContentsOf, FilesOf
<1>15. ServesInv'
  BY <1>5, <1>8 DEF ServesInv, Serving
<1>16. SpentInv'
  <2> SUFFICES ASSUME NEW i \in DOMAIN rows, NEW q \in Pids, q \in Programs',
                      proc'[q].req = rows[i].req
               PROVE  Spent(q)'
    BY DEF SpentInv, Programs, Alive
  <2>1. q # p => WaitsForCopy(q)'
    BY <1>5, <1>8
  <2>2. QED
    BY <1>2, <2>1 DEF Spent
<1>17. RowsInv' /\ OneRowPerUpload'
  BY RowsKeep
<1>18. QED
  BY <1>10, <1>11, <1>12, <1>13, <1>14, <1>15, <1>16, <1>17

(* What a program that reads knows of a child that has ended *)
LEMMA EndedChild ==
  ASSUME HostInv, NEW p \in Pids, At(p, "read"), NEW c, c = proc[p].child,
         At(c, "zombie")
  PROVE  /\ p \in Programs /\ proc[p] \in Processes /\ proc[p].pc = "read"
         /\ c \in Pids /\ proc[c] \in Processes /\ proc[c].pc = "zombie"
         /\ proc[c].parent = p /\ p # c
         /\ HandsOf(p) /\ ReadsFrom(p, c)
         /\ \A i \in DOMAIN rows :
              rows[i].req = proc[p].req => proc[c].out = None
<1>1. /\ p \in Programs /\ proc[p] \in Processes /\ proc[p].pc = "read"
      /\ proc[c].pc = "zombie" /\ HandsOf(p)
  BY ProcTyped DEF HostInv, At, Programs, Serves, HandsInv, Alive
<1>2. /\ c \in Pids /\ c \in Alive /\ proc[c].parent = p /\ ReadsFrom(p, c)
  BY ChildIs
<1>3. proc[c] \in Processes
  BY <1>2, ProcTyped DEF HostInv
<1>4. ASSUME NEW i \in DOMAIN rows, rows[i].req = proc[p].req
      PROVE  proc[c].out = None
  <2>1. Spent(p)
    BY <1>1, <1>4 DEF HostInv, SpentInv
  <2>2. c \notin Programs
    BY <1>1 DEF Programs, Serves
  <2>3. QED
    BY <1>1, <2>1, <2>2 DEF Spent, WaitsForCopy, At
<1>5. QED
  BY <1>1, <1>2, <1>3, <1>4

LEMMA ReadIdKeeps ==
  ASSUME HostInv, NEW p \in Pids, Read(p), proc[p].wants = "id"
  PROVE  HostInv'
<1> PICK c : c = proc[p].child
  OBVIOUS
<1> PICK id : id = IF proc[c].out = None THEN proc[p].id ELSE proc[c].out
  OBVIOUS
<1>1. At(p, "read") /\ At(c, "zombie") /\ ReadId(p, c)
  BY DEF Read
<1>2. /\ p \in Programs /\ proc[p] \in Processes /\ proc[p].pc = "read"
      /\ c \in Pids /\ proc[c] \in Processes /\ proc[c].pc = "zombie"
      /\ proc[c].parent = p /\ p # c /\ HandsOf(p) /\ ReadsFrom(p, c)
  BY <1>1, EndedChild
<1>3. UNCHANGED <<dir, blobs, rows, sent, answers, spoilt, execFails, faults>>
  BY DEF Read
<1>4. proc[p].id = 0 /\ proc[p].out = None /\ proc[p].req \in DOMAIN sent
  BY <1>2 DEF HandsOf
<1>5. proc \in [Pids -> Processes \cup {None}]
  BY DEF HostInv, HostTypeOK
<1>6. CASE id = 0
  <2> PICK m : m = proc[p].leaked + 1
    OBVIOUS
  <2> PICK r : r = [proc[p] EXCEPT !.pc = "reply", !.code = "009",
                                   !.leaked = m]
    OBVIOUS
  <2>1. m \in Nat
    BY <1>2, NatAdds DEF Processes
  <2>2. /\ r \in Processes /\ r.pc = "reply" /\ r.parent = proc[p].parent
        /\ r.req = proc[p].req /\ r.id = proc[p].id /\ r.out = proc[p].out
        /\ r.wants = proc[p].wants /\ r.code = "009"
    BY ZenonT(60), <1>2, <2>1 DEF Processes, Serves
  <2>3. proc' = [proc EXCEPT ![p] = r]
    BY <1>1, <1>6 DEF ReadId
  <2>4. proc' = [proc EXCEPT ![p] = r, ![c] = proc[c]]
    BY <1>2, <1>5, <2>3
  <2>5. GoesOn(p, r, c, proc[c])
    BY <1>1, <1>2, <2>2, <2>4 DEF GoesOn
  <2>6. proc'[p] = r /\ p \in Alive'
    BY <1>5, <2>2, <2>3, NoneIsNoProcess DEF Alive
  <2>7. HandsOf(p)'
    BY <1>3, <1>4, <2>2, <2>6 DEF HandsOf
  <2>8. Spent(p)'
    BY <2>2, <2>6 DEF Spent, At
  <2>9. QED
    BY <1>2, <1>3, <2>5, <2>7, <2>8, GoesOnKeeps
<1>7. CASE id # 0
  <2>1. proc[c].out # None /\ id = proc[c].out
    BY <1>4, <1>7
  <2>2. id \in DOMAIN blobs /\ blobs[id] \in ContentsOf(p) /\ id \in Nat
    BY <1>1, <1>2, <2>1 DEF ReadsFrom, Processes
  <2> PICK r : r = [proc[p] EXCEPT !.pc = "wait", !.id = id]
    OBVIOUS
  <2> PICK k : k = [proc[c] EXCEPT !.out = None]
    OBVIOUS
  <2>3. /\ r \in Processes /\ r.pc = "wait" /\ r.parent = proc[p].parent
        /\ r.req = proc[p].req /\ r.id = id /\ r.out = proc[p].out
        /\ r.wants = proc[p].wants
    BY <1>2, <2>2 DEF Processes, Serves
  <2>4. k \in Processes /\ k.pc = "zombie" /\ k.parent = p
    BY <1>2 DEF Processes
  <2>5. proc' = [proc EXCEPT ![p] = r, ![c] = k]
    BY <1>1, <1>2, <1>5, <1>7 DEF ReadId
  <2>6. GoesOn(p, r, c, k)
    BY <1>1, <1>2, <2>3, <2>4, <2>5 DEF GoesOn
  <2>7. proc'[p] = r
    BY <1>2, <1>5, <2>5
  <2>8. HandsOf(p)'
    <3>1. ContentsOf(p)' = ContentsOf(p)
      BY <1>3, <2>3, <2>7 DEF ContentsOf, FilesOf
    <3>2. QED
      BY <1>3, <1>4, <2>2, <2>3, <2>7, <3>1 DEF HandsOf
  <2>9. \A i \in DOMAIN rows : rows[i].req # r.req
    BY <1>1, <2>1, <2>3, EndedChild
  <2>10. QED
    BY ZenonT(60), <1>2, <1>3, <2>6, <2>8, <2>9, GoesOnKeeps
<1>8. QED
  BY <1>6, <1>7

LEMMA ReadUrlKeeps ==
  ASSUME HostInv, NEW p \in Pids, Read(p), proc[p].wants # "id"
  PROVE  HostInv'
<1> PICK c : c = proc[p].child
  OBVIOUS
<1> PICK url : url = (proc[c].out # None)
  OBVIOUS
<1>1. At(p, "read") /\ At(c, "zombie") /\ ReadUrl(p, c)
  BY DEF Read
<1>2. /\ p \in Programs /\ proc[p] \in Processes /\ proc[p].pc = "read"
      /\ c \in Pids /\ proc[c] \in Processes /\ proc[c].pc = "zombie"
      /\ proc[c].parent = p /\ p # c /\ HandsOf(p)
  BY <1>1, EndedChild
<1>3. UNCHANGED <<dir, blobs, rows, sent, answers, spoilt, execFails, faults>>
  BY DEF Read
<1>4. proc \in [Pids -> Processes \cup {None}]
  BY DEF HostInv, HostTypeOK
<1> PICK r : r = [proc[p] EXCEPT !.pc = "wait", !.url = url]
  OBVIOUS
<1> PICK k : k = [proc[c] EXCEPT !.out = None]
  OBVIOUS
<1>5. /\ r \in Processes /\ r.pc = "wait" /\ r.parent = proc[p].parent
      /\ r.req = proc[p].req /\ r.id = proc[p].id /\ r.out = proc[p].out
      /\ r.wants = proc[p].wants /\ r.url = url
  <2>1. url \in BOOLEAN
    OBVIOUS
  <2>2. QED
    BY ZenonT(60), <1>2, <2>1 DEF Processes, Serves
<1>6. k \in Processes /\ k.pc = "zombie" /\ k.parent = p
  BY <1>2 DEF Processes
<1>7. proc' = [proc EXCEPT ![p] = r, ![c] = k]
  BY <1>1, <1>2, <1>4 DEF ReadUrl
<1>8. GoesOn(p, r, c, k)
  BY <1>1, <1>2, <1>5, <1>6, <1>7 DEF GoesOn
<1>9. proc'[p] = r /\ p \in Alive'
  BY <1>2, <1>4, <1>5, <1>7, NoneIsNoProcess DEF Alive
<1>10. HandsOf(p)'
  <2>1. ContentsOf(p)' = ContentsOf(p)
    BY <1>3, <1>5, <1>9 DEF ContentsOf, FilesOf
  <2>2. QED
    BY <1>2, <1>3, <1>5, <1>9, <2>1 DEF HandsOf
<1>11. ASSUME NEW i \in DOMAIN rows, rows[i].req = r.req PROVE Spent(p)'
  <2>1. proc[c].out = None
    BY <1>1, <1>5, <1>11, EndedChild
  <2>2. ~r.url
    BY <1>5, <2>1
  <2>3. r.wants = "url"
    BY <1>2, <1>5 DEF Processes
  <2>4. QED
    BY <1>5, <1>9, <2>2, <2>3 DEF Spent, At
<1>12. QED
  BY <1>2, <1>3, <1>8, <1>10, <1>11, GoesOnKeeps

LEMMA WaitKeeps ==
  ASSUME HostInv, NEW p \in Pids, WaitId(p) \/ WaitUrl(p)
  PROVE  HostInv'
<1> PICK pc \in {"unlink", "insert"} :
        /\ WaitGoes(p, pc)
        /\ pc = "unlink" => proc[p].wants = "id"
        /\ pc = "insert" => proc[p].wants = "url" /\ proc[p].url
  BY DEF WaitId, WaitUrl
<1>1. PICK c \in Reaped(p) :
        proc' = [proc EXCEPT ![c] = None, ![p].pc = pc, ![p].child = 0]
  BY DEF WaitGoes
<1>2. /\ p \in Programs /\ proc[p] \in Processes /\ proc[p].pc = "wait"
      /\ c \in Pids /\ At(c, "zombie") /\ proc[c].parent = p /\ p # c
      /\ HandsOf(p)
  BY ProcTyped DEF WaitGoes, At, Programs, Serves, Reaped, Alive, HostInv,
    HandsInv
<1>3. UNCHANGED <<dir, blobs, rows, sent, answers, spoilt, execFails, faults>>
  BY DEF WaitGoes
<1>4. proc \in [Pids -> Processes \cup {None}]
  BY DEF HostInv, HostTypeOK
<1> PICK r : r = [proc[p] EXCEPT !.pc = pc, !.child = 0]
  OBVIOUS
<1>5. /\ r \in Processes /\ r.pc = pc /\ r.parent = proc[p].parent
      /\ r.req = proc[p].req /\ r.id = proc[p].id /\ r.out = proc[p].out
      /\ r.wants = proc[p].wants
  BY <1>2 DEF Processes, Serves
<1>6. proc' = [proc EXCEPT ![p] = r, ![c] = None]
  BY <1>1, <1>2, <1>4
<1>7. GoesOn(p, r, c, None)
  BY <1>2, <1>5, <1>6 DEF GoesOn, At
<1>8. proc'[p] = r
  BY <1>2, <1>4, <1>6
<1>9. HandsOf(p)'
  <2>1. ContentsOf(p)' = ContentsOf(p)
    BY <1>3, <1>5, <1>8 DEF ContentsOf, FilesOf
  <2>2. /\ proc[p].req \in DOMAIN sent /\ proc[p].out = None
        /\ proc[p].id # 0 => /\ proc[p].id \in DOMAIN blobs
                             /\ blobs[proc[p].id] \in ContentsOf(p)
    BY <1>2 DEF HandsOf
  <2>3. r.pc \notin {"accept", "save", "reply"}
    BY <1>5
  <2>4. r.wants = "id" => r.pc = "unlink"
    BY <1>5
  <2>5. QED
    BY <1>3, <1>5, <1>8, <2>1, <2>2, <2>3, <2>4 DEF HandsOf
<1>10. \A i \in DOMAIN rows : rows[i].req # r.req
  <2>1. ~Spent(p)
    BY <1>2 DEF Spent, WaitsForCopy, At
  <2>2. QED
    BY <1>2, <1>5, <2>1 DEF HostInv, SpentInv
<1>11. QED
  BY <1>2, <1>3, <1>7, <1>9, <1>10, GoesOnKeeps

-----------------------------------------------------------------------------
(* Processes that end *)

(* k is what is left of c, and its own zombies go with it. *)
Parts(c, k) ==
  /\ proc' \in [Pids -> Processes \cup {None}] /\ proc'[c] = k
  /\ k # None => k.pc = "zombie" /\ k.parent = proc[c].parent
  /\ k = None => proc[c].parent = 0
  /\ \A q \in Pids \ {c} :
       IF At(q, "zombie") /\ proc[q].parent = c THEN proc'[q] = None
                                                ELSE proc'[q] = proc[q]

LEMMA PartsKeeps ==
  ASSUME HostInv, HostTypeOK', NEW c \in Alive, NEW k, Parts(c, k),
         proc[c].pc \in {"tool", "wait"},
         UNCHANGED <<dir, rows, sent, spoilt>>,
         \A i \in DOMAIN blobs : i \in DOMAIN blobs' /\ blobs'[i] = blobs[i],
         k # None /\ proc[c].pc = "wait" => k.out = None,
         \A q \in Pids :
           At(q, "read") /\ proc[q].child = c /\ proc[q].wants = "id"
             /\ k.out # None
           => k.out \in DOMAIN blobs' /\ blobs'[k.out] \in ContentsOf(q)
  PROVE  HostInv'
<1> USE DEF HostInv
<1>1. c \in Pids /\ (c \in Programs <=> proc[c].pc = "wait")
  BY DEF Alive, Programs, Serves
<1>2. /\ Alive' \subseteq Alive
      /\ \A q \in Alive' \ {c} : proc'[q] = proc[q]
      /\ \A q \in Alive \ {c} :
           q \in Alive' \/ (proc[q].pc = "zombie" /\ proc[q].parent = c)
  <2>1. \A q \in Pids \ {c} :
          \/ proc'[q] = proc[q]
          \/ proc'[q] = None /\ proc[q].pc = "zombie" /\ proc[q].parent = c
    BY DEF Parts, At
  <2>2. QED
    BY <2>1 DEF Alive
<1>3. Programs' = Programs \ {c}
  <2>1. c \notin Programs'
    BY <1>1 DEF Parts, Programs, Alive, Serves
  <2>2. \A q \in Alive \ {c} : q \in Programs' <=> q \in Programs
    BY <1>2 DEF Programs, Serves
  <2>3. QED
    BY <1>2, <2>1, <2>2 DEF Programs
<1>4. ASSUME NEW q \in Programs \ {c}
      PROVE  proc'[q] = proc[q] /\ q \in Alive'
  BY <1>2, <1>3, <1>4 DEF Programs
<1>5. ASSUME NEW q \in Pids, At(q, "read")'
      PROVE  q # c /\ At(q, "read") /\ proc'[q] = proc[q]
  <2>1. q # c
    BY <1>1, <1>5 DEF At, Alive, Parts
  <2>2. QED
    BY <1>2, <1>5, <2>1 DEF At
<1>6. ASSUME NEW q \in Pids, At(q, "read"), q # c
      PROVE  \A d : d = proc[q].child /\ d # c =>
               proc'[d] = proc[d] /\ d \in Alive'
  BY <1>2, <1>6, ChildIs
<1>7. ASSUME NEW q \in Programs', ~WaitsForCopy(q)', WaitsForCopy(q)
      PROVE  proc[q].child = c /\ c \in Programs
  BY <1>3, <1>4, <1>7 DEF WaitsForCopy, At
<1>8. HandsInv'
  <2> SUFFICES ASSUME NEW q \in Pids, q \in Alive', proc'[q].pc # "zombie"
               PROVE  HandsOf(q)'
    BY DEF HandsInv
  <2>1. q # c
    BY DEF Parts, Alive
  <2>2. q \in Alive /\ proc'[q] = proc[q]
    BY <1>2, <2>1
  <2>3. HandsOf(q)
    BY <2>2 DEF HandsInv
  <2>4. ContentsOf(q)' = ContentsOf(q)
    BY <2>2 DEF ContentsOf, FilesOf
  <2>5. QED
    BY <2>2, <2>3, <2>4 DEF HandsOf
<1>9. ReadsInv'
  <2> SUFFICES ASSUME NEW q \in Pids, At(q, "read")'
               PROVE  ReadsFrom(q, proc[q].child)'
    BY DEF ReadsInv
  <2>1. PICK d : d = proc[q].child
    OBVIOUS
  <2>2. /\ q # c /\ At(q, "read") /\ proc'[q] = proc[q] /\ d \in Alive
        /\ ReadsFrom(q, d)
    BY <1>5, <2>1, ChildIs
  <2>3. ContentsOf(q)' = ContentsOf(q)
    BY <2>2 DEF ContentsOf, FilesOf
  <2>4. CASE d = c
    <3>1. q # 0
      BY DEF Pids
    <3>2. proc'[d] = k /\ k # None /\ k.pc = "zombie" /\ k.parent = q
      BY <2>2, <2>4, <3>1 DEF Parts, ReadsFrom
    <3>3. d \in Alive'
      BY <1>1, <2>4, <3>2 DEF Alive
    <3>4. ReadsFrom(q, d)'
      BY <2>1, <2>2, <2>3, <2>4, <3>2, <3>3 DEF ReadsFrom, Forked, At
    <3>5. QED
      BY <2>1, <2>2, <3>4
  <2>5. CASE d # c
    <3>1. proc'[d] = proc[d] /\ d \in Alive'
      BY <1>6, <2>1, <2>2, <2>5
    <3>2. ReadsFrom(q, d)'
      BY <2>2, <2>3, <3>1 DEF ReadsFrom, Forked, At
    <3>3. QED
      BY <2>1, <2>2, <3>2
  <2>6. QED
    BY <2>4, <2>5
<1>10. FamilyInv'
  <2> SUFFICES ASSUME NEW x \in Pids, x \in Alive', proc'[x].parent # 0
               PROVE  IsParent(proc[x].parent, x)'
    BY DEF FamilyInv
  <2>1. PICK q : q = proc[x].parent
    OBVIOUS
  <2>2. x \in Alive /\ proc'[x].parent = q /\ q # 0
    <3>1. x = c => proc'[x].parent = q
      BY <2>1 DEF Parts, Alive
    <3>2. QED
      BY <1>2, <2>1, <3>1
  <2>3. IsParent(q, x) /\ q \in Programs /\ q # x
    BY <2>1, <2>2, ParentIs
  <2>4. q # c
    <3>1. SUFFICES ASSUME q = c PROVE FALSE
      OBVIOUS
    <3>2. proc[x].pc = "zombie"
      BY <2>3, <3>1 DEF IsParent, At
    <3>3. x \in Alive /\ x # c /\ proc[x].parent = c
      BY <2>1, <2>2, <2>3, <3>1
    <3>4. proc'[x] = None
      BY <3>2, <3>3 DEF Parts, At
    <3>5. QED
      BY <3>4 DEF Alive
  <2>5. proc'[q] = proc[q] /\ q \in Programs' /\ q \in Alive'
    BY <1>3, <1>4, <2>3, <2>4
  <2>6. proc'[x].pc # "zombie" => proc[x].pc # "zombie"
    <3>1. x = c => proc'[x].pc = "zombie"
      BY DEF Parts, Alive
    <3>2. QED
      BY <1>2, <3>1
  <2>7. IsParent(q, x)'
    BY <2>3, <2>5, <2>6 DEF IsParent, At
  <2>8. QED
    BY <2>2, <2>7
<1>11. FileInv'
  <2> SUFFICES ASSUME NEW q \in Pids, proc'[q].wants = "id",
                      At(q, "fork")' \/ (At(q, "read") /\ Forked(proc[q].child))'
               PROVE  dir'[NameOf(q)'] \in ContentsOf(q)'
    BY DEF FileInv
  <2>1. q # c
    BY DEF At, Parts, Alive
  <2>2. q \in Alive /\ proc'[q] = proc[q]
    BY <1>2, <2>1 DEF At
  <2>3. At(q, "fork") \/ (At(q, "read") /\ Forked(proc[q].child))
    <3>1. CASE At(q, "fork")'
      BY <2>2, <3>1 DEF At
    <3>2. CASE At(q, "read")' /\ Forked(proc[q].child)'
      <4>1. PICK d : d = proc[q].child
        OBVIOUS
      <4>2. At(q, "read") /\ Forked(d)'
        BY <1>5, <2>2, <3>2, <4>1 DEF Forked, At
      <4>3. d # c
        BY <4>2 DEF Forked, At, Parts, Alive
      <4>4. proc'[d] = proc[d] /\ d \in Alive
        BY <1>6, <2>1, <4>1, <4>2, <4>3, ChildIs
      <4>5. QED
        BY <4>1, <4>2, <4>4 DEF Forked, At
    <3>3. QED
      BY <3>1, <3>2
  <2>4. QED
    BY <2>2, <2>3 DEF FileInv, NameOf, ContentsOf, FilesOf
<1>12. ServesInv'
  <2>1. ASSUME NEW q \in Pids, Serving(q)'
        PROVE  /\ c \in Programs => q = proc[c].parent
               /\ c \notin Programs => Serving(q)
    <3>1. q \in Programs' /\ q \in Programs /\ q # c
      BY <1>3, <2>1 DEF Serving
    <3>2. c \in Programs => Serving(c)
      BY <1>1 DEF Serving, WaitsForCopy, At
    <3>3. CASE WaitsForCopy(q)
      <4>1. proc[q].child = c /\ c \in Programs /\ At(q, "read")
        BY <1>7, <2>1, <3>1, <3>3 DEF Serving, WaitsForCopy
      <4>2. QED
        BY <4>1, ChildIs
    <3>4. CASE ~WaitsForCopy(q)
      BY <1>1, <3>1, <3>2, <3>4, OthersWait DEF Serving
    <3>5. QED
      BY <3>3, <3>4
  <2>2. CASE c \in Programs
    BY <2>1, <2>2 DEF ServesInv
  <2>3. CASE c \notin Programs
    BY <2>1, <2>3 DEF ServesInv
  <2>4. QED
    BY <2>2, <2>3
<1>13. SpentInv'
  <2> SUFFICES ASSUME NEW i \in DOMAIN rows, NEW q \in Pids, q \in Programs',
                      proc'[q].req = rows[i].req
               PROVE  Spent(q)'
    BY DEF SpentInv, Programs, Alive
  <2>1. q \in Programs /\ q # c /\ proc'[q] = proc[q] /\ q \in Alive'
    BY <1>3, <1>4
  <2>2. Spent(q)
    BY <2>1 DEF SpentInv
  <2>3. CASE At(q, "read")
    <3>1. PICK d : d = proc[q].child
      OBVIOUS
    <3>2. At(q, "read")' /\ proc'[q].child = d
      BY <2>1, <2>3, <3>1 DEF At
    <3>3. CASE WaitsForCopy(q)'
      BY <3>3 DEF Spent
    <3>4. CASE WaitsForCopy(q) /\ ~WaitsForCopy(q)'
      <4>1. d = c /\ proc[c].pc = "wait"
        BY <1>1, <1>7, <2>1, <3>1, <3>4
      <4>2. proc[c].parent = q /\ q # 0
        <5>1. proc[d].parent = q
          BY <2>3, <3>1, ChildIs
        <5>2. 0 \notin Pids
          BY DEF Pids
        <5>3. QED
          BY <4>1, <5>1, <5>2
      <4>3. k # None /\ k.pc = "zombie" /\ k.out = None /\ proc'[c] = k
        BY <4>1, <4>2 DEF Parts
      <4>4. At(c, "zombie")' /\ proc'[c].out = None
        BY <1>1, <4>3 DEF At, Alive
      <4>5. QED
        BY <3>2, <4>1, <4>4 DEF Spent
    <3>5. CASE ~WaitsForCopy(q)
      <4>1. At(d, "zombie") /\ proc[d].out = None
        BY <2>2, <2>3, <3>1, <3>5 DEF Spent, At
      <4>2. d # c
        BY <4>1 DEF At
      <4>3. proc'[d] = proc[d] /\ d \in Alive'
        BY <1>6, <2>1, <2>3, <3>1, <4>2
      <4>4. At(d, "zombie")' /\ proc'[d].out = None
        BY <4>1, <4>3 DEF At
      <4>5. QED
        BY <3>2, <4>4 DEF Spent
    <3>6. QED
      BY <3>3, <3>4, <3>5
  <2>4. CASE ~At(q, "read")
    BY <2>1, <2>2, <2>4 DEF Spent, WaitsForCopy, At
  <2>5. QED
    BY <2>3, <2>4
<1>14. RowsInv' /\ OneRowPerUpload'
  BY RowsKeep
<1>15. QED
  BY <1>8, <1>9, <1>10, <1>11, <1>12, <1>13, <1>14

LEMMA FreshIs ==
  /\ Fresh \in Processes /\ Fresh.pc = "accept" /\ Fresh.parent = 0
  /\ Fresh.req = 0 /\ Fresh.id = 0 /\ Fresh.wants = "id" /\ Fresh.out = None
BY DEF Fresh, Processes, Serves

Zombie(q) == [Fresh EXCEPT !.pc = "zombie", !.parent = q]

LEMMA ZombieIs ==
  ASSUME NEW q \in {0} \cup Pids
  PROVE  /\ Zombie(q) \in Processes /\ Zombie(q) # None
         /\ Zombie(q).pc = "zombie" /\ Zombie(q).parent = q
         /\ Zombie(q).out = None
<1>1. Zombie(q) \in Processes
  BY DEF Zombie, Fresh, Processes
<1>2. QED
  BY <1>1, NoneIsNoProcess DEF Zombie, Fresh

LEMMA EndedOne ==
  ASSUME HostInv, NEW c \in Alive, proc[c].pc \in {"tool", "wait"}
  PROVE  LET left == Ended({c})
         IN /\ left \in [Pids -> Processes \cup {None}]
            /\ IF proc[c].parent = 0 THEN left[c] = None
               ELSE /\ left[c].pc = "zombie" /\ left[c].out = None
                    /\ left[c].parent = proc[c].parent
                    /\ left[c] # None
            /\ \A q \in Pids \ {c} :
                 IF At(q, "zombie") /\ proc[q].parent = c THEN left[q] = None
                                                          ELSE left[q] = proc[q]
<1> DEFINE left == Ended({c})
<1>1. c \in Pids /\ proc \in [Pids -> Processes \cup {None}]
  BY DEF Alive, HostInv, HostTypeOK
<1>2. left = [q \in Pids |-> left[q]]
  BY DEF Ended
<1>3. \A q \in Pids : left[q] =
        CASE q \in {c} /\ proc[q].parent \in Alive \ {c}
               -> [Fresh EXCEPT !.pc = "zombie", !.parent = proc[q].parent]
          [] q \in {c} /\ proc[q].parent \notin Alive \ {c} -> None
          [] q \in Alive \ {c} /\ proc[q].parent \in {c}
               -> IF proc[q].pc = "zombie" THEN None
                  ELSE [proc[q] EXCEPT !.parent = 0]
          [] OTHER -> proc[q]
  BY DEF Ended
<1> HIDE DEF left
<1>4. 0 \notin Alive
  BY DEF Alive, Pids
<1>5. ASSUME proc[c].parent = 0 PROVE left[c] = None
  <2>1. proc[c].parent \notin Alive \ {c}
    BY <1>4, <1>5
  <2>2. QED
    BY <1>1, <1>3, <2>1
<1>6. ASSUME proc[c].parent # 0
      PROVE  /\ left[c].pc = "zombie" /\ left[c].out = None
             /\ left[c].parent = proc[c].parent
             /\ left[c] # None /\ left[c] \in Processes
  <2>1. proc[c].parent \in Alive \ {c} /\ proc[c].parent \in {0} \cup Pids
    BY <1>6, ParentIs
  <2>2. left[c] = Zombie(proc[c].parent)
    BY <1>1, <1>3, <2>1 DEF Zombie
  <2>3. QED
    BY <2>1, <2>2, ZombieIs
<1>7. ASSUME NEW q \in Pids \ {c}
      PROVE  IF At(q, "zombie") /\ proc[q].parent = c THEN left[q] = None
                                                      ELSE left[q] = proc[q]
  <2>1. CASE q \in Alive /\ proc[q].parent = c
    <3>1. c # 0
      BY <1>1 DEF Pids
    <3>2. IsParent(c, q)
      BY <2>1, <3>1, ParentIs
    <3>3. proc[q].pc = "zombie"
      BY <3>2 DEF IsParent, At
    <3>4. left[q] = None
      BY <1>3, <1>7, <2>1, <3>3
    <3>5. QED
      BY <2>1, <3>3, <3>4 DEF At
  <2>2. CASE ~(q \in Alive /\ proc[q].parent = c)
    <3>1. left[q] = proc[q]
      BY <1>3, <1>7, <2>2
    <3>2. QED
      BY <2>2, <3>1 DEF At
  <2>3. QED
    BY <2>1, <2>2
<1>8. left \in [Pids -> Processes \cup {None}]
  <2>1. left[c] \in Processes \cup {None}
    BY <1>5, <1>6
  <2>2. \A q \in Pids \ {c} : left[q] \in Processes \cup {None}
    BY <1>1, <1>7
  <2>3. QED
    BY <1>2, <2>1, <2>2
<1>9. QED
  BY <1>5, <1>6, <1>7, <1>8 DEF left

LEMMA CrashKeeps ==
  ASSUME HostInv, NEW p \in Pids, Crash(p)
  PROVE  HostInv'
<1>1. p \in Alive /\ proc[p].pc = "wait" /\ proc' = Ended({p})
  BY DEF Crash, At
<1> PICK k : k = proc'[p]
  OBVIOUS
<1>2. Parts(p, k) /\ (k # None => k.out = None)
  BY <1>1, EndedOne DEF Parts
<1>3. HostTypeOK'
  BY <1>2 DEF Crash, HostInv, HostTypeOK, Parts
<1>4. UNCHANGED <<dir, rows, sent, blobs, spoilt>>
  BY DEF Crash
<1>5. \A q \in Pids : At(q, "read") /\ proc[q].child = p => k.out = None
  <2> SUFFICES ASSUME NEW q \in Pids, At(q, "read"), proc[q].child = p
               PROVE  k.out = None
    OBVIOUS
  <2>1. proc[p].parent = q /\ 0 \notin Pids
    BY ChildIs DEF Pids
  <2>2. QED
    BY <1>2, <2>1 DEF Parts
<1>6. QED
  BY <1>1, <1>2, <1>3, <1>4, <1>5, PartsKeeps

LEMMA ExitParts ==
  ASSUME HostInv, NEW c \in Pids, At(c, "tool"), NEW out \in Nat \cup {None},
         ExitsWith(c, out)
  PROVE  Parts(c, proc'[c]) /\ (proc'[c] # None => proc'[c].out = out)
<1> PICK left : left = Ended({c})
  OBVIOUS
<1>1. c \in Alive /\ proc[c].pc = "tool"
  BY DEF At
<1>2. /\ left \in [Pids -> Processes \cup {None}]
      /\ IF proc[c].parent = 0 THEN left[c] = None
         ELSE /\ left[c].pc = "zombie" /\ left[c].out = None
              /\ left[c].parent = proc[c].parent
              /\ left[c] # None
      /\ \A q \in Pids \ {c} :
           IF At(q, "zombie") /\ proc[q].parent = c THEN left[q] = None
                                                    ELSE left[q] = proc[q]
  BY <1>1, EndedOne
<1> PICK old : old = left[c]
  OBVIOUS
<1> PICK k : k = IF old = None THEN None ELSE [old EXCEPT !.out = out]
  OBVIOUS
<1>3. proc' = [left EXCEPT ![c] = k]
  BY DEF ExitsWith
<1>4. old \in Processes \cup {None}
  BY <1>2
<1>5. ASSUME old # None
      PROVE  /\ k \in Processes /\ k.pc = old.pc /\ k.parent = old.parent
             /\ k.out = out
  BY <1>4, <1>5 DEF Processes
<1>6. k \in Processes \cup {None} /\ (k = None <=> old = None)
  BY <1>5, NoneIsNoProcess
<1>7. /\ proc' \in [Pids -> Processes \cup {None}]
      /\ proc'[c] = k
      /\ \A q \in Pids \ {c} : proc'[q] = left[q]
  BY <1>2, <1>3, <1>6
<1>8. k # None => /\ k.pc = "zombie" /\ k.parent = proc[c].parent
                  /\ k.out = out
  BY <1>2, <1>5, <1>6
<1>9. k = None => proc[c].parent = 0
  BY <1>2, <1>6
<1>10. QED
  BY <1>2, <1>7, <1>8, <1>9 DEF Parts

LEMMA ToolKeeps ==
  ASSUME HostInv, NEW c \in Pids, Tool(c)
  PROVE  HostInv'
<1> USE DEF HostInv
<1> PICK file : file = dir[NameOf(c)]
  OBVIOUS
<1> PICK k : k = proc'[c]
  OBVIOUS
<1>1. /\ c \in Alive /\ At(c, "tool") /\ proc[c].pc = "tool"
      /\ proc[c] \in Processes /\ HandsOf(c)
  BY ProcTyped DEF Tool, At, HandsInv
<1>2. UNCHANGED <<dir, rows, sent, answers, spoilt, execFails, faults>>
  BY DEF Tool
<1>3. /\ blobs \in Seq(Seq(Octets)) /\ Len(blobs) \in Nat
      /\ DOMAIN blobs = 1..Len(blobs)
  BY LenProperties DEF HostTypeOK
<1>4. ASSUME NEW q \in Pids, At(q, "read"), proc[q].child = c
      PROVE  /\ ContentsOf(q) = ContentsOf(c) /\ NameOf(q) = NameOf(c)
             /\ proc[q].wants = proc[c].wants
             /\ proc[q].wants = "id" => dir[NameOf(c)] \in ContentsOf(q)
  <2>1. Forked(c) /\ ReadsFrom(q, c)
    BY <1>1, <1>4, ChildIs DEF Forked
  <2>2. proc[c].req = proc[q].req /\ proc[c].wants = proc[q].wants
    BY <2>1 DEF ReadsFrom
  <2>3. ContentsOf(q) = ContentsOf(c) /\ NameOf(q) = NameOf(c)
    BY <2>2 DEF ContentsOf, FilesOf, NameOf
  <2>4. proc[q].wants = "id" => dir[NameOf(q)] \in ContentsOf(q)
    BY <1>4, <2>1 DEF FileInv
  <2>5. QED
    BY <2>2, <2>3, <2>4
<1>5. CASE proc[c].wants = "id" /\ file # None
  <2> PICK n : n = Len(blobs) + 1
    OBVIOUS
  <2>1. n \in Nat /\ ExitsWith(c, n) /\ blobs' = Append(blobs, file)
    BY <1>3, <1>5 DEF Tool
  <2>2. file \in Seq(Octets)
    <3>1. proc[c].req \in DOMAIN sent
      BY <1>1 DEF HandsOf
    <3>2. sent[proc[c].req] \in [name: Names, content: Contents]
      BY <3>1, LenProperties, ElementOfSeq DEF HostTypeOK
    <3>3. NameOf(c) \in Names
      BY <3>2 DEF NameOf
    <3>4. QED
      BY <1>5, <3>3 DEF HostTypeOK
  <2>3. /\ blobs' \in Seq(Seq(Octets)) /\ Len(blobs') = n
        /\ \A i \in 1..Len(blobs) : blobs'[i] = blobs[i]
        /\ blobs'[n] = file
    BY <1>3, <2>1, <2>2, AppendProperties
  <2>4. DOMAIN blobs' = 1..n
    BY <2>3, LenProperties
  <2>5. /\ n \in DOMAIN blobs'
        /\ \A i \in DOMAIN blobs : i \in DOMAIN blobs' /\ blobs'[i] = blobs[i]
    BY <1>3, <2>1, <2>3, <2>4
  <2>6. Parts(c, k) /\ (k # None => k.out = n)
    BY <1>1, <2>1, ExitParts
  <2>7. HostTypeOK'
    BY <1>2, <2>3, <2>6 DEF HostTypeOK, Parts
  <2>8. ASSUME NEW q \in Pids, At(q, "read"), proc[q].child = c,
               proc[q].wants = "id"
        PROVE  k.out \in DOMAIN blobs' /\ blobs'[k.out] \in ContentsOf(q)
    <3>1. proc[c].parent = q /\ 0 \notin Pids
      BY <2>8, ChildIs DEF Pids
    <3>2. k.out = n
      BY <2>6, <3>1 DEF Parts
    <3>3. QED
      BY <1>4, <2>3, <2>5, <2>8, <3>2
  <2>9. QED
    BY <1>1, <1>2, <2>5, <2>6, <2>7, <2>8, PartsKeeps
<1>6. CASE ~(proc[c].wants = "id" /\ file # None)
  <2> PICK out : out = IF proc[c].id = 0 THEN None ELSE proc[c].id
    OBVIOUS
  <2>1. out \in Nat \cup {None} /\ ExitsWith(c, out) /\ blobs' = blobs
    BY <1>1, <1>6 DEF Tool, Processes
  <2>2. Parts(c, k)
    BY <1>1, <2>1, ExitParts
  <2>3. HostTypeOK'
    BY <1>2, <2>1, <2>2 DEF HostTypeOK, Parts
  <2>4. ASSUME NEW q \in Pids, At(q, "read"), proc[q].child = c,
               proc[q].wants = "id"
        PROVE  FALSE
    <3>1. proc[q].req \in DOMAIN sent
      BY <2>4 DEF HandsInv, HandsOf, At
    <3>2. sent[proc[q].req] \in [name: Names, content: Contents]
      BY <3>1, LenProperties, ElementOfSeq DEF HostTypeOK
    <3>3. ContentsOf(q) \subseteq Seq(Octets)
      BY <3>2, ContentsAreSeqs DEF ContentsOf, FilesOf, Octets
    <3>4. file \in ContentsOf(q) /\ proc[c].wants = "id"
      BY <1>4, <2>4
    <3>5. QED
      BY <1>6, <3>3, <3>4, NoneIsNoContent
  <2>5. QED
    BY <1>1, <1>2, <2>1, <2>2, <2>3, <2>4, PartsKeeps
<1>7. QED
  BY <1>5, <1>6

LEMMA ToolFailsKeeps ==
  ASSUME HostInv, NEW c \in Pids, ToolFails(c)
  PROVE  HostInv'
<1> PICK k : k = proc'[c]
  OBVIOUS
<1>1. c \in Alive /\ At(c, "tool") /\ proc[c].pc = "tool"
  BY DEF ToolFails, At
<1>2. Parts(c, k) /\ (k # None => k.out = None)
  BY <1>1, ExitParts DEF ToolFails
<1>3. UNCHANGED <<dir, blobs, rows, sent, spoilt>>
  BY DEF ToolFails
<1>4. HostTypeOK'
  BY <1>2, FaultCounts DEF ToolFails, HostInv, HostTypeOK, Parts
<1>5. \A q \in Pids : At(q, "read") /\ proc[q].child = c => k.out = None
  <2> SUFFICES ASSUME NEW q \in Pids, At(q, "read"), proc[q].child = c
               PROVE  k.out = None
    OBVIOUS
  <2>1. proc[c].parent = q /\ 0 \notin Pids
    BY ChildIs DEF Pids
  <2>2. QED
    BY <1>2, <2>1 DEF Parts
<1>6. QED
  BY <1>1, <1>2, <1>3, <1>4, <1>5, PartsKeeps

(* What is left when all programs are killed: tools that are nobody's. *)
LEMMA EndedAll ==
  ASSUME HostInv
  PROVE  LET left == Ended(Programs)
         IN /\ left \in [Pids -> Processes \cup {None}]
            /\ \A q \in Pids : q \in Programs \/ q \in Free => left[q] = None
            /\ \A q \in Pids : left[q] # None =>
                 /\ q \in Alive \ Programs
                 /\ left[q].parent = 0          /\ left[q].pc = proc[q].pc
                 /\ left[q].req = proc[q].req   /\ left[q].id = proc[q].id
                 /\ left[q].wants = proc[q].wants
                 /\ left[q].out = proc[q].out
                 /\ left[q].code = proc[q].code
<1> DEFINE left == Ended(Programs)
<1>1. proc \in [Pids -> Processes \cup {None}]
  BY DEF HostInv, HostTypeOK
<1>2. left = [q \in Pids |-> left[q]]
  BY DEF Ended
<1>3. \A q \in Pids : left[q] =
        CASE q \in Programs /\ proc[q].parent \in Alive \ Programs
               -> Zombie(proc[q].parent)
          [] q \in Programs /\ proc[q].parent \notin Alive \ Programs -> None
          [] q \in Alive \ Programs /\ proc[q].parent \in Programs
               -> IF proc[q].pc = "zombie" THEN None
                  ELSE [proc[q] EXCEPT !.parent = 0]
          [] OTHER -> proc[q]
  BY DEF Ended, Zombie
<1> HIDE DEF left
<1>4. 0 \notin Alive
  BY DEF Alive, Pids
<1>5. ASSUME NEW q \in Pids, q \in Programs PROVE left[q] = None
  <2>1. proc[q].parent \notin Alive \ Programs
    BY <1>4, <1>5, ParentIs DEF Programs
  <2>2. QED
    BY <1>3, <1>5, <2>1
<1>6. ASSUME NEW q \in Pids, q \in Free PROVE left[q] = None
  <2>1. q \notin Alive /\ q \notin Programs /\ proc[q] = None
    BY <1>6 DEF Free, Alive, Programs
  <2>2. QED
    BY <1>3, <2>1
<1>7. ASSUME NEW q \in Pids, q \in Alive \ Programs
      PROVE  /\ left[q] \in Processes \cup {None}
             /\ left[q] # None =>
                  /\ left[q].parent = 0          /\ left[q].pc = proc[q].pc
                  /\ left[q].req = proc[q].req   /\ left[q].id = proc[q].id
                  /\ left[q].wants = proc[q].wants
                  /\ left[q].out = proc[q].out
                  /\ left[q].code = proc[q].code
  <2>1. proc[q] \in Processes
    BY <1>7, ProcTyped DEF HostInv
  <2>2. CASE proc[q].parent \in Programs /\ proc[q].pc = "zombie"
    BY <1>3, <1>7, <2>2
  <2>3. CASE proc[q].parent \in Programs /\ proc[q].pc # "zombie"
    <3> PICK z : z = [proc[q] EXCEPT !.parent = 0]
      OBVIOUS
    <3>1. left[q] = z
      BY <1>3, <1>7, <2>3
    <3>2. /\ z \in Processes /\ z.parent = 0   /\ z.pc = proc[q].pc
          /\ z.req = proc[q].req   /\ z.id = proc[q].id
          /\ z.wants = proc[q].wants /\ z.out = proc[q].out
          /\ z.code = proc[q].code
      BY <2>1 DEF Processes
    <3>3. QED
      BY <3>1, <3>2
  <2>4. CASE proc[q].parent \notin Programs
    <3>1. proc[q].parent = 0
      BY <1>7, <2>4, ParentIs
    <3>2. left[q] = proc[q]
      BY <1>3, <1>7, <2>4
    <3>3. QED
      BY <2>1, <3>1, <3>2
  <2>5. QED
    BY <2>2, <2>3, <2>4
<1>8. \A q \in Pids : q \in Programs \/ q \in Free \/ q \in Alive \ Programs
  BY DEF Free
<1>9. left \in [Pids -> Processes \cup {None}]
  <2>1. \A q \in Pids : left[q] \in Processes \cup {None}
    BY <1>5, <1>6, <1>7, <1>8
  <2>2. QED
    BY <1>2, <2>1
<1>10. QED
  BY <1>5, <1>6, <1>7, <1>8, <1>9 DEF left

LEMMA RestartsProc ==
  ASSUME HostInv, Restarts, Programs # {} \/ Free # {}
  PROVE  \E n \in Pids :
           /\ proc' \in [Pids -> Processes \cup {None}]
           /\ proc'[n] = Fresh
           /\ \A q \in Pids \ {n} : proc'[q] # None =>
                 /\ q \in Alive \ Programs
                 /\ proc'[q].parent = 0          /\ proc'[q].pc = proc[q].pc
                 /\ proc'[q].req = proc[q].req   /\ proc'[q].id = proc[q].id
                 /\ proc'[q].wants = proc[q].wants
                 /\ proc'[q].out = proc[q].out
                 /\ proc'[q].code = proc[q].code
<1> PICK left : left = Ended(Programs)
  OBVIOUS
<1>1. /\ left \in [Pids -> Processes \cup {None}]
      /\ \A q \in Pids : q \in Programs \/ q \in Free => left[q] = None
      /\ \A q \in Pids : left[q] # None =>
           /\ q \in Alive \ Programs
           /\ left[q].parent = 0          /\ left[q].pc = proc[q].pc
           /\ left[q].req = proc[q].req   /\ left[q].id = proc[q].id
           /\ left[q].wants = proc[q].wants
           /\ left[q].out = proc[q].out
           /\ left[q].code = proc[q].code
  BY EndedAll
<1>2. PICK n : n = LeastOf({p \in Pids : left[p] = None})
  OBVIOUS
<1>3. n \in Pids
  <2>1. \E q \in Pids : left[q] = None
    BY <1>1 DEF Programs, Free, Alive
  <2>2. {p \in Pids : left[p] = None} # {}
    BY <2>1
  <2>3. QED
    BY <1>2, <2>2, LeastIsIn
<1>4. proc' = [left EXCEPT ![n] = Fresh]
  BY <1>2 DEF Restarts
<1>5. /\ proc' \in [Pids -> Processes \cup {None}] /\ proc'[n] = Fresh
      /\ \A q \in Pids \ {n} : proc'[q] = left[q]
  BY <1>1, <1>3, <1>4, FreshIs
<1>6. QED
  BY <1>1, <1>3, <1>5

LEMMA RestartsKeeps ==
  ASSUME HostInv, Killed \/ Restarted
  PROVE  HostInv'
<1> USE DEF HostInv
<1>1. PICK n \in Pids :
        /\ proc' \in [Pids -> Processes \cup {None}]
        /\ proc'[n] = Fresh
        /\ \A q \in Pids \ {n} : proc'[q] # None =>
              /\ q \in Alive \ Programs
              /\ proc'[q].parent = 0          /\ proc'[q].pc = proc[q].pc
              /\ proc'[q].req = proc[q].req   /\ proc'[q].id = proc[q].id
              /\ proc'[q].wants = proc[q].wants
              /\ proc'[q].out = proc[q].out
              /\ proc'[q].code = proc[q].code
  BY RestartsProc DEF Killed, Restarted
<1>2. UNCHANGED <<dir, blobs, rows, sent, answers, spoilt, execFails>>
  BY DEF Killed, Restarted
<1>3. HostTypeOK'
  <2>1. faults' \in 0..MaxFaults /\ execFails' \in 0..faults'
    BY <1>2, FaultCounts DEF Killed, Restarted, HostTypeOK
  <2>2. QED
    BY <1>1, <1>2, <2>1 DEF HostTypeOK
<1>4. Fresh # None
  BY FreshIs, NoneIsNoProcess
<1>5. ASSUME NEW q \in Pids, q # n, q \in Alive'
      PROVE  /\ q \in Alive /\ proc'[q].pc = proc[q].pc
             /\ proc'[q].pc \notin Serves /\ proc'[q].parent = 0
  BY <1>1, <1>5 DEF Alive, Programs
<1>6. Programs' = {n}
  BY <1>1, <1>4, <1>5, FreshIs DEF Programs, Alive, Serves
<1>7. \A q \in Pids : ~At(q, "read")' /\ ~At(q, "fork")'
  BY <1>1, <1>5, FreshIs DEF At, Serves
<1>8. HandsInv'
  <2> SUFFICES ASSUME NEW q \in Pids, q \in Alive', proc'[q].pc # "zombie"
               PROVE  HandsOf(q)'
    BY DEF HandsInv
  <2>1. CASE q = n
    BY <1>1, <2>1, FreshIs DEF HandsOf
  <2>2. CASE q # n
    <3>1. HandsOf(q)
      BY <1>5, <2>2 DEF HandsInv
    <3>2. /\ proc'[q].pc = proc[q].pc /\ proc'[q].req = proc[q].req
          /\ proc'[q].id = proc[q].id /\ proc'[q].wants = proc[q].wants
          /\ proc'[q].out = proc[q].out /\ proc'[q].code = proc[q].code
      BY <1>1, <2>2 DEF Alive
    <3>3. ContentsOf(q)' = ContentsOf(q)
      BY <1>2, <3>2 DEF ContentsOf, FilesOf
    <3>4. QED
      BY <1>2, <3>1, <3>2, <3>3 DEF HandsOf
  <2>3. QED
    BY <2>1, <2>2
<1>9. ReadsInv' /\ FileInv'
  BY <1>7 DEF ReadsInv, FileInv
<1>10. FamilyInv'
  BY <1>1, <1>5, FreshIs DEF FamilyInv
<1>11. ServesInv'
  BY <1>6 DEF ServesInv, Serving
<1>12. SpentInv'
  <2>1. 0 \notin DOMAIN sent
    BY LenProperties DEF HostTypeOK
  <2>2. QED
    BY <1>1, <1>2, <1>6, <2>1, FreshIs DEF SpentInv, RowsInv
<1>13. RowsInv' /\ OneRowPerUpload'
  BY <1>2, RowsKeep DEF HostTypeOK
<1>14. QED
  BY <1>3, <1>8, <1>9, <1>10, <1>11, <1>12, <1>13

-----------------------------------------------------------------------------
(* The invariant *)

LEMMA InitHolds == HostInit => HostInv
<1> SUFFICES ASSUME HostInit PROVE HostInv
  OBVIOUS
<1>1. \A p \in Pids : proc[p] = IF p = 1 THEN Fresh ELSE None
  BY DEF HostInit
<1>2. Alive \subseteq {1} /\ Programs \subseteq {1}
  BY <1>1 DEF Alive, Programs
<1>3. \A p \in Pids : p \in Alive => proc[p] = Fresh
  BY <1>1, <1>2
<1>4. HostTypeOK
  <2>1. proc \in [Pids -> Processes \cup {None}]
    BY FreshIs DEF HostInit
  <2>2. dir \in [Names -> Seq(Octets) \cup {None}]
    BY DEF HostInit
  <2>3. /\ blobs \in Seq(Seq(Octets))
        /\ rows \in Seq([req: Nat, id: Nat, url: BOOLEAN])
        /\ sent \in Seq([name: Names, content: Contents])
    BY EmptySeq DEF HostInit
  <2>4. answers \in [1..MaxRequests -> Seq({"008", "009"})]
    BY EmptySeq DEF HostInit
  <2>5. /\ execFails \in 0..faults /\ faults \in 0..MaxFaults
        /\ spoilt \in SUBSET Nat
    BY BoundsAreNat DEF HostInit
  <2>6. QED
    BY <2>1, <2>2, <2>3, <2>4, <2>5 DEF HostTypeOK
<1>5. HandsInv
  BY <1>3, FreshIs DEF HandsInv, HandsOf
<1>6. ReadsInv /\ FileInv /\ FamilyInv
  BY <1>3, FreshIs DEF ReadsInv, FileInv, FamilyInv, At
<1>7. ServesInv
  BY <1>2 DEF ServesInv, Serving
<1>8. DOMAIN rows = {}
  BY DEF HostInit
<1>9. RowsInv /\ SpentInv /\ OneRowPerUpload
  BY <1>8 DEF RowsInv, SpentInv, OneRowPerUpload
<1>10. QED
  BY <1>4, <1>5, <1>6, <1>7, <1>9 DEF HostInv

LEMMA StaysWhenNothingMoves ==
  ASSUME HostInv, UNCHANGED hostVars
  PROVE  HostInv'
<1> USE DEF hostVars
<1>1. Alive' = Alive /\ Programs' = Programs
  BY DEF Alive, Programs
<1>2. \A p, pc : At(p, pc)' = At(p, pc)
  BY <1>1 DEF At
<1>3. HostTypeOK' /\ RowsInv' /\ OneRowPerUpload'
  BY DEF HostInv, HostTypeOK, RowsInv, FilesOf, OneRowPerUpload
<1>4. HandsInv'
  BY <1>1 DEF HostInv, HandsInv, HandsOf, ContentsOf, FilesOf
<1>5. ReadsInv' /\ FileInv'
  BY <1>1 DEF HostInv, ReadsInv, ReadsFrom, FileInv, Forked, At, ContentsOf, FilesOf,
    NameOf
<1>6. FamilyInv'
  BY <1>1 DEF HostInv, FamilyInv, IsParent, At
<1>7. ServesInv' /\ SpentInv'
  BY <1>1 DEF HostInv, ServesInv, Serving, SpentInv, Spent, WaitsForCopy, At
<1>8. QED
  BY <1>3, <1>4, <1>5, <1>6, <1>7 DEF HostInv

LEMMA HostStepKeeps ==
  ASSUME HostInv, [HostNext]_hostVars
  PROVE  HostInv'
<1>1. ASSUME NEW p \in Pids, NEW n \in Names, NEW c \in Contents,
             Accept(p, n, c)
      PROVE  HostInv'
  BY <1>1, AcceptKeeps
<1>2. ASSUME NEW p \in Pids, Step(p) PROVE HostInv'
  <2>1. CASE Save(p) \/ Fork(p) \/ Exec(p)
    BY <2>1, SaveKeeps, ForkKeeps, ExecKeeps
  <2>2. CASE Tool(p)
    BY <2>2, ToolKeeps
  <2>3. CASE Read(p)
    BY <2>3, ReadIdKeeps, ReadUrlKeeps
  <2>4. CASE WaitId(p) \/ WaitUrl(p)
    BY <2>4, WaitKeeps
  <2>5. CASE Crash(p)
    BY <2>5, CrashKeeps
  <2>6. CASE Unlink(p) \/ Insert(p) \/ Reply(p)
    BY <2>6, UnlinkKeeps, InsertKeeps, ReplyKeeps
  <2>7. QED
    BY <1>2, <2>1, <2>2, <2>3, <2>4, <2>5, <2>6 DEF Step
<1>3. ASSUME NEW p \in Pids,
             \/ ExecFails(p) \/ ToolFails(p) \/ CallFails(p)
             \/ ForkFails(p) \/ SaveSpoils(p)
      PROVE  HostInv'
  BY <1>3, ExecFailsKeeps, ToolFailsKeeps, CallFailsKeeps, SaveKeeps
<1>4. CASE Killed \/ Restarted
  BY <1>4, RestartsKeeps
<1>5. CASE Done \/ UNCHANGED hostVars
  BY <1>5, StaysWhenNothingMoves DEF Done
<1>6. QED
  BY <1>1, <1>2, <1>3, <1>4, <1>5 DEF HostNext

LEMMA HostInvAlways == HostSpec => []HostInv
<1>1. HostInv /\ [HostNext]_hostVars => HostInv'
  BY HostStepKeeps
<1>2. QED
  BY <1>1, InitHolds, PTL DEF HostSpec

(* The state of the machine has its type. *)
THEOREM HostTypes == HostSpec => []HostTypeOK
BY HostInvAlways, PTL DEF HostInv

(* A row of file_info names a blob with what its upload sent, unless that  *)
(* upload's own ftruncate or write failed: in every state, for any number  *)
(* of copies of the program, failures and kills.                           *)
THEOREM RowsStaySent == HostSpec => []RowsAreSent
<1>1. HostInv => RowsAreSent
  BY DEF HostInv, RowsInv, FilesOf, RowsAreSent
<1>2. QED
  BY <1>1, HostInvAlways, PTL

(* An upload never gets a second row. *)
THEOREM OneRowStays == HostSpec => []OneRowPerUpload
BY HostInvAlways, PTL DEF HostInv

-----------------------------------------------------------------------------
(* One program serves *)

(* Nobody begins to wait for a copy: a fork alone does that. *)
NoNewWaits ==
  \A q \in Pids :
    WaitsForCopy(q)' => WaitsForCopy(q) /\ proc'[q].child = proc[q].child

(* One program moves, and leaves alone what is not its zombie. *)
LEMMA MoveAddsNoWait ==
  ASSUME HostInv, NEW p \in Programs, proc'[p].pc # "read",
         \A q \in Pids \ {p} :
           proc'[q] = proc[q] \/ proc'[q] = None \/ proc'[q].pc = "zombie"
  PROVE  NoNewWaits
<1> SUFFICES ASSUME NEW q \in Pids, WaitsForCopy(q)'
             PROVE  WaitsForCopy(q) /\ proc'[q].child = proc[q].child
  BY DEF NoNewWaits
<1>1. Programs' \subseteq Programs
  BY DEF Programs, Alive, Serves
<1>2. q # p /\ proc'[q] = proc[q] /\ q \in Alive
  BY DEF WaitsForCopy, At, Alive
<1>3. QED
  BY <1>1, <1>2 DEF WaitsForCopy, At

LEMMA PartsAddsNoWait ==
  ASSUME HostInv, NEW c \in Alive, NEW k, Parts(c, k)
  PROVE  NoNewWaits
<1> SUFFICES ASSUME NEW q \in Pids, WaitsForCopy(q)'
             PROVE  WaitsForCopy(q) /\ proc'[q].child = proc[q].child
  BY DEF NoNewWaits
<1>1. \A d \in Pids : d \in Programs' =>
        d # c /\ d \in Programs /\ proc'[d] = proc[d]
  BY DEF Parts, Programs, Alive, Serves
<1>2. q # c /\ q \in Programs /\ proc'[q] = proc[q]
  <2>1. q \in Programs'
    BY DEF WaitsForCopy, At, Programs, Serves
  <2>2. QED
    BY <1>1, <2>1
<1>3. proc[q].child \in Programs
  BY <1>1, <1>2 DEF WaitsForCopy, Programs, Alive
<1>4. QED
  BY <1>2, <1>3 DEF WaitsForCopy, At, Programs

LEMMA MostAddNoWait ==
  ASSUME HostInv, HostNext, \A p \in Pids : ~Fork(p)
  PROVE  NoNewWaits
<1> USE DEF HostInv, HostTypeOK
<1>1. ASSUME NEW p \in Pids, NEW n \in Names, NEW c \in Contents,
             Accept(p, n, c)
      PROVE  NoNewWaits
  <2>1. p \in Programs /\ proc[p] \in Processes
    BY <1>1, ProcTyped DEF Accept, At, Programs, Serves
  <2>2. /\ \A q \in Pids \ {p} : proc'[q] = proc[q]
        /\ proc'[p].pc = "save"
    BY <1>1, <2>1 DEF Accept, Processes
  <2>3. QED
    BY <2>1, <2>2, MoveAddsNoWait
<1>2. ASSUME NEW p \in Pids,
             \/ Save(p) \/ Exec(p) \/ Unlink(p) \/ Insert(p) \/ Reply(p)
             \/ ExecFails(p) \/ CallFails(p) \/ ForkFails(p) \/ SaveSpoils(p)
      PROVE  NoNewWaits
  <2>1. p \in Programs /\ proc[p] \in Processes
    BY <1>2, ProcTyped DEF Save, Exec, Unlink, Insert, Reply, ExecFails,
      CallFails, ForkFails, SaveSpoils, At, Programs, Serves
  <2>2. /\ \A q \in Pids \ {p} : proc'[q] = proc[q]
        /\ proc'[p].pc # "read"
    <3>1. CASE Save(p) \/ SaveSpoils(p) \/ Exec(p) \/ ExecFails(p)
      BY ZenonT(60), <2>1, <3>1 DEF Save, SaveSpoils, Exec, ExecFails, Goes,
        Processes
    <3>2. CASE Unlink(p)
      BY <2>1, <3>2 DEF Unlink, Processes
    <3>3. CASE Insert(p) \/ CallFails(p)
      <4>1. PICK code : Replies(p, code)
        BY <3>3 DEF Insert, CallFails
      <4>2. PICK r : r = [proc[p] EXCEPT !.pc = "reply", !.code = code]
        OBVIOUS
      <4>3. proc' = [proc EXCEPT ![p] = r] /\ r.pc = "reply"
        BY <2>1, <4>1, <4>2 DEF Replies, Processes
      <4>4. QED
        BY <4>3
    <3>4. CASE ForkFails(p)
      <4>1. PICK m : m = proc[p].leaked + 2
        OBVIOUS
      <4>2. PICK r : r = [proc[p] EXCEPT !.pc = "reply", !.code = "009",
                                         !.leaked = m]
        OBVIOUS
      <4>3. proc' = [proc EXCEPT ![p] = r] /\ r.pc = "reply"
        BY <2>1, <3>4, <4>1, <4>2 DEF ForkFails, Processes
      <4>4. QED
        BY <4>3
    <3>5. CASE Reply(p)
      <4>1. PICK r : r = [Fresh EXCEPT !.parent = proc[p].parent,
                                       !.leaked = proc[p].leaked]
        OBVIOUS
      <4>2. proc' = [proc EXCEPT ![p] = r] /\ r.pc = "accept"
        BY <3>5, <4>1 DEF Reply, Fresh
      <4>3. QED
        BY <4>2
    <3>6. QED
      BY <1>2, <3>1, <3>2, <3>3, <3>4, <3>5
  <2>3. QED
    BY <2>1, <2>2, MoveAddsNoWait
<1>3. ASSUME NEW p \in Pids, Read(p) PROVE NoNewWaits
  <2>1. PICK c : c = proc[p].child
    OBVIOUS
  <2>2. /\ p \in Programs /\ proc[p] \in Processes /\ c \in Pids
        /\ proc[c] \in Processes /\ proc[c].pc = "zombie" /\ p # c
        /\ ReadId(p, c) \/ ReadUrl(p, c)
    BY <1>3, <2>1, EndedChild DEF Read
  <2>3. /\ proc'[p].pc # "read" /\ proc'[c].pc = "zombie"
        /\ \A q \in Pids \ {p, c} : proc'[q] = proc[q]
    <3>1. PICK m : m = proc[p].leaked + 1
      OBVIOUS
    <3>2. PICK r : r = [proc[p] EXCEPT !.pc = "reply", !.code = "009",
                                       !.leaked = m]
      OBVIOUS
    <3>3. r.pc = "reply"
      BY <2>2, <3>2 DEF Processes
    <3>4. CASE proc' = [proc EXCEPT ![p] = r]
      BY <2>2, <3>3, <3>4
    <3>5. CASE ReadId(p, c) /\ proc' # [proc EXCEPT ![p] = r]
      BY <2>2, <3>1, <3>2, <3>5 DEF ReadId, Processes
    <3>6. CASE ReadUrl(p, c)
      BY <2>2, <3>6 DEF ReadUrl, Processes
    <3>7. QED
      BY <2>2, <3>4, <3>5, <3>6
  <2>4. QED
    BY <2>2, <2>3, MoveAddsNoWait
<1>4. ASSUME NEW p \in Pids, NEW pc \in {"unlink", "insert"}, WaitGoes(p, pc)
      PROVE  NoNewWaits
  <2>1. p \in Programs /\ proc[p] \in Processes /\ proc[p].pc = "wait"
    BY <1>4, ProcTyped DEF WaitGoes, At, Programs, Serves
  <2>2. PICK c \in Pids :
          /\ proc[c].pc = "zombie"
          /\ proc' = [proc EXCEPT ![c] = None, ![p].pc = pc, ![p].child = 0]
    BY <1>4 DEF WaitGoes, Reaped, Alive
  <2>3. /\ proc'[p].pc = pc /\ proc'[c] = None
        /\ \A q \in Pids \ {p, c} : proc'[q] = proc[q]
    BY <2>1, <2>2 DEF Processes
  <2>4. QED
    BY <2>1, <2>3, MoveAddsNoWait
<1>5. ASSUME NEW p \in Pids, Tool(p) \/ ToolFails(p) PROVE NoNewWaits
  <2>1. At(p, "tool") /\ p \in Alive /\ proc[p] \in Processes
    BY <1>5, ProcTyped DEF Tool, ToolFails, At
  <2>2. Len(blobs) + 1 \in Nat
    BY LenProperties, NatAdds
  <2>3. \E out \in Nat \cup {None} : ExitsWith(p, out)
    BY <1>5, <2>1, <2>2 DEF Tool, ToolFails, Processes
  <2>4. Parts(p, proc'[p])
    BY <2>1, <2>3, ExitParts
  <2>5. QED
    BY <2>1, <2>4, PartsAddsNoWait
<1>6. ASSUME NEW p \in Pids, Crash(p) PROVE NoNewWaits
  <2>1. p \in Alive /\ proc[p].pc = "wait" /\ proc' = Ended({p})
    BY <1>6 DEF Crash, At
  <2>2. Parts(p, proc'[p])
    BY <2>1, EndedOne DEF Parts
  <2>3. QED
    BY <2>1, <2>2, PartsAddsNoWait
<1>7. CASE Killed \/ Restarted
  <2>1. \A q \in Pids : ~At(q, "read")'
    BY <1>7, RestartsProc, FreshIs DEF Killed, Restarted, At, Alive, Programs,
      Serves
  <2>2. QED
    BY <2>1 DEF NoNewWaits, WaitsForCopy
<1>8. CASE Done
  BY <1>8 DEF Done, hostVars, NoNewWaits, WaitsForCopy, Programs, Alive, At
<1>9. QED
  <2>1. ASSUME NEW p \in Pids, WaitId(p) \/ WaitUrl(p) PROVE NoNewWaits
    BY <1>4, <2>1 DEF WaitId, WaitUrl
  <2>2. ASSUME NEW p \in Pids, Step(p) PROVE NoNewWaits
    BY <1>2, <1>3, <1>5, <1>6, <2>1, <2>2 DEF Step
  <2>3. QED
    BY <1>1, <1>2, <1>5, <1>7, <1>8, <2>2 DEF HostNext

LEMMA RankHolds ==
  ASSUME HostInv, RankInv, [HostNext]_hostVars
  PROVE  RankInv'
<1>1. PICK rank \in [Pids -> Nat] :
        \A p \in Pids : WaitsForCopy(p) => rank[proc[p].child] < rank[p]
  BY DEF RankInv
<1>2. ASSUME NEW p \in Pids, Fork(p) PROVE RankInv'
  <2>1. PICK c \in Free :
          /\ \A q \in Pids \ {p, c} : proc'[q] = proc[q]
          /\ proc'[p].pc = "read" /\ proc'[p].child = c
          /\ proc'[c].pc = "exec"
    BY <1>2, ForkProc
  <2>2. /\ p \in Alive /\ c \in Pids /\ c \notin Alive
        /\ p \in Programs /\ p # c
    BY <1>2 DEF Fork, At, Free, Programs, Serves
  <2> DEFINE new == [q \in Pids |-> IF q = c THEN 0 ELSE rank[q] + 1]
  <2>3. new \in [Pids -> Nat]
    BY <1>1
  <2>4. ASSUME NEW q \in Pids, WaitsForCopy(q)'
        PROVE  new[proc'[q].child] < new[q]
    <3>1. CASE q = p
      BY <2>1, <2>2, <1>1, <3>1
    <3>2. CASE q # p
      <4>1. q # c /\ proc'[q] = proc[q] /\ q \in Alive /\ At(q, "read")
        BY <2>1, <2>4, <3>2 DEF WaitsForCopy, At, Alive
      <4>2. PICK d : d = proc[q].child
        OBVIOUS
      <4>3. d \in Pids /\ d # c /\ d \in Alive
        BY <2>2, <4>1, <4>2, ChildIs
      <4>4. d \in Programs
        <5>1. d \in Programs'
          BY <2>4, <4>1, <4>2 DEF WaitsForCopy
        <5>2. QED
          BY <2>1, <2>2, <4>3, <5>1 DEF Programs
      <4>5. rank[d] < rank[q]
        BY <1>1, <4>1, <4>2, <4>4 DEF WaitsForCopy
      <4>6. new[d] = rank[d] + 1 /\ new[q] = rank[q] + 1
        BY <4>1, <4>3
      <4>7. rank[d] \in Nat /\ rank[q] \in Nat
        BY <1>1, <4>3
      <4>8. QED
        BY <4>1, <4>2, <4>5, <4>6, <4>7
    <3>3. QED
      BY <3>1, <3>2
  <2> HIDE DEF new
  <2>5. QED
    BY <2>3, <2>4 DEF RankInv
<1>3. CASE NoNewWaits
  <2>1. \A p \in Pids : WaitsForCopy(p)' => rank[proc'[p].child] < rank[p]
    BY <1>1, <1>3 DEF NoNewWaits
  <2>2. QED
    BY <1>1, <2>1 DEF RankInv
<1>4. CASE UNCHANGED hostVars
  BY <1>3, <1>4 DEF hostVars, NoNewWaits, WaitsForCopy, Programs, Alive, At
<1>5. QED
  BY <1>2, <1>3, <1>4, MostAddNoWait

LEMMA SomeServes ==
  ASSUME HostInv, RankInv, Programs # {}
  PROVE  \E p \in Programs : ~WaitsForCopy(p)
<1>1. PICK rank \in [Pids -> Nat] :
        \A p \in Pids : WaitsForCopy(p) => rank[proc[p].child] < rank[p]
  BY DEF RankInv
<1> DEFINE ranks == {rank[p] : p \in Programs}
<1>2. Programs \subseteq Pids
  BY DEF Programs, Alive
<1>3. ranks \subseteq Nat /\ ranks # {}
  BY <1>1, <1>2
<1> HIDE DEF ranks
<1>4. PICK n \in ranks : \A m \in ranks : ~(<<m, n>> \in OpToRel(<, Nat))
  BY <1>3, NatLessThanWellFounded, WFMin, Zenon
<1>5. PICK p \in Programs : rank[p] = n
  BY <1>4 DEF ranks
<1>6. \A q \in Programs : ~(rank[q] < rank[p])
  <2>1. \A q \in Programs : rank[q] \in ranks /\ rank[q] \in Nat
    BY <1>1, <1>2 DEF ranks
  <2>2. QED
    BY <1>4, <1>5, <2>1 DEF OpToRel
<1>7. QED
  BY <1>1, <1>2, <1>5, <1>6 DEF WaitsForCopy

(* However many copies of the program there are, one of them serves.       *)
THEOREM OneAlwaysServes == HostSpec => []OneServes
<1>1. HostInit => RankInv
  <2> SUFFICES ASSUME HostInit PROVE RankInv
    OBVIOUS
  <2>1. \A p \in Pids : ~At(p, "read")
    BY FreshIs DEF HostInit, At, Alive
  <2>2. [p \in Pids |-> 0] \in [Pids -> Nat]
    OBVIOUS
  <2>3. QED
    BY <2>1, <2>2 DEF RankInv, WaitsForCopy
<1>2. HostInv /\ RankInv /\ [HostNext]_hostVars => RankInv'
  BY RankHolds
<1>3. HostInv /\ RankInv => OneServes
  <2> SUFFICES ASSUME HostInv, RankInv, Programs # {}
               PROVE  Cardinality({p \in Programs : ~WaitsForCopy(p)}) = 1
    BY DEF OneServes
  <2>1. PICK p \in Programs : ~WaitsForCopy(p)
    BY SomeServes
  <2>2. \A q \in Programs : ~WaitsForCopy(q) => q = p
    BY <2>1 DEF HostInv, ServesInv, Serving, Programs, Alive
  <2>3. {q \in Programs : ~WaitsForCopy(q)} = {p}
    BY <2>1, <2>2
  <2>4. QED
    BY <2>3, FS_Singleton
<1>4. QED
  BY <1>1, <1>2, <1>3, HostInvAlways, PTL DEF HostSpec
=============================================================================
