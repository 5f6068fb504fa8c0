---------------------------- MODULE UploadHostLife ----------------------------
(***************************************************************************)
(* What is left of an upload on its machine, for all values of UploadHost's*)
(* constants.                                                              *)
(*                                                                         *)
(* UploadHost implements BlobLife: every step of the process tree is a step*)
(* in the life of the blobs or none.  The reason is HostInv: an id is found*)
(* only where the process that had it left it, and what nobody has any more*)
(* nobody finds again.                                                     *)
(*                                                                         *)
(* What failures leave behind is bounded by what failed: rows without an id*)
(* or an url, descriptors and zombies, local files, second answers.  The   *)
(* steps are told once more by what they do to each process (HostMoves),   *)
(* and each invariant charges what is left to a failure that was counted.  *)
(***************************************************************************)
EXTENDS UploadHostProofs

HostLifeNow == [id \in DOMAIN blobs |-> HostLifeOf(id)]

InTable(id) == \E i \in DOMAIN rows : rows[i].id = id
Held(id)    == \E p \in Pids : HasId(p, id)

LEMMA HostFateOf ==
  ASSUME NEW id
  PROVE  /\ InTable(id) => HostLifeOf(id) = "listed"
         /\ ~InTable(id) /\ Held(id) => HostLifeOf(id) = "stored"
         /\ ~InTable(id) /\ ~Held(id) => HostLifeOf(id) = "dropped"
BY DEF HostLifeOf, InTable, Held

LEMMA HostFateNext ==
  ASSUME NEW id
  PROVE  /\ InTable(id)' => HostLifeOf(id)' = "listed"
         /\ ~InTable(id)' /\ Held(id)' => HostLifeOf(id)' = "stored"
         /\ ~InTable(id)' /\ ~Held(id)' => HostLifeOf(id)' = "dropped"
BY DEF HostLifeOf, InTable, Held

LEMMA HostFatesBecome ==
  ASSUME NEW ids, NEW fate, DOMAIN blobs' = DOMAIN blobs,
         \A id \in DOMAIN blobs :
           HostLifeOf(id)' = IF id \in ids THEN fate ELSE HostLifeOf(id)
  PROVE  HostLife!Become(ids, fate)
BY DEF HostLife!Become

(* No process finds an id that nobody had. *)
NoNewId == \A id \in DOMAIN blobs : Held(id)' => Held(id)

(* A step that adds no blob and no row gives up what nobody has after it.  *)
LEMMA GivesUpTheRest ==
  ASSUME blobs' = blobs, NoNewId,
         \A id \in DOMAIN blobs : InTable(id)' <=> InTable(id)
  PROVE  [HostLife!LifeNext]_HostLifeNow
<1> DEFINE ids == {id \in DOMAIN blobs : ~InTable(id) /\ Held(id) /\ ~Held(id)'}
<1>1. \A id \in DOMAIN blobs :
        HostLifeOf(id)' = IF id \in ids THEN "dropped" ELSE HostLifeOf(id)
  <2> SUFFICES ASSUME NEW id \in DOMAIN blobs
               PROVE  HostLifeOf(id)' = IF id \in ids THEN "dropped"
                                                     ELSE HostLifeOf(id)
    OBVIOUS
  <2>1. Held(id)' => Held(id)
    BY DEF NoNewId
  <2>2. CASE id \in ids
    BY <2>2, HostFateNext
  <2>3. CASE id \notin ids
    BY <2>1, <2>3, HostFateOf, HostFateNext
  <2>4. QED
    BY <2>2, <2>3
<1>2. HostLife!Become(ids, "dropped")
  BY <1>1, HostFatesBecome
<1>3. \A id \in ids : HostLifeNow[id] = "stored"
  BY HostFateOf DEF HostLifeNow
<1>4. ids \in SUBSET DOMAIN HostLifeNow
  BY DEF HostLifeNow
<1> HIDE DEF ids
<1>5. HostLife!GiveUp(ids)
  BY <1>2, <1>3 DEF HostLife!GiveUp, HostLifeNow
<1>6. QED
  BY <1>4, <1>5 DEF HostLife!LifeNext, HostLifeNow

-----------------------------------------------------------------------------
(* Steps that find no id *)

(* Blobs have neither 0 nor None for an id. *)
LEMMA IdsAre ==
  ASSUME HostTypeOK
  PROVE  0 \notin DOMAIN blobs /\ None \notin DOMAIN blobs
<1>1. DOMAIN blobs = 1..Len(blobs) /\ Len(blobs) \in Nat
  BY LenProperties DEF HostTypeOK
<1>2. QED
  BY <1>1, NoneIsNoContent

(* A program moves on with the id it has, and zombies lose what was read.  *)
LEMMA MoveFindsNone ==
  ASSUME HostInv, NEW p \in Programs, proc[p].pc # "reply",
         \/ proc'[p].id \in {proc[p].id, 0}
         \/ \E c \in Pids : At(c, "zombie") /\ proc[c].out = proc'[p].id
         \/ proc'[p].pc \in {"reply", "tool"},
         proc'[p].pc # "zombie",
         \A q \in Pids \ {p} :
           \/ proc'[q] = proc[q] \/ proc'[q] = None
           \/ proc'[q].pc = "zombie" /\ proc'[q].out = None
  PROVE  NoNewId
<1> SUFFICES ASSUME NEW id \in DOMAIN blobs, NEW q \in Pids, HasId(q, id)'
             PROVE  Held(id)
  BY DEF NoNewId, Held
<1>1. id # 0 /\ id # None
  BY IdsAre DEF HostInv
<1>2. CASE q = p
  <2>1. proc'[p].id = id /\ proc'[p].pc \notin {"reply", "tool"}
    BY <1>2 DEF HasId, At, Programs, Serves
  <2>2. CASE proc'[p].id \in {proc[p].id, 0}
    BY <1>1, <2>1, <2>2 DEF Held, HasId, Programs, Alive
  <2>3. CASE \E c \in Pids : At(c, "zombie") /\ proc[c].out = proc'[p].id
    BY <2>1, <2>3 DEF Held, HasId
  <2>4. QED
    BY <2>1, <2>2, <2>3
<1>3. CASE q # p
  <2>1. proc'[q] = proc[q]
    BY <1>1, <1>3 DEF HasId, At, Programs, Alive, Serves
  <2>2. HasId(q, id)
    BY <2>1 DEF HasId, At, Programs, Alive
  <2>3. QED
    BY <2>2 DEF Held
<1>4. QED
  BY <1>2, <1>3

(* What a process leaves behind is no id, or one that is held already.     *)
LEMMA PartsFindsNone ==
  ASSUME HostInv, NEW c \in Alive, NEW k, Parts(c, k),
         k # None => k.out \notin DOMAIN blobs \/ Held(k.out)
  PROVE  NoNewId
<1> SUFFICES ASSUME NEW id \in DOMAIN blobs, NEW q \in Pids, HasId(q, id)'
             PROVE  Held(id)
  BY DEF NoNewId, Held
<1>1. c \in Pids
  BY DEF Alive
<1>2. CASE q = c
  <2>1. k # None /\ k.out = id
    BY <1>1, <1>2 DEF HasId, At, Parts, Programs, Alive, Serves
  <2>2. QED
    BY <2>1
<1>3. CASE q # c
  <2>1. proc'[q] = proc[q]
    BY <1>3 DEF HasId, At, Programs, Alive, Parts
  <2>2. HasId(q, id)
    BY <2>1 DEF HasId, At, Programs, Alive
  <2>3. QED
    BY <2>2 DEF Held
<1>4. QED
  BY <1>2, <1>3

LEMMA OneProgramFindsNone ==
  ASSUME HostInv, NEW p \in Pids,
         \/ \E n \in Names, c \in Contents : Accept(p, n, c)
         \/ Save(p) \/ Exec(p) \/ Unlink(p) \/ Insert(p)
         \/ ExecFails(p) \/ CallFails(p) \/ ForkFails(p) \/ SaveSpoils(p)
  PROVE  NoNewId
<1> USE DEF HostInv, HostTypeOK
<1>1. p \in Programs /\ proc[p] \in Processes /\ proc[p].pc # "reply"
  BY ProcTyped DEF Accept, Save, Exec, Unlink, Insert, ExecFails,
    CallFails, ForkFails, SaveSpoils, At, Programs, Serves
<1>2. /\ \A q \in Pids \ {p} : proc'[q] = proc[q]
      /\ proc'[p].pc # "zombie"
      /\ proc'[p].id = proc[p].id
  <2>1. ASSUME NEW n \in Names, NEW c \in Contents, Accept(p, n, c)
        PROVE  /\ \A q \in Pids \ {p} : proc'[q] = proc[q]
               /\ proc'[p].pc = "save" /\ proc'[p].id = proc[p].id
    <3>1. PICK r : r = [proc[p] EXCEPT !.pc = "save", !.req = Len(sent) + 1]
      OBVIOUS
    <3>2. /\ proc' = [proc EXCEPT ![p] = r] /\ r.pc = "save"
          /\ r.id = proc[p].id
      BY <1>1, <2>1, <3>1 DEF Accept, Processes
    <3>3. QED
      BY <1>1, <3>2
  <2>2. CASE Save(p) \/ SaveSpoils(p) \/ Exec(p) \/ ExecFails(p)
    <3>1. PICK pc : Goes(p, pc) /\ pc # "zombie"
      BY <2>2 DEF Save, SaveSpoils, Exec, ExecFails
    <3>2. PICK r : r = [proc[p] EXCEPT !.pc = pc]
      OBVIOUS
    <3>3. proc' = [proc EXCEPT ![p] = r] /\ r.pc = pc /\ r.id = proc[p].id
      BY <1>1, <3>1, <3>2 DEF Goes, Processes
    <3>4. QED
      BY <1>1, <3>1, <3>3
  <2>3. CASE Unlink(p)
    <3>1. PICK r : r = [proc[p] EXCEPT !.pc = "fork", !.wants = "url"]
      OBVIOUS
    <3>2. proc' = [proc EXCEPT ![p] = r] /\ r.pc = "fork" /\ r.id = proc[p].id
      BY <1>1, <2>3, <3>1 DEF Unlink, Processes
    <3>3. QED
      BY <1>1, <3>2
  <2>4. CASE Insert(p) \/ CallFails(p)
    <3>1. PICK code : Replies(p, code)
      BY <2>4 DEF Insert, CallFails
    <3>2. PICK r : r = [proc[p] EXCEPT !.pc = "reply", !.code = code]
      OBVIOUS
    <3>3. /\ proc' = [proc EXCEPT ![p] = r] /\ r.pc = "reply"
          /\ r.id = proc[p].id
      BY <1>1, <3>1, <3>2 DEF Replies, Processes
    <3>4. QED
      BY <1>1, <3>3
  <2>5. CASE ForkFails(p)
    <3>1. PICK m : m = proc[p].leaked + 2
      OBVIOUS
    <3>2. PICK r : r = [proc[p] EXCEPT !.pc = "reply", !.code = "009",
                                       !.leaked = m]
      OBVIOUS
    <3>3. /\ proc' = [proc EXCEPT ![p] = r] /\ r.pc = "reply"
          /\ r.id = proc[p].id
      BY <1>1, <2>5, <3>1, <3>2 DEF ForkFails, Processes
    <3>4. QED
      BY <1>1, <3>3
  <2>6. QED
    BY <2>1, <2>2, <2>3, <2>4, <2>5
<1>3. QED
  BY <1>1, <1>2, MoveFindsNone

LEMMA ReplyFindsNone ==
  ASSUME HostInv, NEW p \in Pids, Reply(p)
  PROVE  NoNewId
<1> USE DEF HostInv, HostTypeOK
<1> SUFFICES ASSUME NEW id \in DOMAIN blobs, NEW q \in Pids, HasId(q, id)'
             PROVE  Held(id)
  BY DEF NoNewId, Held
<1>1. id # 0 /\ id # None
  BY IdsAre
<1>2. PICK r : r = [Fresh EXCEPT !.parent = proc[p].parent,
                                 !.leaked = proc[p].leaked]
  OBVIOUS
<1>3. proc' = [proc EXCEPT ![p] = r] /\ r.pc = "accept" /\ r.id = 0
  BY <1>2 DEF Reply, Fresh
<1>4. q # p
  BY <1>1, <1>3 DEF HasId, At
<1>5. proc'[q] = proc[q]
  BY <1>3, <1>4
<1>6. HasId(q, id)
  BY <1>5 DEF HasId, At, Programs, Alive
<1>7. QED
  BY <1>6 DEF Held

LEMMA ForkFindsNone ==
  ASSUME HostInv, NEW p \in Pids, Fork(p)
  PROVE  NoNewId
<1> SUFFICES ASSUME NEW id \in DOMAIN blobs, NEW q \in Pids, HasId(q, id)'
             PROVE  Held(id)
  BY DEF NoNewId, Held
<1>1. PICK c \in Free :
        /\ \A d \in Pids \ {p, c} : proc'[d] = proc[d]
        /\ proc'[p].pc = "read" /\ proc'[c].pc = "exec"
        /\ \A d \in {p, c} : proc'[d].id = proc[p].id
  BY ForkProc
<1>2. CASE q \in {p, c}
  <2>1. proc[p].id = id /\ p \in Programs /\ proc[p].pc = "fork"
    BY <1>1, <1>2 DEF HasId, At, Fork, Programs, Serves
  <2>2. HasId(p, id)
    BY <2>1 DEF HasId
  <2>3. QED
    BY <2>2 DEF Held
<1>3. CASE q \notin {p, c}
  <2>1. HasId(q, id)
    BY <1>1, <1>3 DEF HasId, At, Programs, Alive
  <2>2. QED
    BY <2>1 DEF Held
<1>4. QED
  BY <1>2, <1>3

LEMMA ReadFindsNone ==
  ASSUME HostInv, NEW p \in Pids, Read(p)
  PROVE  NoNewId
<1> USE DEF HostInv, HostTypeOK
<1>1. PICK c : c = proc[p].child
  OBVIOUS
<1>2. /\ p \in Programs /\ proc[p] \in Processes /\ c \in Pids
      /\ proc[p].pc = "read"
      /\ proc[c] \in Processes /\ proc[c].pc = "zombie" /\ p # c
      /\ At(c, "zombie")
  BY <1>1, EndedChild DEF Read
<1>3. CASE proc[p].wants = "id"
  <2>1. PICK id : id = IF proc[c].out = None THEN proc[p].id ELSE proc[c].out
    OBVIOUS
  <2>2. ReadId(p, c)
    BY <1>1, <1>3 DEF Read
  <2>3. CASE id = 0
    <3>1. PICK m : m = proc[p].leaked + 1
      OBVIOUS
    <3>2. PICK r : r = [proc[p] EXCEPT !.pc = "reply", !.code = "009",
                                       !.leaked = m]
      OBVIOUS
    <3>3. /\ proc' = [proc EXCEPT ![p] = r] /\ r.pc = "reply"
          /\ r.id = proc[p].id
      BY <1>2, <2>1, <2>2, <2>3, <3>1, <3>2 DEF ReadId, Processes
    <3>4. /\ \A q \in Pids \ {p} : proc'[q] = proc[q]
          /\ proc'[p].pc = "reply"
      BY <1>2, <3>3
    <3>5. QED
      BY <1>2, <3>4, MoveFindsNone
  <2>4. CASE id # 0
    <3>1. PICK r : r = [proc[p] EXCEPT !.pc = "wait", !.id = id]
      OBVIOUS
    <3>2. PICK k : k = [proc[c] EXCEPT !.out = None]
      OBVIOUS
    <3>3. /\ r.pc = "wait" /\ r.id = id
          /\ k.pc = "zombie" /\ k.out = None
      BY <1>2, <3>1, <3>2 DEF Processes
    <3>4. proc' = [proc EXCEPT ![p] = r, ![c] = k]
      BY <1>2, <2>1, <2>2, <2>4, <3>1, <3>2 DEF ReadId
    <3>5. /\ \A q \in Pids \ {p, c} : proc'[q] = proc[q]
          /\ proc'[p] = r /\ proc'[c] = k
      BY <1>2, <3>4
    <3>6. \/ proc'[p].id = proc[p].id
          \/ At(c, "zombie") /\ proc[c].out = proc'[p].id
      BY <1>2, <2>1, <3>3, <3>5
    <3>7. QED
      BY <1>2, <3>3, <3>5, <3>6, MoveFindsNone
  <2>5. QED
    BY <2>3, <2>4
<1>4. CASE proc[p].wants # "id"
  <2>1. PICK url : url = (proc[c].out # None)
    OBVIOUS
  <2>2. ReadUrl(p, c)
    BY <1>1, <1>4 DEF Read
  <2>3. PICK r : r = [proc[p] EXCEPT !.pc = "wait", !.url = url]
    OBVIOUS
  <2>4. PICK k : k = [proc[c] EXCEPT !.out = None]
    OBVIOUS
  <2>5. /\ r.pc = "wait" /\ r.id = proc[p].id
        /\ k.pc = "zombie" /\ k.out = None
    BY <1>2, <2>3, <2>4 DEF Processes
  <2>6. proc' = [proc EXCEPT ![p] = r, ![c] = k]
    BY <1>2, <2>1, <2>2, <2>3, <2>4 DEF ReadUrl
  <2>7. /\ \A q \in Pids \ {p, c} : proc'[q] = proc[q]
        /\ proc'[p] = r /\ proc'[c] = k
    BY <1>2, <2>6
  <2>8. QED
    BY <1>2, <2>5, <2>7, MoveFindsNone
<1>5. QED
  BY <1>3, <1>4

LEMMA WaitFindsNone ==
  ASSUME HostInv, NEW p \in Pids, NEW pc \in {"unlink", "insert"},
         WaitGoes(p, pc)
  PROVE  NoNewId
<1> USE DEF HostInv, HostTypeOK
<1>1. p \in Programs /\ proc[p] \in Processes /\ proc[p].pc = "wait"
  BY ProcTyped DEF WaitGoes, At, Programs, Serves
<1>2. PICK c \in Pids :
        /\ proc[c].pc = "zombie"
        /\ proc' = [proc EXCEPT ![c] = None, ![p].pc = pc, ![p].child = 0]
  BY DEF WaitGoes, Reaped, Alive
<1>3. PICK r : r = [proc[p] EXCEPT !.pc = pc, !.child = 0]
  OBVIOUS
<1>4. r.pc = pc /\ r.id = proc[p].id
  BY <1>1, <1>3 DEF Processes
<1>5. proc' = [proc EXCEPT ![c] = None, ![p] = r]
  BY <1>1, <1>2, <1>3
<1>6. /\ \A q \in Pids \ {p, c} : proc'[q] = proc[q]
      /\ proc'[p] = r /\ proc'[c] = None
  BY <1>1, <1>2, <1>5
<1>7. QED
  BY <1>1, <1>4, <1>6, MoveFindsNone

LEMMA EndsFindNone ==
  ASSUME HostInv, NEW p \in Pids, Crash(p) \/ ToolFails(p)
  PROVE  NoNewId
<1>1. p \in Alive /\ Parts(p, proc'[p]) /\ (proc'[p] # None => proc'[p].out = None)
  <2>1. CASE Crash(p)
    <3>1. p \in Alive /\ proc[p].pc = "wait" /\ proc' = Ended({p})
      BY <2>1 DEF Crash, At
    <3>2. QED
      BY <3>1, EndedOne DEF Parts
  <2>2. CASE ToolFails(p)
    BY <2>2, ExitParts DEF ToolFails, At
  <2>3. QED
    BY <2>1, <2>2
<1>2. None \notin DOMAIN blobs
  BY IdsAre DEF HostInv
<1>3. QED
  BY <1>1, <1>2, PartsFindsNone

LEMMA RestartsFindNone ==
  ASSUME HostInv, Killed \/ Restarted
  PROVE  NoNewId
<1> SUFFICES ASSUME NEW id \in DOMAIN blobs, NEW q \in Pids, HasId(q, id)'
             PROVE  Held(id)
  BY DEF NoNewId, Held
<1>1. id # 0 /\ id # None
  BY IdsAre DEF HostInv
<1>2. PICK n \in Pids :
        /\ proc'[n] = Fresh
        /\ \A d \in Pids \ {n} : proc'[d] # None =>
              /\ d \in Alive \ Programs
              /\ proc'[d].pc = proc[d].pc /\ proc'[d].out = proc[d].out
  BY RestartsProc DEF Killed, Restarted
<1>3. q # n
  BY <1>1, <1>2, FreshIs DEF HasId, At
<1>4. At(q, "zombie")' /\ proc'[q].out = id
  BY <1>2, <1>3 DEF HasId, Programs, Alive
<1>5. HasId(q, id)
  BY <1>2, <1>3, <1>4 DEF HasId, At, Alive
<1>6. QED
  BY <1>5 DEF Held

-----------------------------------------------------------------------------
(* Steps that store or list a blob *)

LEMMA ToolLives ==
  ASSUME HostInv, NEW c \in Pids, Tool(c)
  PROVE  [HostLife!LifeNext]_HostLifeNow
<1> USE DEF HostInv
<1> PICK k : k = proc'[c]
  OBVIOUS
<1>1. c \in Alive /\ At(c, "tool") /\ proc[c].pc = "tool"
      /\ proc[c] \in Processes
  BY ProcTyped DEF Tool, At
<1>2. /\ blobs \in Seq(Seq(Octets)) /\ Len(blobs) \in Nat
      /\ DOMAIN blobs = 1..Len(blobs)
  BY LenProperties DEF HostTypeOK
<1>3. rows' = rows
  BY DEF Tool
<1>4. CASE blobs' # blobs
  <2> PICK n : n = Len(blobs) + 1
    OBVIOUS
  <2> PICK file : file = dir[NameOf(c)]
    OBVIOUS
  <2>1. /\ proc[c].wants = "id" /\ file # None
        /\ ExitsWith(c, n) /\ blobs' = Append(blobs, file)
    BY <1>4 DEF Tool
  <2>2. n \in Nat
    BY <1>2
  <2>3. file \in Seq(Octets)
    <3>1. proc[c].req \in DOMAIN sent
      BY <1>1 DEF HandsInv, HandsOf
    <3>2. sent[proc[c].req] \in [name: Names, content: Contents]
      BY <3>1, LenProperties, ElementOfSeq DEF HostTypeOK
    <3>3. NameOf(c) \in Names
      BY <3>2 DEF NameOf
    <3>4. QED
      BY <2>1, <3>3 DEF HostTypeOK
  <2>4. DOMAIN blobs' = 1..n
    <3>1. blobs' \in Seq(Seq(Octets)) /\ Len(blobs') = n
      BY <1>2, <2>1, <2>3, AppendProperties
    <3>2. QED
      BY <3>1, LenProperties
  <2>5. Parts(c, k) /\ (k # None => k.out = n)
    BY <1>1, <2>1, <2>2, ExitParts
  <2>6. ASSUME NEW id \in DOMAIN blobs
        PROVE  HostLifeOf(id)' = HostLifeOf(id)
    <3>1. id # n
      BY <1>2
    <3>2. ASSUME NEW q \in Pids PROVE HasId(q, id)' <=> HasId(q, id)
      <4>1. CASE q = c
        <5>1. ~HasId(q, id)
          BY <1>1, <4>1 DEF HasId, At, Programs, Serves
        <5>2. ~HasId(q, id)'
          BY <2>5, <3>1, <4>1 DEF HasId, At, Programs, Alive, Serves, Parts
        <5>3. QED
          BY <5>1, <5>2
      <4>2. CASE q # c
        <5>1. proc'[q] = proc[q]
          <6>1. ~(At(q, "zombie") /\ proc[q].parent = c)
            <7>1. c # 0 /\ c \notin Programs
              BY <1>1 DEF Pids, Programs, Serves
            <7>2. QED
              BY <7>1, ParentIs DEF At
          <6>2. QED
            BY <2>5, <4>2, <6>1 DEF Parts
        <5>2. QED
          BY <5>1 DEF HasId, At, Programs, Alive
      <4>3. QED
        BY <4>1, <4>2
    <3>3. Held(id)' <=> Held(id)
      BY <3>2 DEF Held
    <3>4. InTable(id)' <=> InTable(id)
      BY <1>3 DEF InTable
    <3>5. QED
      BY <3>3, <3>4, HostFateOf, HostFateNext
  <2>7. HostLifeOf(n)' \in {"stored", "dropped"}
    <3>1. ~InTable(n)'
      <4>1. n # 0 /\ n \notin DOMAIN blobs
        BY <1>2
      <4>2. QED
        BY <1>3, <4>1 DEF InTable, RowsInv
    <3>2. QED
      BY <3>1, HostFateNext
  <2>8. PICK fate \in {"stored", "dropped"} : fate = HostLifeOf(n)'
    BY <2>7
  <2>9. HostLifeNow' = Append(HostLifeNow, fate)
    <3> PICK m : m = Len(blobs)
      OBVIOUS
    <3> DEFINE now == Append(HostLifeNow, fate)
    <3>1. m \in Nat /\ n = m + 1 /\ DOMAIN blobs = 1..m
      BY <1>2
    <3>2. HostLifeNow \in Seq(HostLife!Fates) /\ Len(HostLifeNow) = m
      <4>1. HostLifeNow \in [1..m -> HostLife!Fates]
        BY <3>1 DEF HostLifeNow, HostLifeOf, HostLife!Fates
      <4>2. QED
        BY <3>1, <4>1
    <3>3. HostLifeNow' \in Seq(HostLife!Fates) /\ Len(HostLifeNow') = m + 1
      <4>1. HostLifeNow' \in [1..n -> HostLife!Fates]
        BY <2>4 DEF HostLifeNow, HostLifeOf, HostLife!Fates
      <4>2. QED
        BY <2>2, <3>1, <4>1
    <3>4. /\ now \in Seq(HostLife!Fates) /\ Len(now) = m + 1
          /\ \A id \in 1..m : now[id] = HostLifeNow[id]
          /\ now[m + 1] = fate
      <4>1. fate \in HostLife!Fates
        BY DEF HostLife!Fates
      <4>2. QED
        BY <3>2, <4>1, AppendProperties
    <3> HIDE DEF now
    <3>5. ASSUME NEW id \in 1..(m + 1)
          PROVE  HostLifeNow'[id] = now[id]
      <4>1. HostLifeNow'[id] = HostLifeOf(id)'
        BY <2>4, <3>1 DEF HostLifeNow
      <4>2. CASE id = n
        BY <2>8, <3>1, <3>4, <4>1, <4>2
      <4>3. CASE id # n
        <5>1. id \in 1..m
          BY <3>1, <4>3
        <5>2. QED
          BY <2>6, <3>1, <3>4, <4>1, <5>1 DEF HostLifeNow
      <4>4. QED
        BY <4>2, <4>3
    <3>6. HostLifeNow' = now
      BY <3>3, <3>4, <3>5, SeqEqual
    <3>7. QED
      BY <3>6 DEF now
  <2>10. QED
    BY <2>9 DEF HostLife!LifeNext, HostLife!StoreNew, HostLifeNow
<1>5. CASE blobs' = blobs
  <2> PICK out : out = IF proc[c].id = 0 THEN None ELSE proc[c].id
    OBVIOUS
  <2>1. ExitsWith(c, out) /\ out \in Nat \cup {None}
    <3>1. ~(proc[c].wants = "id" /\ dir[NameOf(c)] # None)
      <4>1. SUFFICES ASSUME proc[c].wants = "id" /\ dir[NameOf(c)] # None
                     PROVE  FALSE
        OBVIOUS
      <4>2. blobs' = Append(blobs, dir[NameOf(c)])
        BY <4>1 DEF Tool
      <4>3. Len(blobs') = Len(blobs) + 1
        BY <1>2, <4>2
      <4>4. QED
        BY <1>2, <1>5, <4>3
    <3>2. QED
      BY <1>1, <3>1 DEF Tool, Processes
  <2>2. Parts(c, k) /\ (k # None => k.out = out)
    BY <1>1, <2>1, ExitParts
  <2>3. ASSUME k # None PROVE k.out \notin DOMAIN blobs \/ Held(k.out)
    <3>1. None \notin DOMAIN blobs
      BY IdsAre
    <3>2. CASE proc[c].id = 0
      BY <2>2, <2>3, <3>1, <3>2
    <3>3. CASE proc[c].id # 0 /\ proc[c].parent # 0
      <4>1. PICK q : q = proc[c].parent
        OBVIOUS
      <4>2. q \in Programs /\ q \in Pids /\ At(q, "read") /\ proc[q].child = c
        BY <1>1, <3>3, <4>1, ParentIs DEF IsParent
      <4>3. proc[c].id = proc[q].id
        BY <1>1, <4>2, ChildIs DEF ReadsFrom, Forked
      <4>4. HasId(q, proc[c].id)
        BY <4>2, <4>3 DEF HasId, At
      <4>5. QED
        BY <2>2, <2>3, <3>3, <4>2, <4>4 DEF Held
    <3>4. CASE proc[c].parent = 0
      <4>1. PICK left : left = Ended({c})
        OBVIOUS
      <4>2. left[c] = None /\ left \in [Pids -> Processes \cup {None}]
        BY <1>1, <3>4, <4>1, EndedOne
      <4>3. proc'[c] = None
        BY <2>1, <4>1, <4>2 DEF ExitsWith
      <4>4. QED
        BY <2>3, <4>3
    <3>5. QED
      BY <3>2, <3>3, <3>4
  <2>4. NoNewId
    BY <1>1, <2>2, <2>3, PartsFindsNone
  <2>5. \A id : InTable(id)' <=> InTable(id)
    BY <1>3 DEF InTable
  <2>6. QED
    BY <1>5, <2>4, <2>5, GivesUpTheRest
<1>6. QED
  BY <1>4, <1>5

(* What a program adds to the rows when it inserts one *)
LEMMA InsertNamesId ==
  ASSUME HostInv, NEW p \in Pids, Insert(p)
  PROVE  \A id : InTable(id)' <=> InTable(id) \/ id = proc[p].id
<1> USE DEF HostInv
<1> DEFINE Row == [req: Nat, id: Nat, url: BOOLEAN]
<1> PICK new : new = [req |-> proc[p].req, id |-> proc[p].id,
                      url |-> proc[p].url]
  OBVIOUS
<1>1. p \in Programs /\ proc[p] \in Processes
  BY ProcTyped DEF Insert, At, Programs, Serves
<1>2. new \in Row /\ new.id = proc[p].id
  BY <1>1 DEF Processes
<1>3. rows' = Append(rows, new)
  BY DEF Insert
<1>4. /\ rows \in Seq(Row) /\ Len(rows) \in Nat /\ DOMAIN rows = 1..Len(rows)
  BY LenProperties DEF HostTypeOK
<1> HIDE DEF Row
<1>5. /\ DOMAIN rows' = 1..(Len(rows) + 1)
      /\ \A i \in DOMAIN rows : rows'[i] = rows[i]
      /\ rows'[Len(rows) + 1] = new
  <2>1. /\ rows' \in Seq(Row) /\ Len(rows') = Len(rows) + 1
        /\ \A i \in 1..Len(rows) : rows'[i] = rows[i]
        /\ rows'[Len(rows) + 1] = new
    BY <1>2, <1>3, <1>4, AppendProperties
  <2>2. QED
    BY <1>4, <2>1, LenProperties
<1>6. \A i : i \in DOMAIN rows' <=> i \in DOMAIN rows \/ i = Len(rows) + 1
  BY <1>4, <1>5
<1>7. QED
  BY <1>2, <1>5, <1>6 DEF InTable

LEMMA InsertLives ==
  ASSUME HostInv, NEW p \in Pids, Insert(p)
  PROVE  [HostLife!LifeNext]_HostLifeNow
<1> USE DEF HostInv
<1> PICK new : new = proc[p].id
  OBVIOUS
<1>1. p \in Programs /\ proc[p] \in Processes /\ proc[p].pc = "insert"
  BY ProcTyped DEF Insert, At, Programs, Serves
<1>2. blobs' = blobs
  BY DEF Insert
<1>3. \A id : InTable(id)' <=> InTable(id) \/ id = new
  BY InsertNamesId
<1>4. CASE new = 0 \/ InTable(new)
  <2>1. NoNewId
    BY OneProgramFindsNone
  <2>2. \A id \in DOMAIN blobs : InTable(id)' <=> InTable(id)
    BY <1>3, <1>4, IdsAre
  <2>3. QED
    BY <1>2, <2>1, <2>2, GivesUpTheRest
<1>5. CASE new # 0 /\ ~InTable(new)
  <2>1. new \in DOMAIN blobs
    BY <1>1, <1>5 DEF HandsInv, HandsOf, Programs, Alive, Serves
  <2>2. HostLifeOf(new) = "stored"
    <3>1. Held(new)
      BY <1>1 DEF Held, HasId
    <3>2. QED
      BY <1>5, <3>1, HostFateOf
  <2>3. HostLifeOf(new)' = "listed"
    BY <1>3, HostFateNext
  <2>4. \A q \in Pids \ {p} : proc'[q] = proc[q]
    <3>1. PICK r : r = [proc[p] EXCEPT !.pc = "reply", !.code = "008"]
      OBVIOUS
    <3>2. proc' = [proc EXCEPT ![p] = r]
      BY <1>1, <3>1 DEF Insert, Replies, HostTypeOK
    <3>3. QED
      BY <3>2
  <2>5. proc'[p].pc = "reply"
    BY <1>1 DEF Insert, Replies, HostTypeOK
  <2>6. ASSUME NEW id \in DOMAIN blobs, id # new
        PROVE  HostLifeOf(id)' = HostLifeOf(id)
    <3>1. ASSUME NEW q \in Pids PROVE HasId(q, id)' <=> HasId(q, id)
      <4>1. CASE q = p
        BY <1>1, <2>5, <2>6, <4>1 DEF HasId, At, Programs, Serves
      <4>2. CASE q # p
        BY <2>4, <4>2 DEF HasId, At, Programs, Alive
      <4>3. QED
        BY <4>1, <4>2
    <3>2. Held(id)' <=> Held(id)
      BY <3>1 DEF Held
    <3>3. InTable(id)' <=> InTable(id)
      BY <1>3, <2>6
    <3>4. QED
      BY <3>2, <3>3, HostFateOf, HostFateNext
  <2>7. HostLife!Become({new}, "listed")
    <3>1. \A id \in DOMAIN blobs :
            HostLifeOf(id)' = IF id \in {new} THEN "listed" ELSE HostLifeOf(id)
      BY <2>3, <2>6
    <3>2. QED
      BY <1>2, <3>1, HostFatesBecome
  <2>8. HostLife!List(new)
    BY <2>1, <2>2, <2>7 DEF HostLife!List
  <2>9. QED
    BY <2>1, <2>8 DEF HostLife!LifeNext, HostLifeNow
<1>6. QED
  BY <1>4, <1>5

-----------------------------------------------------------------------------
(* The statement that counts *)

LEMMA OthersFindNone ==
  ASSUME HostInv, HostNext, \A p \in Pids : ~Tool(p) /\ ~Insert(p), ~Done
  PROVE  NoNewId /\ blobs' = blobs /\ rows' = rows
<1>1. ASSUME NEW p \in Pids, NEW n \in Names, NEW c \in Contents,
             Accept(p, n, c)
      PROVE  NoNewId /\ blobs' = blobs /\ rows' = rows
  BY <1>1, OneProgramFindsNone DEF Accept
<1>2. ASSUME NEW p \in Pids, Save(p) \/ SaveSpoils(p) \/ Exec(p) \/ Unlink(p)
      PROVE  NoNewId /\ blobs' = blobs /\ rows' = rows
  BY <1>2, OneProgramFindsNone DEF Save, SaveSpoils, Exec, Unlink
<1>3. ASSUME NEW p \in Pids, ExecFails(p) \/ CallFails(p) \/ ForkFails(p)
      PROVE  NoNewId /\ blobs' = blobs /\ rows' = rows
  BY <1>3, OneProgramFindsNone DEF ExecFails, CallFails, ForkFails
<1>4. ASSUME NEW p \in Pids, Fork(p) \/ Read(p) \/ Reply(p)
      PROVE  NoNewId /\ blobs' = blobs /\ rows' = rows
  BY <1>4, ForkFindsNone, ReadFindsNone, ReplyFindsNone DEF Fork, Read, Reply
<1>5. ASSUME NEW p \in Pids, WaitId(p) \/ WaitUrl(p)
      PROVE  NoNewId /\ blobs' = blobs /\ rows' = rows
  BY <1>5, WaitFindsNone DEF WaitId, WaitUrl, WaitGoes
<1>6. ASSUME NEW p \in Pids, Crash(p) \/ ToolFails(p)
      PROVE  NoNewId /\ blobs' = blobs /\ rows' = rows
  BY <1>6, EndsFindNone DEF Crash, ToolFails
<1>7. CASE Killed \/ Restarted
  BY <1>7, RestartsFindNone DEF Killed, Restarted
<1>8. ASSUME NEW p \in Pids, Step(p)
      PROVE  NoNewId /\ blobs' = blobs /\ rows' = rows
  BY <1>2, <1>4, <1>5, <1>6, <1>8 DEF Step
<1>9. QED
  BY <1>1, <1>2, <1>3, <1>6, <1>7, <1>8 DEF HostNext

LEMMA HostStepLives ==
  ASSUME HostInv, [HostNext]_hostVars
  PROVE  [HostLife!LifeNext]_HostLifeNow
<1>1. CASE \E p \in Pids : Tool(p) \/ Insert(p)
  BY <1>1, ToolLives, InsertLives
<1>2. CASE Done \/ UNCHANGED hostVars
  <2>1. UNCHANGED <<proc, blobs, rows>>
    BY <1>2 DEF Done, hostVars
  <2>2. HostLifeNow' = HostLifeNow
    BY <2>1 DEF HostLifeNow, HostLifeOf, HasId, At, Programs, Alive
  <2>3. QED
    BY <2>2
<1>3. CASE HostNext /\ ~Done /\ \A p \in Pids : ~Tool(p) /\ ~Insert(p)
  <2>1. NoNewId /\ blobs' = blobs /\ rows' = rows
    BY <1>3, OthersFindNone
  <2>2. \A id \in DOMAIN blobs : InTable(id)' <=> InTable(id)
    BY <2>1 DEF InTable
  <2>3. QED
    BY <2>1, <2>2, GivesUpTheRest
<1>4. QED
  BY <1>1, <1>2, <1>3

LEMMA HostInitLives == HostInit => HostLife!LifeInit
<1> SUFFICES ASSUME HostInit PROVE HostLifeNow = <<>>
  BY DEF HostLife!LifeInit, HostLifeNow
<1>1. DOMAIN blobs = {}
  BY DEF HostInit
<1>2. QED
  BY <1>1 DEF HostLifeNow

(* Whatever the copies, the tools and the kills interleave, an id is       *)
(* listed only by a program that got it from the tool that stored the blob *)
(* (upload_cgi.c:287-297, 391-431), and one that was given up is never     *)
(* found again: the process tree implements BlobLife.                      *)
THEOREM HostBlobsLive == HostSpec => HostBlobsLiveOnce
<1>1. HostInit => HostLife!LifeInit
  BY HostInitLives
<1>2. HostInv /\ [HostNext]_hostVars => [HostLife!LifeNext]_HostLifeNow
  BY HostStepLives
<1>3. QED
  BY <1>1, <1>2, HostInvAlways, PTL
     DEF HostSpec, HostBlobsLiveOnce, HostLife!LifeSpec, HostLifeNow

-----------------------------------------------------------------------------
(* What failures leave behind                                              *)

(* The steps once more, as what they do to each process *)

OthersStay(S) == \A q \in Pids \ S : proc'[q] = proc[q]

(* p goes on at pc, under the same parent. *)
GoesOnAt(p, pc) ==
  /\ p \in Programs /\ p \in Pids /\ proc[p] \in Processes
  /\ proc'[p] \in Processes /\ proc'[p] # None
  /\ proc'[p].pc = pc /\ proc'[p].parent = proc[p].parent
  /\ proc'[p].out = proc[p].out

SameUpload(p, q) ==
  /\ proc'[p].req = proc[q].req /\ proc'[p].wants = proc[q].wants
  /\ proc'[p].id = proc[q].id   /\ proc'[p].url = proc[q].url

NoFault == execFails' = execFails /\ faults' = faults

Accepts(p) ==
  /\ proc[p].pc = "accept" /\ GoesOnAt(p, "save") /\ OthersStay({p})
  /\ proc'[p].req = Len(sent) + 1 /\ proc'[p].wants = proc[p].wants
  /\ proc'[p].id = proc[p].id     /\ proc'[p].url = proc[p].url
  /\ proc'[p].leaked = proc[p].leaked
  /\ \E n \in Names, c \in Contents :
       sent' = Append(sent, [name |-> n, content |-> c])
  /\ UNCHANGED <<dir, rows, answers>> /\ NoFault

Saves(p) ==
  /\ proc[p].pc = "save" /\ GoesOnAt(p, "fork") /\ OthersStay({p})
  /\ SameUpload(p, p) /\ proc'[p].leaked = proc[p].leaked
  /\ \A n \in Names : n # NameOf(p) => dir'[n] = dir[n]
  /\ UNCHANGED <<sent, rows, answers, execFails>>
  /\ faults' = faults \/ faults' = faults + 1

Execs(p) ==
  /\ proc[p].pc = "exec" /\ GoesOnAt(p, "tool") /\ OthersStay({p})
  /\ SameUpload(p, p)
  /\ UNCHANGED <<dir, sent, rows, answers>> /\ NoFault

GoesOnAsCopy(p) ==
  /\ proc[p].pc = "exec" /\ OthersStay({p})
  /\ GoesOnAt(p, IF proc[p].wants = "id" THEN "unlink" ELSE "insert")
  /\ SameUpload(p, p) /\ proc'[p].leaked = proc[p].leaked
  /\ UNCHANGED <<dir, sent, rows, answers>>
  /\ execFails' = execFails + 1 /\ faults' = faults + 1

Unlinks(p) ==
  /\ proc[p].pc = "unlink" /\ GoesOnAt(p, "fork") /\ OthersStay({p})
  /\ proc'[p].req = proc[p].req /\ proc'[p].wants = "url"
  /\ proc'[p].id = proc[p].id   /\ proc'[p].url = proc[p].url
  /\ proc'[p].leaked = proc[p].leaked
  /\ dir' = [dir EXCEPT ![NameOf(p)] = None]
  /\ UNCHANGED <<sent, rows, answers>> /\ NoFault

Inserts(p) ==
  /\ proc[p].pc = "insert" /\ GoesOnAt(p, "reply") /\ OthersStay({p})
  /\ SameUpload(p, p) /\ proc'[p].leaked = proc[p].leaked
  /\ rows' = Append(rows, [req |-> proc[p].req, id |-> proc[p].id,
                           url |-> proc[p].url])
  /\ UNCHANGED <<dir, sent, answers>> /\ NoFault

GivesUp(p) ==
  /\ proc[p].pc \in {"save", "fork", "insert"}
  /\ GoesOnAt(p, "reply") /\ OthersStay({p}) /\ SameUpload(p, p)
  /\ proc'[p].leaked \in {proc[p].leaked, proc[p].leaked + 2}
  /\ UNCHANGED <<dir, sent, rows, answers, execFails>> /\ faults' = faults + 1

Answers(p) ==
  /\ proc[p].pc = "reply" /\ GoesOnAt(p, "accept") /\ OthersStay({p})
  /\ proc'[p].req = 0 /\ proc'[p].wants = "id"
  /\ proc'[p].id = 0  /\ proc'[p].url = FALSE
  /\ proc'[p].leaked = proc[p].leaked
  /\ answers' = [answers EXCEPT ![proc[p].req] = Append(@, proc[p].code)]
  /\ UNCHANGED <<dir, sent, rows>> /\ NoFault

Forks(p, c) ==
  /\ proc[p].pc = "fork" /\ c \in Free /\ c # p /\ OthersStay({p, c})
  /\ GoesOnAt(p, "read") /\ SameUpload(p, p) /\ proc'[p].child = c
  /\ proc'[p].leaked = proc[p].leaked
  /\ proc'[c] \in Processes /\ proc'[c] # None
  /\ proc'[c].pc = "exec" /\ proc'[c].parent = p
  /\ SameUpload(c, p) /\ proc'[c].leaked = proc[p].leaked
  /\ UNCHANGED <<dir, sent, rows, answers>> /\ NoFault

(* p reads to the end of what its child c wrote. *)
Reads(p, c) ==
  /\ proc[p].pc = "read" /\ c = proc[p].child /\ c # p /\ OthersStay({p, c})
  /\ c \in Pids /\ proc[c].pc = "zombie" /\ proc[c].parent = p
  /\ proc'[c] \in Processes /\ proc'[c] # None
  /\ proc'[c].pc = "zombie" /\ proc'[c].parent = p
  /\ proc'[p].req = proc[p].req /\ proc'[p].wants = proc[p].wants
  /\ IF proc[p].wants = "id" /\ proc[c].out = None
     THEN /\ GoesOnAt(p, "reply") /\ proc'[p].leaked = proc[p].leaked + 1
          /\ proc'[p].id = proc[p].id /\ proc'[p].url = proc[p].url
     ELSE /\ GoesOnAt(p, "wait") /\ proc'[p].leaked = proc[p].leaked
          /\ proc'[p].child = c
          /\ IF proc[p].wants = "id"
             THEN proc'[p].id # 0 /\ proc'[p].url = proc[p].url
             ELSE /\ proc'[p].id = proc[p].id
                  /\ proc'[p].url = (proc[c].out # None)
  /\ UNCHANGED <<dir, sent, rows, answers>> /\ NoFault

Waits(p, c) ==
  /\ proc[p].pc = "wait" /\ c \in Reaped(p) /\ c # p /\ OthersStay({p, c})
  /\ proc'[c] = None
  /\ GoesOnAt(p, IF proc[p].wants = "id" THEN "unlink" ELSE "insert")
  /\ proc[p].wants = "url" => proc[p].url
  /\ SameUpload(p, p) /\ proc'[p].leaked = proc[p].leaked
  /\ UNCHANGED <<dir, sent, rows, answers>> /\ NoFault

(* A tool ends; its output is the id it has, or the one it stored. *)
ToolEnds(c, k) ==
  /\ proc[c].pc = "tool" /\ c \in Alive /\ Parts(c, k)
  /\ k # None /\ proc[c].wants = "id" /\ dir[NameOf(c)] # None =>
       k.out # None
  /\ k # None /\ proc[c].wants = "url" => (k.out # None <=> proc[c].id # 0)
  /\ UNCHANGED <<dir, sent, rows, answers>> /\ NoFault

ToolEndsBadly(c, k) ==
  /\ proc[c].pc = "tool" /\ c \in Alive /\ Parts(c, k)
  /\ k # None => k.out = None
  /\ UNCHANGED <<dir, sent, rows, answers, execFails>> /\ faults' = faults + 1

Crashes(p, k) ==
  /\ p \in Programs /\ proc[p].pc = "wait"
  /\ proc[p].wants = "url" /\ ~proc[p].url
  /\ Parts(p, k) /\ (k # None => k.out = None)
  /\ UNCHANGED <<dir, sent, rows, answers>> /\ NoFault

(* A new program, and nothing of those before it but their tools *)
StartsAnew(n) ==
  /\ n \in Pids /\ proc' \in [Pids -> Processes \cup {None}]
  /\ proc'[n] = Fresh
  /\ \A q \in Pids \ {n} : proc'[q] # None =>
       /\ q \in Alive \ Programs
       /\ proc'[q].parent = 0        /\ proc'[q].pc = proc[q].pc
       /\ proc'[q].req = proc[q].req /\ proc'[q].id = proc[q].id
       /\ proc'[q].wants = proc[q].wants
  /\ UNCHANGED <<dir, sent, rows, answers, execFails>>
  /\ \/ faults' = faults + 1
     \/ faults' = faults /\ Programs = {}

OneProgram(p) ==
  \/ Accepts(p) \/ Saves(p) \/ Execs(p) \/ GoesOnAsCopy(p) \/ Unlinks(p)
  \/ Inserts(p) \/ GivesUp(p) \/ Answers(p)

HostMoves ==
  \/ \E p \in Pids : OneProgram(p)
  \/ \E p \in Pids, c \in Pids : Forks(p, c) \/ Reads(p, c) \/ Waits(p, c)
  \/ \E c \in Pids : \E k \in Processes \cup {None} :
       ToolEnds(c, k) \/ ToolEndsBadly(c, k) \/ Crashes(c, k)
  \/ \E n \in Pids : StartsAnew(n)
  \/ UNCHANGED hostVars

LEMMA AcceptDoes ==
  ASSUME HostInv, NEW p \in Pids, NEW n \in Names, NEW c \in Contents,
         Accept(p, n, c)
  PROVE  Accepts(p)
<1>1. p \in Programs /\ proc[p] \in Processes /\ proc[p].pc = "accept"
  BY ProcTyped DEF HostInv, Accept, At, Programs, Serves
<1>2. PICK m : m = Len(sent) + 1
  OBVIOUS
<1>3. m \in Nat
  BY <1>2, LenProperties, NatAdds DEF HostInv, HostTypeOK
<1>4. PICK r : r = [proc[p] EXCEPT !.pc = "save", !.req = m]
  OBVIOUS
<1>5. /\ r \in Processes /\ r.pc = "save" /\ r.parent = proc[p].parent
      /\ r.req = m /\ r.id = proc[p].id /\ r.out = proc[p].out
      /\ r.wants = proc[p].wants /\ r.url = proc[p].url
      /\ r.leaked = proc[p].leaked
  BY <1>1, <1>3, <1>4 DEF Processes, Serves
<1>6. proc' = [proc EXCEPT ![p] = r]
  BY <1>1, <1>2, <1>4 DEF Accept, HostInv, HostTypeOK
<1>7. /\ proc'[p] = r /\ r # None /\ OthersStay({p})
  BY <1>5, <1>6, NoneIsNoProcess DEF HostInv, HostTypeOK, OthersStay
<1>8. QED
  BY <1>1, <1>2, <1>5, <1>7 DEF Accept, Accepts, GoesOnAt, NoFault

(* A program moves on with its upload. *)
LEMMA MoveDoes ==
  ASSUME HostInv, NEW p \in Programs, NEW r \in Processes,
         r.parent = proc[p].parent, r.out = proc[p].out,
         proc' = [proc EXCEPT ![p] = r]
  PROVE  p \in Pids /\ proc'[p] = r /\ GoesOnAt(p, r.pc) /\ OthersStay({p})
<1>1. p \in Alive /\ p \in Pids /\ proc \in [Pids -> Processes \cup {None}]
  BY DEF Programs, Alive, HostInv, HostTypeOK
<1>2. proc[p] \in Processes
  BY <1>1, ProcTyped DEF HostInv
<1>3. QED
  BY <1>1, <1>2, NoneIsNoProcess DEF GoesOnAt, OthersStay

LEMMA CopyDoes ==
  ASSUME HostInv, NEW p \in Pids,
         Save(p) \/ SaveSpoils(p) \/ Exec(p) \/ ExecFails(p)
  PROVE  Saves(p) \/ Execs(p) \/ GoesOnAsCopy(p)
<1>1. p \in Programs /\ proc[p] \in Processes
  BY ProcTyped DEF HostInv, Save, SaveSpoils, Exec, ExecFails, At, Programs,
    Serves
<1>2. PICK pc \in {"fork", "tool", "unlink", "insert"} :
        /\ Goes(p, pc)
        /\ Save(p) \/ SaveSpoils(p) => pc = "fork"
        /\ Exec(p) => pc = "tool"
        /\ ExecFails(p) =>
             pc = IF proc[p].wants = "id" THEN "unlink" ELSE "insert"
  <2>1. CASE Save(p) \/ SaveSpoils(p)
    BY <2>1 DEF Save, SaveSpoils, Exec, ExecFails, At
  <2>2. CASE Exec(p) /\ ~ExecFails(p)
    BY <2>2 DEF Save, SaveSpoils, Exec, At
  <2>3. CASE ExecFails(p)
    <3>1. ~Save(p) /\ ~SaveSpoils(p)
      BY <2>3 DEF Save, SaveSpoils, ExecFails, At
    <3>2. ~Exec(p)
      BY ZenonT(60), <1>1, <2>3
         DEF Exec, ExecFails, Goes, Processes, HostInv, HostTypeOK
    <3>3. QED
      BY <2>3, <3>1, <3>2 DEF ExecFails
  <2>4. QED
    BY <2>1, <2>2, <2>3
<1>3. PICK r : r = [proc[p] EXCEPT !.pc = pc]
  OBVIOUS
<1>4. /\ r \in Processes /\ r.pc = pc /\ r.parent = proc[p].parent
      /\ r.req = proc[p].req /\ r.id = proc[p].id /\ r.out = proc[p].out
      /\ r.wants = proc[p].wants /\ r.url = proc[p].url
      /\ r.leaked = proc[p].leaked
  BY <1>1, <1>3 DEF Processes, Serves
<1>5. proc' = [proc EXCEPT ![p] = r]
  BY <1>2, <1>3 DEF Goes, HostInv, HostTypeOK
<1>6. proc'[p] = r /\ GoesOnAt(p, pc) /\ OthersStay({p})
  BY <1>1, <1>4, <1>5, MoveDoes
<1>7. SameUpload(p, p) /\ proc'[p].leaked = proc[p].leaked
  BY <1>4, <1>6 DEF SameUpload
<1>8. CASE Save(p) \/ SaveSpoils(p)
  <2>1. dir \in [Names -> Seq(Octets) \cup {None}]
    BY DEF HostInv, HostTypeOK
  <2>2. PICK bytes : dir' = [dir EXCEPT ![NameOf(p)] = bytes]
    BY <1>8 DEF Save, SaveSpoils
  <2>3. \A n \in Names : n # NameOf(p) => dir'[n] = dir[n]
    BY <2>1, <2>2
  <2>4. QED
    BY <1>2, <1>6, <1>7, <1>8, <2>3 DEF Save, SaveSpoils, Saves, At
<1>9. CASE Exec(p)
  BY <1>2, <1>6, <1>7, <1>9 DEF Exec, Execs, At, NoFault
<1>10. CASE ExecFails(p)
  BY <1>2, <1>6, <1>7, <1>10 DEF ExecFails, GoesOnAsCopy, At
<1>11. QED
  BY <1>8, <1>9, <1>10

LEMMA EndOfMainDoes ==
  ASSUME HostInv, NEW p \in Pids, Unlink(p) \/ Insert(p) \/ Reply(p)
  PROVE  Unlinks(p) \/ Inserts(p) \/ Answers(p)
<1>1. p \in Programs /\ proc[p] \in Processes
  BY ProcTyped DEF HostInv, Unlink, Insert, Reply, At, Programs, Serves
<1>2. proc \in [Pids -> Processes \cup {None}]
  BY DEF HostInv, HostTypeOK
<1>3. CASE Unlink(p)
  <2>1. PICK r : r = [proc[p] EXCEPT !.pc = "fork", !.wants = "url"]
    OBVIOUS
  <2>2. /\ r \in Processes /\ r.pc = "fork" /\ r.parent = proc[p].parent
        /\ r.req = proc[p].req /\ r.id = proc[p].id /\ r.out = proc[p].out
        /\ r.wants = "url" /\ r.url = proc[p].url
        /\ r.leaked = proc[p].leaked
    BY <1>1, <2>1 DEF Processes, Serves
  <2>3. proc' = [proc EXCEPT ![p] = r]
    BY <1>2, <1>3, <2>1 DEF Unlink
  <2>4. QED
    BY ZenonT(60), <1>1, <1>3, <2>2, <2>3, MoveDoes DEF Unlink, Unlinks, At, NoFault
<1>4. CASE Insert(p)
  <2>1. PICK r : r = [proc[p] EXCEPT !.pc = "reply", !.code = "008"]
    OBVIOUS
  <2>2. /\ r \in Processes /\ r.pc = "reply" /\ r.parent = proc[p].parent
        /\ r.req = proc[p].req /\ r.id = proc[p].id /\ r.out = proc[p].out
        /\ r.wants = proc[p].wants /\ r.url = proc[p].url
        /\ r.leaked = proc[p].leaked
    BY <1>1, <2>1 DEF Processes, Serves
  <2>3. proc' = [proc EXCEPT ![p] = r]
    BY <1>2, <1>4, <2>1 DEF Insert, Replies
  <2>4. QED
    BY <1>1, <1>4, <2>2, <2>3, MoveDoes
       DEF Insert, Inserts, SameUpload, At, NoFault
<1>5. CASE Reply(p)
  <2>1. PICK r : r = [Fresh EXCEPT !.parent = proc[p].parent,
                                   !.leaked = proc[p].leaked]
    OBVIOUS
  <2>2. /\ r \in Processes /\ r.pc = "accept" /\ r.parent = proc[p].parent
        /\ r.req = 0 /\ r.id = 0 /\ r.out = None
        /\ r.wants = "id" /\ r.url = FALSE
        /\ r.leaked = proc[p].leaked
    BY <1>1, <2>1 DEF Processes, Serves, Fresh
  <2>3. proc' = [proc EXCEPT ![p] = r]
    BY <1>5, <2>1 DEF Reply
  <2>4. proc[p].out = None
    BY <1>1, ServesIsNoTool DEF HostInv, HandsInv, HandsOf, Programs, Alive
  <2>5. QED
    BY ZenonT(60), <1>1, <1>5, <2>2, <2>3, <2>4, MoveDoes
       DEF Reply, Answers, At, NoFault
<1>6. QED
  BY <1>3, <1>4, <1>5

LEMMA GivingUpDoes ==
  ASSUME HostInv, NEW p \in Pids, CallFails(p) \/ ForkFails(p)
  PROVE  GivesUp(p)
<1>1. /\ p \in Programs /\ proc[p] \in Processes
      /\ proc[p].pc \in {"save", "fork", "insert"}
  BY ProcTyped DEF HostInv, CallFails, ForkFails, At, Programs, Serves
<1>2. proc \in [Pids -> Processes \cup {None}]
  BY DEF HostInv, HostTypeOK
<1>3. PICK m \in Nat : /\ m \in {proc[p].leaked, proc[p].leaked + 2}
                       /\ proc' = [proc EXCEPT ![p] =
                            [proc[p] EXCEPT !.pc = "reply", !.code = "009",
                                            !.leaked = m]]
  <2>1. proc[p].leaked \in Nat
    BY <1>1 DEF Processes
  <2>2. proc[p].leaked + 2 \in Nat
    BY <2>1, NatAdds, Zenon
  <2>3. CASE CallFails(p)
    <3>1. proc' = [proc EXCEPT ![p] =
                     [proc[p] EXCEPT !.pc = "reply", !.code = "009"]]
      BY <1>2, <2>3 DEF CallFails, Replies
    <3>2. [proc[p] EXCEPT !.pc = "reply", !.code = "009"]
            = [proc[p] EXCEPT !.pc = "reply", !.code = "009",
                              !.leaked = proc[p].leaked]
      BY <1>1 DEF Processes
    <3>3. QED
      BY <2>1, <3>1, <3>2, Zenon
  <2>4. CASE ForkFails(p)
    <3>1. PICK m : m = proc[p].leaked + 2
      OBVIOUS
    <3>2. proc' = [proc EXCEPT ![p] =
                     [proc[p] EXCEPT !.pc = "reply", !.code = "009",
                                     !.leaked = m]]
      BY <1>2, <2>4, <3>1 DEF ForkFails
    <3>3. QED
      BY <2>2, <3>1, <3>2, Zenon
  <2>5. QED
    BY <2>3, <2>4
<1>4. PICK r : r = [proc[p] EXCEPT !.pc = "reply", !.code = "009",
                                   !.leaked = m]
  OBVIOUS
<1>5. /\ r \in Processes /\ r.pc = "reply" /\ r.parent = proc[p].parent
      /\ r.req = proc[p].req /\ r.id = proc[p].id /\ r.out = proc[p].out
      /\ r.wants = proc[p].wants /\ r.url = proc[p].url
      /\ r.leaked = m
  BY <1>1, <1>4 DEF Processes, Serves
<1>6. proc'[p] = r /\ GoesOnAt(p, "reply") /\ OthersStay({p})
  BY ZenonT(60), <1>1, <1>3, <1>4, <1>5, MoveDoes
<1>7. proc'[p].leaked \in {proc[p].leaked, proc[p].leaked + 2}
  BY <1>3, <1>5, <1>6
<1>8. UNCHANGED <<dir, sent, rows, answers, execFails>> /\ faults' = faults + 1
  BY DEF CallFails, ForkFails
<1>9. QED
  BY <1>1, <1>5, <1>6, <1>7, <1>8 DEF GivesUp, SameUpload

LEMMA ForkDoes ==
  ASSUME HostInv, NEW p \in Pids, Fork(p)
  PROVE  \E c \in Pids : Forks(p, c)
<1>1. PICK c : c = LeastOf(Free)
  OBVIOUS
<1>2. /\ c \in Free /\ c \in Pids /\ p # c /\ proc[p] \in Processes
      /\ p \in Programs /\ proc[p].pc = "fork"
      /\ proc \in [Pids -> Processes \cup {None}]
  <2>1. c \in Free /\ c \in Pids /\ p # c /\ proc[p] \in Processes
    BY <1>1, LeastIsIn, ProcTyped DEF HostInv, Fork, Free, At
  <2>2. p \in Programs /\ proc[p].pc = "fork"
    BY DEF Fork, At, Programs, Serves
  <2>3. QED
    BY <2>1, <2>2 DEF HostInv, HostTypeOK
<1> DEFINE r == [proc[p] EXCEPT !.pc = "read", !.child = c]
           k == [proc[p] EXCEPT !.pc = "exec", !.parent = p, !.child = 0]
<1>3. proc' = [proc EXCEPT ![p] = r, ![c] = k]
  BY <1>1, <1>2 DEF Fork
<1>4. /\ r \in Processes /\ r.pc = "read" /\ r.child = c
      /\ r.parent = proc[p].parent /\ r.req = proc[p].req
      /\ r.wants = proc[p].wants /\ r.id = proc[p].id /\ r.out = proc[p].out
      /\ r.url = proc[p].url /\ r.leaked = proc[p].leaked
  BY <1>2 DEF Processes, Serves
<1>5. /\ k \in Processes /\ k.pc = "exec" /\ k.parent = p
      /\ k.req = proc[p].req
      /\ k.wants = proc[p].wants /\ k.id = proc[p].id
      /\ k.url = proc[p].url /\ k.leaked = proc[p].leaked
  BY <1>2 DEF Processes, Serves
<1> HIDE DEF r, k
<1>6. proc'[p] = r /\ proc'[c] = k /\ OthersStay({p, c})
  BY <1>2, <1>3 DEF OthersStay
<1>7. GoesOnAt(p, "read") /\ SameUpload(p, p) /\ SameUpload(c, p)
  BY <1>2, <1>4, <1>5, <1>6, NoneIsNoProcess DEF GoesOnAt, SameUpload
<1>8. UNCHANGED <<dir, sent, rows, answers>> /\ NoFault
  BY DEF Fork, NoFault
<1>9. Forks(p, c)
  BY <1>2, <1>4, <1>5, <1>6, <1>7, <1>8, NoneIsNoProcess DEF Forks
<1>10. QED
  BY <1>2, <1>9

LEMMA UrlTyped ==
  ASSUME NEW b \in Processes, NEW url \in BOOLEAN
  PROVE  [b EXCEPT !.url = url] \in Processes
BY DEF Processes

LEMMA ReadDoes ==
  ASSUME HostInv, NEW p \in Pids, Read(p)
  PROVE  \E c \in Pids : Reads(p, c)
<1> PICK c : c = proc[p].child
  OBVIOUS
<1>1. At(p, "read") /\ At(c, "zombie")
  BY DEF Read
<1>2. /\ p \in Programs /\ proc[p] \in Processes /\ proc[p].pc = "read"
      /\ c \in Pids /\ proc[c] \in Processes /\ proc[c].pc = "zombie"
      /\ proc[c].parent = p /\ p # c /\ HandsOf(p) /\ ReadsFrom(p, c)
  BY <1>1, EndedChild
<1>3. UNCHANGED <<dir, sent, rows, answers>> /\ NoFault
  BY DEF Read, NoFault
<1>4. proc \in [Pids -> Processes \cup {None}]
  BY DEF HostInv, HostTypeOK
<1>5. proc[p].wants = "id" => proc[p].id = 0
  BY <1>2 DEF HandsOf
<1>6. CASE proc[p].wants = "id" /\ proc[c].out = None
  <2>a. PICK m : m = proc[p].leaked + 1
    OBVIOUS
  <2>b. PICK r : r = [proc[p] EXCEPT !.pc = "reply", !.code = "009",
                                     !.leaked = m]
    OBVIOUS
  <2>1. m \in Nat
    BY <1>2, <2>a, NatAdds DEF Processes
  <2>2. /\ r \in Processes /\ r.pc = "reply" /\ r.parent = proc[p].parent
        /\ r.req = proc[p].req /\ r.id = proc[p].id /\ r.out = proc[p].out
        /\ r.wants = proc[p].wants /\ r.url = proc[p].url /\ r.leaked = m
    BY <1>2, <2>1, <2>b DEF Processes, Serves
  <2>3. proc' = [proc EXCEPT ![p] = r]
    BY <1>5, <1>6, <2>a, <2>b DEF Read, ReadId
  <2>4. proc'[p] = r /\ OthersStay({p}) /\ GoesOnAt(p, "reply")
    BY <1>2, <2>2, <2>3, MoveDoes
  <2>5. proc'[c] = proc[c] /\ OthersStay({p, c})
    BY <1>2, <2>4 DEF OthersStay
  <2>6. Reads(p, c)
    BY <1>2, <1>3, <1>6, <2>2, <2>4, <2>5, <2>a, NoneIsNoProcess DEF Reads
  <2>7. QED
    BY <1>2, <2>6
<1>7. CASE ~(proc[p].wants = "id" /\ proc[c].out = None)
  <2> PICK url : url = IF proc[p].wants = "id" THEN proc[p].url
                       ELSE proc[c].out # None
    OBVIOUS
  <2> PICK id : id = IF proc[p].wants = "id" THEN proc[c].out ELSE proc[p].id
    OBVIOUS
  <2> PICK r : r = [proc[p] EXCEPT !.pc = "wait", !.id = id, !.url = url]
    OBVIOUS
  <2> PICK k : k = [proc[c] EXCEPT !.out = None]
    OBVIOUS
  <2>1. url \in BOOLEAN
    BY <1>2 DEF Processes
  <2>2. id \in Nat
    BY <1>2, <1>7 DEF Processes
  <2>3. /\ r \in Processes /\ r.pc = "wait" /\ r.parent = proc[p].parent
        /\ r.req = proc[p].req /\ r.id = id /\ r.out = proc[p].out
        /\ r.wants = proc[p].wants /\ r.url = url /\ r.child = proc[p].child
        /\ r.leaked = proc[p].leaked
    <3> PICK a : a = [proc[p] EXCEPT !.pc = "wait"]
      OBVIOUS
    <3> PICK b : b = [a EXCEPT !.id = id]
      OBVIOUS
    <3>a. a \in Processes
      BY <1>2 DEF Processes, Serves
    <3>b. b \in Processes
      BY <2>2, <3>a DEF Processes
    <3>c. r = [b EXCEPT !.url = url]
      OBVIOUS
    <3>d. [b EXCEPT !.url = url] \in Processes
      BY <2>1, <3>b, UrlTyped
    <3>1. r \in Processes
      BY <3>c, <3>d
    <3>2. /\ r.pc = "wait" /\ r.id = id /\ r.url = url
          /\ r.parent = proc[p].parent /\ r.req = proc[p].req
      BY <1>2 DEF Processes
    <3>3. /\ r.out = proc[p].out /\ r.wants = proc[p].wants
          /\ r.child = proc[p].child /\ r.leaked = proc[p].leaked
      BY <1>2 DEF Processes
    <3>4. QED
      BY <3>1, <3>2, <3>3
  <2>4. k \in Processes /\ k.pc = "zombie" /\ k.parent = p
    BY <1>2 DEF Processes
  <2>5. id # 0 \/ proc[p].wants # "id"
    <3>1. proc[p].wants = "id" => proc[c].out \in DOMAIN blobs
      BY <1>1, <1>7, <1>2 DEF ReadsFrom
    <3>2. 0 \notin DOMAIN blobs
      BY LenProperties DEF HostInv, HostTypeOK
    <3>3. QED
      BY <3>1, <3>2
  <2>6. proc' = [proc EXCEPT ![p] = r, ![c] = k]
    <3>1. CASE proc[p].wants = "id"
      <4>1. [proc[p] EXCEPT !.pc = "wait", !.id = id]
              = [proc[p] EXCEPT !.pc = "wait", !.id = id, !.url = proc[p].url]
        BY <1>2 DEF Processes
      <4>2. proc' = [proc EXCEPT ![p] = [proc[p] EXCEPT !.pc = "wait", !.id = id],
                                 ![c] = [proc[c] EXCEPT !.out = None]]
        BY <1>2, <1>4, <1>7, <2>5, <3>1 DEF Read, ReadId
      <4>3. QED
        BY <3>1, <4>1, <4>2
    <3>2. CASE proc[p].wants # "id"
      <4>1. [proc[p] EXCEPT !.pc = "wait", !.url = url]
              = [proc[p] EXCEPT !.pc = "wait", !.id = proc[p].id, !.url = url]
        BY <1>2 DEF Processes
      <4>2. proc' = [proc EXCEPT ![p] = [proc[p] EXCEPT !.pc = "wait", !.url = url],
                                 ![c] = [proc[c] EXCEPT !.out = None]]
        BY <1>2, <1>4, <3>2 DEF Read, ReadUrl
      <4>3. QED
        BY <3>2, <4>1, <4>2
    <3>3. QED
      BY <3>1, <3>2
  <2>7. proc'[p] = r /\ proc'[c] = k /\ OthersStay({p, c})
    BY <1>2, <1>4, <2>6 DEF OthersStay
  <2>8. GoesOnAt(p, "wait")
    BY <1>2, <2>3, <2>7, NoneIsNoProcess DEF GoesOnAt
  <2>9. Reads(p, c)
    BY SMTT(30), <1>2, <1>3, <1>7, <2>3, <2>4, <2>5, <2>7, <2>8, NoneIsNoProcess
       DEF Reads
  <2>10. QED
    BY <1>2, <2>9
<1>8. QED
  BY <1>6, <1>7

LEMMA WaitDoes ==
  ASSUME HostInv, NEW p \in Pids, WaitId(p) \/ WaitUrl(p)
  PROVE  \E c \in Pids : Waits(p, c)
<1>b. PICK pc \in {"unlink", "insert"} :
        /\ WaitGoes(p, pc)
        /\ pc = "unlink" => proc[p].wants = "id"
        /\ pc = "insert" => proc[p].wants = "url" /\ proc[p].url
  BY DEF WaitId, WaitUrl
<1>1. PICK c \in Reaped(p) :
        proc' = [proc EXCEPT ![c] = None, ![p].pc = pc, ![p].child = 0]
  BY <1>b DEF WaitGoes
<1>2. /\ p \in Programs /\ proc[p] \in Processes /\ proc[p].pc = "wait"
      /\ c \in Pids /\ p # c
  BY <1>b, <1>1, ProcTyped DEF WaitGoes, At, Programs, Serves, Reaped, Alive, HostInv
<1>3. UNCHANGED <<dir, sent, rows, answers>> /\ NoFault
  BY <1>b DEF WaitGoes, NoFault
<1>4. proc \in [Pids -> Processes \cup {None}]
  BY DEF HostInv, HostTypeOK
<1>a. PICK r : r = [proc[p] EXCEPT !.pc = pc, !.child = 0]
  OBVIOUS
<1>5. /\ r \in Processes /\ r.pc = pc /\ r.parent = proc[p].parent
      /\ r.req = proc[p].req /\ r.id = proc[p].id /\ r.out = proc[p].out
      /\ r.wants = proc[p].wants /\ r.url = proc[p].url
      /\ r.leaked = proc[p].leaked
  BY <1>2, <1>a, <1>b DEF Processes, Serves
<1>6. proc' = [proc EXCEPT ![p] = r, ![c] = None]
  BY <1>1, <1>2, <1>4, <1>a
<1>7. proc'[p] = r /\ proc'[c] = None /\ OthersStay({p, c})
  BY <1>2, <1>4, <1>6 DEF OthersStay
<1>8. pc = IF proc[p].wants = "id" THEN "unlink" ELSE "insert"
  BY <1>b
<1>9. GoesOnAt(p, IF proc[p].wants = "id" THEN "unlink" ELSE "insert")
  BY <1>2, <1>5, <1>7, <1>8, NoneIsNoProcess DEF GoesOnAt
<1>10. SameUpload(p, p) /\ proc'[p].leaked = proc[p].leaked
  BY <1>5, <1>7 DEF SameUpload
<1>11. proc[p].wants = "url" => proc[p].url
  BY <1>b
<1>12. Waits(p, c)
  BY <1>2, <1>3, <1>7, <1>9, <1>10, <1>11 DEF Waits
<1>13. QED
  BY <1>2, <1>12

LEMMA ToolDoes ==
  ASSUME HostInv, NEW c \in Pids, Tool(c)
  PROVE  \E k \in Processes \cup {None} : ToolEnds(c, k)
<1> PICK k : k = proc'[c]
  OBVIOUS
<1>1. /\ c \in Alive /\ At(c, "tool") /\ proc[c].pc = "tool"
      /\ proc[c] \in Processes /\ HandsOf(c)
  BY ProcTyped DEF Tool, At, HandsInv, HostInv
<1>2. UNCHANGED <<dir, sent, rows, answers>> /\ NoFault
  BY DEF Tool, NoFault
<1> PICK n : n = Len(blobs) + 1
  OBVIOUS
<1>3. n \in Nat
  BY LenProperties, NatAdds DEF HostInv, HostTypeOK
<1>4. CASE proc[c].wants = "id" /\ dir[NameOf(c)] # None
  <2>1. ExitsWith(c, n)
    BY <1>4 DEF Tool
  <2>2. Parts(c, k) /\ (k # None => k.out = n)
    BY <1>1, <1>3, <2>1, ExitParts
  <2>3. k \in Processes \cup {None}
    BY <2>2 DEF Parts
  <2>4. n # None
    BY <1>3, NoneIsNoContent
  <2>5. ToolEnds(c, k)
    BY <1>1, <1>2, <1>4, <2>2, <2>4 DEF ToolEnds
  <2>6. QED
    BY <2>3, <2>5
<1>5. CASE ~(proc[c].wants = "id" /\ dir[NameOf(c)] # None)
  <2> PICK out : out = IF proc[c].id = 0 THEN None ELSE proc[c].id
    OBVIOUS
  <2>1. out \in Nat \cup {None} /\ ExitsWith(c, out)
    BY <1>1, <1>5 DEF Tool, Processes
  <2>2. Parts(c, k) /\ (k # None => k.out = out)
    BY <1>1, <2>1, ExitParts
  <2>3. k \in Processes \cup {None}
    BY <2>2 DEF Parts
  <2>4. out # None <=> proc[c].id # 0
    BY <1>1, NoneIsNoContent DEF Processes
  <2>5. ToolEnds(c, k)
    BY <1>1, <1>2, <1>5, <2>2, <2>4 DEF ToolEnds
  <2>6. QED
    BY <2>3, <2>5
<1>6. QED
  BY <1>4, <1>5

LEMMA EndDoes ==
  ASSUME HostInv, NEW c \in Pids, ToolFails(c) \/ Crash(c)
  PROVE  \E k \in Processes \cup {None} : ToolEndsBadly(c, k) \/ Crashes(c, k)
<1> PICK k : k = proc'[c]
  OBVIOUS
<1>1. CASE ToolFails(c)
  <2>1. c \in Alive /\ At(c, "tool") /\ proc[c].pc = "tool"
    BY <1>1 DEF ToolFails, At
  <2>2. Parts(c, k) /\ (k # None => k.out = None)
    BY <1>1, <2>1, ExitParts DEF ToolFails
  <2>3. k \in Processes \cup {None}
    BY <2>2 DEF Parts
  <2>4. QED
    BY <1>1, <2>1, <2>2, <2>3 DEF ToolFails, ToolEndsBadly
<1>2. CASE Crash(c)
  <2>1. /\ c \in Alive /\ proc[c].pc = "wait" /\ proc' = Ended({c})
        /\ c \in Programs
    BY <1>2 DEF Crash, At, Programs, Serves
  <2>2. Parts(c, k) /\ (k # None => k.out = None)
    BY <2>1, EndedOne DEF Parts
  <2>3. k \in Processes \cup {None}
    BY <2>2 DEF Parts
  <2>4. UNCHANGED <<dir, sent, rows, answers>> /\ NoFault
    BY <1>2 DEF Crash, NoFault
  <2>5. proc[c].wants = "url" /\ ~proc[c].url
    BY <1>2 DEF Crash
  <2>6. Crashes(c, k)
    BY <2>1, <2>2, <2>4, <2>5 DEF Crashes
  <2>7. QED
    BY <2>3, <2>6
<1>3. QED
  BY <1>1, <1>2

LEMMA RestartDoes ==
  ASSUME HostInv, Killed \/ Restarted
  PROVE  \E n \in Pids : StartsAnew(n)
<1>1. Restarts /\ (Programs # {} \/ Free # {})
  BY DEF Killed, Restarted
<1>2. PICK n \in Pids :
        /\ proc' \in [Pids -> Processes \cup {None}]
        /\ proc'[n] = Fresh
        /\ \A q \in Pids \ {n} : proc'[q] # None =>
              /\ q \in Alive \ Programs
              /\ proc'[q].parent = 0          /\ proc'[q].pc = proc[q].pc
              /\ proc'[q].req = proc[q].req   /\ proc'[q].id = proc[q].id
              /\ proc'[q].wants = proc[q].wants
  BY <1>1, RestartsProc
<1>3. UNCHANGED <<dir, sent, rows, answers, execFails>>
  BY DEF Killed, Restarted
<1>4. \/ faults' = faults + 1
      \/ faults' = faults /\ Programs = {}
  BY DEF Killed, Restarted
<1>5. StartsAnew(n)
  BY <1>2, <1>3, <1>4 DEF StartsAnew
<1>6. QED
  BY <1>5

(* Every step is one of those. *)
LEMMA HostDoes ==
  ASSUME HostInv, [HostNext]_hostVars
  PROVE  HostMoves
<1>1. ASSUME NEW p \in Pids, NEW n \in Names, NEW c \in Contents,
             Accept(p, n, c)
      PROVE  HostMoves
  BY <1>1, AcceptDoes DEF HostMoves, OneProgram
<1>2. ASSUME NEW p \in Pids, Step(p) PROVE HostMoves
  <2>1. CASE Save(p) \/ Exec(p)
    BY <2>1, CopyDoes DEF HostMoves, OneProgram
  <2>2. CASE Unlink(p) \/ Insert(p) \/ Reply(p)
    BY <2>2, EndOfMainDoes DEF HostMoves, OneProgram
  <2>3. CASE Fork(p)
    BY <2>3, ForkDoes DEF HostMoves
  <2>4. CASE Read(p)
    BY <2>4, ReadDoes DEF HostMoves
  <2>5. CASE WaitId(p) \/ WaitUrl(p)
    BY <2>5, WaitDoes DEF HostMoves
  <2>6. CASE Tool(p)
    BY <2>6, ToolDoes DEF HostMoves
  <2>7. CASE Crash(p)
    BY <2>7, EndDoes DEF HostMoves
  <2>8. QED
    BY <1>2, <2>1, <2>2, <2>3, <2>4, <2>5, <2>6, <2>7 DEF Step
<1>3. ASSUME NEW p \in Pids, ExecFails(p) \/ SaveSpoils(p)
      PROVE  HostMoves
  BY <1>3, CopyDoes DEF HostMoves, OneProgram
<1>4. ASSUME NEW p \in Pids, CallFails(p) \/ ForkFails(p)
      PROVE  HostMoves
  BY <1>4, GivingUpDoes DEF HostMoves, OneProgram
<1>5. ASSUME NEW p \in Pids, ToolFails(p) PROVE HostMoves
  BY <1>5, EndDoes DEF HostMoves
<1>6. CASE Killed \/ Restarted
  BY <1>6, RestartDoes DEF HostMoves
<1>7. CASE Done \/ UNCHANGED hostVars
  BY <1>7 DEF Done, HostMoves
<1>8. QED
  BY <1>1, <1>2, <1>3, <1>4, <1>5, <1>6, <1>7 DEF HostNext

(* A program that goes on at any place but "read" or "exec" *)
LEMMA OneProgramIs ==
  ASSUME HostInv, NEW p \in Pids, OneProgram(p)
  PROVE  /\ p \in Programs /\ p \in Alive /\ proc[p] \in Processes
         /\ proc[p].pc # "read" /\ proc[p].pc \in Serves /\ OthersStay({p})
         /\ proc'[p] \in Processes /\ proc'[p] # None
         /\ proc'[p].pc \in (Serves \ {"read", "exec"}) \cup {"tool"}
         /\ proc'[p].parent = proc[p].parent /\ proc'[p].out = proc[p].out
         /\ Alive' = Alive
<1>1. \E pc \in (Serves \ {"read", "exec"}) \cup {"tool"} : GoesOnAt(p, pc)
  <2>1. CASE Accepts(p) \/ Saves(p) \/ Unlinks(p)
    BY <2>1 DEF Accepts, Saves, Unlinks, Serves
  <2>2. CASE Execs(p) \/ Inserts(p) \/ GivesUp(p) \/ Answers(p)
    BY <2>2 DEF Execs, Inserts, GivesUp, Answers, Serves
  <2>3. CASE GoesOnAsCopy(p)
    BY <2>3 DEF GoesOnAsCopy, Serves
  <2>4. QED
    BY <2>1, <2>2, <2>3 DEF OneProgram
<1>2. OthersStay({p}) /\ proc[p].pc # "read"
  BY DEF OneProgram, Accepts, Saves, Execs, GoesOnAsCopy, Unlinks, Inserts,
         GivesUp, Answers
<1>3. p \in Alive /\ proc[p].pc \in Serves
  BY <1>1 DEF GoesOnAt, Programs
<1>4. Alive' = Alive
  BY <1>1, <1>2, <1>3 DEF GoesOnAt, OthersStay, Alive
<1>5. QED
  BY <1>1, <1>2, <1>3, <1>4 DEF GoesOnAt

LEMMA OneProgramPrograms ==
  ASSUME HostInv, NEW p \in Pids, OneProgram(p)
  PROVE  /\ Programs' \subseteq Programs
         /\ proc'[p].pc # "tool" => Programs' = Programs
         /\ \A q \in Programs \ {p} : q \in Programs' /\ proc'[q] = proc[q]
<1>1. /\ p \in Programs /\ OthersStay({p}) /\ Alive' = Alive
      /\ proc'[p].pc \in (Serves \ {"read", "exec"}) \cup {"tool"}
  BY OneProgramIs
<1>2. \A q \in Alive \ {p} : proc'[q] = proc[q]
  BY <1>1 DEF OthersStay, Alive
<1>3. QED
  BY <1>1, <1>2 DEF Programs

-----------------------------------------------------------------------------
(* Copies *)

(* A program whose child goes on as a copy of it *)
HasCopy(p) ==
  /\ At(p, "read")
  /\ proc[p].child \in Programs /\ proc[proc[p].child].pc # "exec"

(* A program whose child ended and wrote nothing *)
NoOutput(p) ==
  /\ At(p, "read")
  /\ At(proc[p].child, "zombie") /\ proc[proc[p].child].out = None

NoNewCopy == \A q \in Pids : HasCopy(q)' => HasCopy(q) /\ proc'[q] = proc[q]

LEMMA OneProgramCopies ==
  ASSUME HostInv, NEW p \in Pids, OneProgram(p), NEW q \in Pids, HasCopy(q)'
  PROVE  /\ proc'[q] = proc[q] /\ q # p /\ At(q, "read")
         /\ HasCopy(q) \/ (GoesOnAsCopy(p) /\ proc[q].child = p)
<1>1. /\ p \in Programs /\ OthersStay({p}) /\ Alive' = Alive
      /\ proc'[p].pc \in (Serves \ {"read", "exec"}) \cup {"tool"}
  BY OneProgramIs
<1>2. q # p /\ proc'[q] = proc[q] /\ At(q, "read")
  BY <1>1 DEF HasCopy, At, OthersStay, Serves
<1>3. proc[q].child \in Programs
  BY <1>2, OneProgramPrograms DEF HasCopy
<1>4. CASE proc[q].child # p
  <2>1. proc[q].child \in Pids
    BY <1>3 DEF Programs, Alive
  <2>2. proc'[proc[q].child] = proc[proc[q].child]
    BY <1>1, <1>4, <2>1 DEF OthersStay
  <2>3. QED
    BY <1>2, <1>3, <2>2 DEF HasCopy
<1>5. CASE proc[q].child = p
  <2>1. proc'[p].pc # "tool"
    BY <1>2, <1>5 DEF HasCopy, Programs, Serves
  <2>2. proc[p].pc = "exec" => GoesOnAsCopy(p)
    BY <2>1 DEF OneProgram, Accepts, Saves, Execs, Unlinks, Inserts, GivesUp,
                Answers, GoesOnAt
  <2>3. QED
    BY <1>2, <1>3, <1>5, <2>2 DEF HasCopy
<1>6. QED
  BY <1>2, <1>4, <1>5

LEMMA ForksCopies ==
  ASSUME HostInv, NEW p \in Pids, NEW c \in Pids, Forks(p, c)
  PROVE  NoNewCopy
<1> SUFFICES ASSUME NEW q \in Pids, HasCopy(q)'
             PROVE  HasCopy(q) /\ proc'[q] = proc[q]
  BY DEF NoNewCopy
<1>1. /\ OthersStay({p, c}) /\ c \notin Alive /\ proc'[p].child = c
      /\ proc'[c].pc = "exec" /\ proc'[p].pc = "read"
      /\ p \in Programs /\ proc[p].pc = "fork"
  BY DEF Forks, GoesOnAt, Free
<1>2. q # p /\ q # c
  BY <1>1 DEF HasCopy, At
<1>3. proc'[q] = proc[q] /\ At(q, "read")
  BY <1>1, <1>2 DEF HasCopy, At, OthersStay, Alive
<1>4. PICK d : d = proc[q].child
  OBVIOUS
<1>5. d \in Alive /\ d \in Pids /\ d # c
  BY <1>1, <1>3, <1>4, ChildIs
<1>6. d \in Programs' /\ proc'[d].pc # "exec"
  BY <1>3, <1>4 DEF HasCopy
<1>7. d \in Programs /\ proc[d].pc # "exec"
  <2>1. CASE d = p
    BY <1>1, <2>1
  <2>2. CASE d # p
    BY <1>1, <1>5, <1>6, <2>2 DEF OthersStay, Programs
  <2>3. QED
    BY <2>1, <2>2
<1>8. QED
  BY <1>3, <1>4, <1>7 DEF HasCopy

(* p moves on past "read" or "wait" while its child is a zombie or gone.   *)
LEMMA ReadsCopies ==
  ASSUME HostInv, NEW p \in Pids, NEW c \in Pids, Reads(p, c) \/ Waits(p, c)
  PROVE  NoNewCopy
<1> SUFFICES ASSUME NEW q \in Pids, HasCopy(q)'
             PROVE  HasCopy(q) /\ proc'[q] = proc[q]
  BY DEF NoNewCopy
<1>1. /\ OthersStay({p, c}) /\ p \in Programs /\ proc'[p].pc # "read"
      /\ proc[p].pc # "exec"
      /\ proc'[c] = None \/ proc'[c].pc = "zombie"
  BY DEF Reads, Waits, GoesOnAt
<1>2. q # p /\ q # c
  BY <1>1 DEF HasCopy, At, Alive
<1>3. proc'[q] = proc[q] /\ At(q, "read")
  BY <1>1, <1>2 DEF HasCopy, At, OthersStay, Alive
<1>4. PICK d : d = proc[q].child
  OBVIOUS
<1>5. d \in Alive /\ d \in Pids
  BY <1>3, <1>4, ChildIs
<1>6. d \in Programs' /\ proc'[d].pc # "exec"
  BY <1>3, <1>4 DEF HasCopy
<1>7. d # c
  BY <1>1, <1>6 DEF Programs, Alive, Serves
<1>8. d \in Programs /\ proc[d].pc # "exec"
  <2>1. CASE d = p
    BY <1>1, <2>1
  <2>2. CASE d # p
    BY <1>1, <1>5, <1>6, <1>7, <2>2 DEF OthersStay, Programs
  <2>3. QED
    BY <2>1, <2>2
<1>9. QED
  BY <1>3, <1>4, <1>8 DEF HasCopy

LEMMA PartsCopies ==
  ASSUME HostInv, NEW c \in Pids, NEW k, c \in Alive, Parts(c, k)
  PROVE  /\ NoNewCopy
         /\ \A q \in Pids : q \in Programs' =>
              q # c /\ q \in Programs /\ proc'[q] = proc[q]
<1>1. \A q \in Pids : q \in Programs' =>
        q # c /\ q \in Programs /\ proc'[q] = proc[q]
  BY DEF Parts, Programs, Alive, Serves
<1>2. \A q \in Pids : HasCopy(q)' => HasCopy(q) /\ proc'[q] = proc[q]
  <2> SUFFICES ASSUME NEW q \in Pids, HasCopy(q)'
               PROVE  HasCopy(q) /\ proc'[q] = proc[q]
    OBVIOUS
  <2>1. q \in Programs' /\ proc'[q].child \in Programs'
    BY DEF HasCopy, At, Programs, Serves
  <2>2. proc'[q] = proc[q] /\ q \in Programs
    BY <1>1, <2>1
  <2>3. PICK d : d = proc[q].child
    OBVIOUS
  <2>4. d \in Pids /\ d \in Programs'
    BY <2>1, <2>2, <2>3 DEF Programs, Alive
  <2>5. d \in Programs /\ proc'[d] = proc[d]
    BY <1>1, <2>4
  <2>6. QED
    BY <2>2, <2>3, <2>5 DEF HasCopy, At, Programs
<1>3. QED
  BY <1>1, <1>2 DEF NoNewCopy

LEMMA AnewCopies ==
  ASSUME HostInv, NEW n \in Pids, StartsAnew(n)
  PROVE  /\ \A q \in Pids : q \in Programs' => q = n
         /\ \A q \in Pids : ~At(q, "read")'
<1>1. \A q \in Pids : q \in Programs' => q = n
  BY DEF StartsAnew, Programs, Alive
<1>2. \A q \in Pids : At(q, "read")' => q = n
  BY <1>1 DEF At, Programs, Serves
<1>3. QED
  BY <1>1, <1>2, FreshIs DEF StartsAnew, At

(* What a program knows of the url: it has one only with the id, and a     *)
(* tool prints one only for an id; a copy has a parent, and inserts only   *)
(* after it asked for the url.                                             *)
UrlOf(p) ==
  /\ proc[p].url => proc[p].wants = "url" /\ proc[p].id # 0
  /\ proc[p].pc = "wait" /\ proc[p].wants = "id" => proc[p].id # 0
  /\ proc[p].pc = "insert" => proc[p].wants = "url"
  /\ proc[p].pc = "exec" => proc[p].parent # 0

PrintsUrl(p) ==
  At(p, "read") /\ proc[p].wants = "url" /\ At(proc[p].child, "zombie")
    /\ proc[proc[p].child].out # None => proc[p].id # 0

UrlInv == \A p \in Programs : UrlOf(p) /\ PrintsUrl(p)

LEMMA UrlOfOneProgram ==
  ASSUME HostInv, UrlInv, NEW p \in Pids, OneProgram(p), p \in Programs'
  PROVE  UrlOf(p)'
<1>1. p \in Programs /\ proc[p] \in Processes /\ proc'[p] \in Processes
      /\ proc'[p].parent = proc[p].parent
  BY OneProgramIs
<1>2. UrlOf(p) /\ HandsOf(p)
  BY <1>1 DEF UrlInv, HostInv, HandsInv, Programs, Serves
<1>3. proc[p].wants \in {"id", "url"} /\ proc[p].url \in BOOLEAN
  BY <1>1 DEF Processes
<1>4. CASE Accepts(p)
  BY <1>2, <1>4 DEF Accepts, GoesOnAt, UrlOf
<1>5. CASE Saves(p) \/ GivesUp(p)
  BY <1>2, <1>5 DEF Saves, GivesUp, GoesOnAt, SameUpload, UrlOf
<1>6. CASE Execs(p)
  BY <1>6 DEF Execs, GoesOnAt, Programs, Serves
<1>7. CASE GoesOnAsCopy(p)
  <2>1. proc'[p].pc # "wait" /\ proc'[p].pc # "exec" /\ SameUpload(p, p)
        /\ (proc'[p].pc = "insert" => proc[p].wants # "id")
    BY <1>7 DEF GoesOnAsCopy, GoesOnAt
  <2>2. QED
    BY <1>2, <1>3, <2>1 DEF SameUpload, UrlOf
<1>8. CASE Unlinks(p)
  BY <1>2, <1>8 DEF Unlinks, GoesOnAt, UrlOf
<1>9. CASE Inserts(p)
  BY <1>2, <1>9 DEF Inserts, GoesOnAt, SameUpload, UrlOf
<1>10. CASE Answers(p)
  BY <1>10 DEF Answers, GoesOnAt, UrlOf
<1>11. QED
  BY <1>4, <1>5, <1>6, <1>7, <1>8, <1>9, <1>10 DEF OneProgram

(* A step that leaves q alone, and gives its child no output. *)
LEMMA PrintsUrlStays ==
  ASSUME NEW q \in Pids, proc'[q] = proc[q], PrintsUrl(q),
         At(q, "read") /\ proc[q].wants = "url"
           /\ At(proc[q].child, "zombie")' /\ proc'[proc[q].child].out # None
           => \/ proc[q].id # 0
              \/ /\ At(proc[q].child, "zombie")
                 /\ proc[proc[q].child].out # None
  PROVE  PrintsUrl(q)'
BY DEF PrintsUrl, At, Alive

LEMMA UrlOneProgram ==
  ASSUME HostInv, UrlInv, NEW p \in Pids, OneProgram(p)
  PROVE  UrlInv'
<1> SUFFICES ASSUME NEW q \in Programs' PROVE UrlOf(q)' /\ PrintsUrl(q)'
  BY DEF UrlInv
<1>1. /\ OthersStay({p}) /\ Alive' = Alive
      /\ proc'[p].pc \in (Serves \ {"read", "exec"}) \cup {"tool"}
  BY OneProgramIs
<1>2. CASE q = p
  <2>1. ~At(q, "read")'
    BY <1>1, <1>2 DEF At, Serves
  <2>2. QED
    BY <1>2, <2>1, UrlOfOneProgram DEF PrintsUrl
<1>3. CASE q # p
  <2>1. q \in Pids /\ q \in Programs /\ proc'[q] = proc[q]
    BY <1>1, <1>3, OneProgramPrograms DEF Programs, Alive, OthersStay
  <2>2. UrlOf(q) /\ PrintsUrl(q)
    BY <2>1 DEF UrlInv
  <2>3. PICK d : d = proc[q].child
    OBVIOUS
  <2>4. At(d, "zombie")' => d # p /\ At(d, "zombie") /\ proc'[d] = proc[d]
    BY <1>1 DEF At, OthersStay, Alive, Serves
  <2>5. PrintsUrl(q)'
    BY <2>1, <2>2, <2>3, <2>4, PrintsUrlStays
  <2>6. QED
    BY <2>1, <2>2, <2>5 DEF UrlOf
<1>4. QED
  BY <1>2, <1>3

LEMMA UrlForks ==
  ASSUME HostInv, UrlInv, NEW p \in Pids, NEW c \in Pids, Forks(p, c)
  PROVE  UrlInv'
<1> SUFFICES ASSUME NEW q \in Programs' PROVE UrlOf(q)' /\ PrintsUrl(q)'
  BY DEF UrlInv
<1>1. /\ OthersStay({p, c}) /\ c \notin Alive /\ proc'[p].child = c
      /\ proc'[c].pc = "exec" /\ proc'[p].pc = "read" /\ proc'[c].parent = p
      /\ p \in Programs /\ proc[p].pc = "fork" /\ p # 0
      /\ SameUpload(p, p) /\ SameUpload(c, p)
  BY DEF Forks, GoesOnAt, Free, Pids
<1>2. UrlOf(p)
  BY <1>1 DEF UrlInv
<1>3. CASE q = p \/ q = c
  <2>1. UrlOf(q)'
    BY <1>1, <1>2, <1>3 DEF UrlOf, SameUpload
  <2>2. PrintsUrl(q)'
    BY <1>1, <1>3 DEF PrintsUrl, At
  <2>3. QED
    BY <2>1, <2>2
<1>4. CASE q # p /\ q # c
  <2>1. q \in Pids /\ q \in Programs /\ proc'[q] = proc[q]
    BY <1>1, <1>4 DEF Programs, Alive, OthersStay
  <2>2. UrlOf(q) /\ PrintsUrl(q)
    BY <2>1 DEF UrlInv
  <2>3. PICK d : d = proc[q].child
    OBVIOUS
  <2>4. At(d, "zombie")' => At(d, "zombie") /\ proc'[d] = proc[d]
    BY <1>1 DEF At, OthersStay, Alive
  <2>5. PrintsUrl(q)'
    BY <2>1, <2>2, <2>3, <2>4, PrintsUrlStays
  <2>6. QED
    BY <2>1, <2>2, <2>5 DEF UrlOf
<1>5. QED
  BY <1>3, <1>4

LEMMA UrlReads ==
  ASSUME HostInv, UrlInv, NEW p \in Pids, NEW c \in Pids,
         Reads(p, c) \/ Waits(p, c)
  PROVE  UrlInv'
<1> SUFFICES ASSUME NEW q \in Programs' PROVE UrlOf(q)' /\ PrintsUrl(q)'
  BY DEF UrlInv
<1>1. /\ OthersStay({p, c}) /\ p \in Programs /\ proc'[p].pc # "read"
      /\ proc[c].parent = p /\ proc[p] \in Processes
      /\ proc'[p].pc # "zombie"
      /\ proc'[c] = None \/ proc'[c].pc = "zombie"
  BY DEF Reads, Waits, GoesOnAt, Reaped
<1>2. UrlOf(p) /\ PrintsUrl(p)
  BY <1>1 DEF UrlInv
<1>3. proc[p].wants \in {"id", "url"} /\ proc[p].url \in BOOLEAN
  BY <1>1 DEF Processes
<1>4. CASE q = p
  <2>1. ~At(q, "read")'
    BY <1>1, <1>4 DEF At
  <2>2. CASE Waits(p, c)
    <3>1. /\ proc'[p].pc # "wait" /\ proc'[p].pc # "exec" /\ SameUpload(p, p)
          /\ (proc'[p].pc = "insert" => proc[p].wants # "id")
      BY <2>2 DEF Waits, GoesOnAt
    <3>2. QED
      BY <1>2, <1>3, <1>4, <2>1, <3>1 DEF SameUpload, UrlOf, PrintsUrl
  <2>3. CASE Reads(p, c)
    <3>1. At(p, "read") /\ At(c, "zombie") /\ c = proc[p].child
      <4>1. At(p, "read") /\ c = proc[p].child /\ proc[c].pc = "zombie"
        BY <1>1, <2>3 DEF Reads, At, Programs
      <4>2. QED
        BY <4>1, ChildIs DEF At
    <3>2. CASE proc[p].wants = "id" /\ proc[c].out = None
      BY <1>2, <1>3, <1>4, <2>1, <2>3, <3>2 DEF Reads, GoesOnAt, UrlOf,
         PrintsUrl
    <3>3. CASE proc[p].wants = "id" /\ proc[c].out # None
      BY <1>2, <1>3, <1>4, <2>1, <2>3, <3>3 DEF Reads, GoesOnAt, UrlOf,
         PrintsUrl
    <3>4. CASE proc[p].wants = "url"
      <4>1. proc[c].out # None => proc[p].id # 0
        BY <1>2, <3>1, <3>4 DEF PrintsUrl
      <4>2. /\ proc'[p].pc = "wait" /\ proc'[p].wants = "url"
            /\ proc'[p].id = proc[p].id
            /\ proc'[p].url = (proc[c].out # None)
        BY <2>3, <3>4 DEF Reads, GoesOnAt
      <4>3. QED
        BY <1>4, <2>1, <4>1, <4>2 DEF UrlOf, PrintsUrl
    <3>5. QED
      BY <1>3, <3>2, <3>3, <3>4
  <2>4. QED
    BY <2>2, <2>3
<1>5. CASE q # p
  <2>1. q # c
    BY <1>1 DEF Programs, Alive, Serves
  <2>2. q \in Pids /\ q \in Programs /\ proc'[q] = proc[q]
    BY <1>1, <1>5, <2>1 DEF Programs, Alive, OthersStay
  <2>3. UrlOf(q) /\ PrintsUrl(q)
    BY <2>2 DEF UrlInv
  <2>4. PICK d : d = proc[q].child
    OBVIOUS
  <2>5. At(q, "read") => d # c
    BY <1>1, <1>5, <2>2, <2>4, ChildIs
  <2>6. At(d, "zombie")' /\ d # c => At(d, "zombie") /\ proc'[d] = proc[d]
    BY <1>1 DEF At, OthersStay, Alive
  <2>7. PrintsUrl(q)'
    BY <2>2, <2>3, <2>4, <2>5, <2>6, PrintsUrlStays
  <2>8. QED
    BY <2>2, <2>3, <2>7 DEF UrlOf
<1>6. QED
  BY <1>4, <1>5

LEMMA UrlEnds ==
  ASSUME HostInv, UrlInv, NEW c \in Pids, NEW k, c \in Alive,
         ToolEnds(c, k) \/ ToolEndsBadly(c, k) \/ Crashes(c, k)
  PROVE  UrlInv'
<1> SUFFICES ASSUME NEW q \in Programs' PROVE UrlOf(q)' /\ PrintsUrl(q)'
  BY DEF UrlInv
<1>1. Parts(c, k)
  BY DEF ToolEnds, ToolEndsBadly, Crashes
<1>2. q \in Pids /\ q \in Programs /\ proc'[q] = proc[q]
  BY <1>1, PartsCopies DEF Programs, Alive
<1>3. UrlOf(q) /\ PrintsUrl(q)
  BY <1>2 DEF UrlInv
<1>4. PICK d : d = proc[q].child
  OBVIOUS
<1>5. At(d, "zombie")' /\ d # c => At(d, "zombie") /\ proc'[d] = proc[d]
  BY <1>1 DEF At, Alive, Parts
<1>6. ASSUME d = c, At(q, "read"), proc[q].wants = "url", proc'[c] # None,
             proc'[c].out # None
      PROVE  proc[q].id # 0
  <2>1. k # None /\ k.out # None
    BY <1>1, <1>6 DEF Parts
  <2>2. ToolEnds(c, k)
    BY <2>1 DEF ToolEndsBadly, Crashes
  <2>3. Forked(c) /\ ReadsFrom(q, c)
    BY <1>2, <1>4, <1>6, <2>2, ChildIs DEF ToolEnds, Forked, At
  <2>4. QED
    BY <1>6, <2>1, <2>2, <2>3 DEF ReadsFrom, ToolEnds
<1>7. PrintsUrl(q)'
  BY <1>2, <1>3, <1>4, <1>5, <1>6, PrintsUrlStays DEF At, Alive
<1>8. QED
  BY <1>2, <1>3, <1>7 DEF UrlOf

LEMMA UrlAnew ==
  ASSUME HostInv, UrlInv, NEW n \in Pids, StartsAnew(n)
  PROVE  UrlInv'
<1>1. \A q \in Programs' : q = n /\ ~At(q, "read")'
  BY AnewCopies DEF Programs, Alive
<1>2. proc'[n] = Fresh /\ Fresh.pc = "accept" /\ Fresh.url = FALSE
  BY DEF StartsAnew, Fresh
<1>3. QED
  BY <1>1, <1>2 DEF UrlInv, UrlOf, PrintsUrl

LEMMA UrlKeeps ==
  ASSUME HostInv, UrlInv, [HostNext]_hostVars
  PROVE  UrlInv'
<1>1. HostMoves
  BY HostDoes
<1>2. ASSUME NEW p \in Pids, OneProgram(p) PROVE UrlInv'
  BY <1>2, UrlOneProgram
<1>3. ASSUME NEW p \in Pids, NEW c \in Pids,
             Forks(p, c) \/ Reads(p, c) \/ Waits(p, c)
      PROVE  UrlInv'
  BY <1>3, UrlForks, UrlReads
<1>4. ASSUME NEW c \in Pids, NEW k \in Processes \cup {None},
             ToolEnds(c, k) \/ ToolEndsBadly(c, k) \/ Crashes(c, k)
      PROVE  UrlInv'
  <2>1. c \in Alive
    BY <1>4 DEF ToolEnds, ToolEndsBadly, Crashes, Programs
  <2>2. QED
    BY <1>4, <2>1, UrlEnds
<1>5. ASSUME NEW n \in Pids, StartsAnew(n) PROVE UrlInv'
  BY <1>5, UrlAnew
<1>6. CASE UNCHANGED hostVars
  BY <1>6 DEF hostVars, UrlInv, UrlOf, PrintsUrl, Programs, Alive, At
<1>7. QED
  BY <1>1, <1>2, <1>3, <1>4, <1>5, <1>6 DEF HostMoves

(* A copy goes on with upload r where its parent wants that tool's output. *)
CopyLacks(r, wants) ==
  \E p \in Pids :
    GoesOnAsCopy(p) /\ proc[p].wants = wants /\ proc[p].req = r

NoUrlIn(p) == proc[p].pc = "insert" /\ ~proc[p].url

(* An upload that has no url in its row, or will have none *)
NoUrl(r) ==
  \/ \E i \in DOMAIN rows : rows[i].req = r /\ ~rows[i].url
  \/ \E p \in Programs : proc[p].req = r /\ NoUrlIn(p)

Idless(p) ==
  /\ p \in Programs /\ proc[p].id = 0
  /\ proc[p].pc = "unlink" \/ proc[p].wants = "url"

NoIdIn(p) == Idless(p) \/ (HasCopy(p) /\ proc[p].wants = "id")

(* An upload that a program goes on with although it has no id *)
NoId(r) ==
  \/ \E i \in DOMAIN rows : rows[i].req = r /\ rows[i].id = 0
  \/ \E p \in Programs : proc[p].req = r /\ NoIdIn(p)

UrlLess == {r \in DOMAIN sent : NoUrl(r)}
IdLess  == {r \in DOMAIN sent : NoId(r)}

LackInv == Cardinality(UrlLess) + Cardinality(IdLess) <= execFails

LEMMA RowsGrow ==
  ASSUME HostInv, HostMoves
  PROVE  rows' = rows \/ \E p \in Pids : Inserts(p)
<1>1. ASSUME NEW p \in Pids, OneProgram(p), ~Inserts(p) PROVE rows' = rows
  BY <1>1 DEF OneProgram, Accepts, Saves, Execs, GoesOnAsCopy, Unlinks,
     GivesUp, Answers
<1>2. ASSUME NEW p \in Pids, NEW c \in Pids,
             Forks(p, c) \/ Reads(p, c) \/ Waits(p, c)
      PROVE  rows' = rows
  BY <1>2 DEF Forks, Reads, Waits
<1>3. ASSUME NEW c \in Pids, NEW k \in Processes \cup {None},
             ToolEnds(c, k) \/ ToolEndsBadly(c, k) \/ Crashes(c, k)
      PROVE  rows' = rows
  BY <1>3 DEF ToolEnds, ToolEndsBadly, Crashes
<1>4. ASSUME NEW n \in Pids, StartsAnew(n) PROVE rows' = rows
  BY <1>4 DEF StartsAnew
<1>5. QED
  BY <1>1, <1>2, <1>3, <1>4 DEF HostMoves, hostVars

(* A row that a step adds *)
LEMMA RowAdded ==
  ASSUME HostInv, NEW p \in Pids, Inserts(p), NEW i \in DOMAIN rows'
  PROVE  \/ i \in DOMAIN rows /\ rows'[i] = rows[i]
         \/ rows'[i] = [req |-> proc[p].req, id |-> proc[p].id,
                        url |-> proc[p].url]
<1> PICK row : row = [req |-> proc[p].req, id |-> proc[p].id,
                      url |-> proc[p].url]
  OBVIOUS
<1>1. proc[p] \in Processes
  BY DEF Inserts, GoesOnAt
<1>2. row \in [req: Nat, id: Nat, url: BOOLEAN]
  BY <1>1 DEF Processes
<1>3. rows \in Seq([req: Nat, id: Nat, url: BOOLEAN]) /\ rows' = Append(rows, row)
  BY DEF HostInv, HostTypeOK, Inserts
<1>4. /\ DOMAIN rows' = 1..(Len(rows) + 1) /\ DOMAIN rows = 1..Len(rows)
      /\ Len(rows) \in Nat
      /\ \A j \in 1..Len(rows) : rows'[j] = rows[j]
      /\ rows'[Len(rows) + 1] = row
  BY <1>2, <1>3, AppendProperties, LenProperties
<1>5. QED
  BY <1>4

LEMMA RowAppended ==
  ASSUME HostInv, NEW p \in Pids, Inserts(p)
  PROVE  /\ \A i \in DOMAIN rows : i \in DOMAIN rows' /\ rows'[i] = rows[i]
         /\ \E i \in DOMAIN rows' : rows'[i] =
              [req |-> proc[p].req, id |-> proc[p].id, url |-> proc[p].url]
<1> PICK row : row = [req |-> proc[p].req, id |-> proc[p].id,
                      url |-> proc[p].url]
  OBVIOUS
<1>1. proc[p] \in Processes
  BY DEF Inserts, GoesOnAt
<1>2. row \in [req: Nat, id: Nat, url: BOOLEAN]
  BY <1>1 DEF Processes
<1>3. rows \in Seq([req: Nat, id: Nat, url: BOOLEAN]) /\ rows' = Append(rows, row)
  BY DEF HostInv, HostTypeOK, Inserts
<1>4. PICK m : m = Len(rows) + 1
  OBVIOUS
<1>5. /\ DOMAIN rows' = 1..m /\ DOMAIN rows = 1..Len(rows)
      /\ Len(rows) \in Nat /\ m \in 1..m
      /\ \A j \in 1..Len(rows) : j \in 1..m /\ rows'[j] = rows[j]
      /\ rows'[m] = row
  BY <1>2, <1>3, <1>4, AppendProperties, LenProperties
<1>6. QED
  BY <1>5

LEMMA NoUrlOneProgram ==
  ASSUME HostInv, UrlInv, NEW p \in Pids, OneProgram(p), p \in Programs',
         NoUrlIn(p)'
  PROVE  CopyLacks(proc'[p].req, "url")
<1>1. proc'[p].pc = "insert" /\ ~proc'[p].url
  BY DEF NoUrlIn
<1>2. GoesOnAsCopy(p)
  BY <1>1 DEF OneProgram, Accepts, Saves, Execs, Unlinks, Inserts, GivesUp,
     Answers, GoesOnAt
<1>3. proc[p].wants # "id" /\ proc[p] \in Processes /\ proc'[p].req = proc[p].req
  BY <1>1, <1>2 DEF GoesOnAsCopy, GoesOnAt, SameUpload
<1>4. proc[p].wants = "url"
  BY <1>3 DEF Processes
<1>5. QED
  BY <1>2, <1>3, <1>4 DEF CopyLacks

LEMMA NoUrlInStep ==
  ASSUME HostInv, UrlInv, HostMoves, NEW q \in Programs', NoUrlIn(q)'
  PROVE  \/ CopyLacks(proc'[q].req, "url")
         \/ q \in Programs /\ proc'[q] = proc[q]
<1> q \in Pids
  BY DEF Programs, Alive
<1>1. ASSUME NEW p \in Pids, OneProgram(p)
      PROVE  \/ CopyLacks(proc'[q].req, "url")
             \/ q \in Programs /\ proc'[q] = proc[q]
  <2>1. CASE q = p
    BY <1>1, <2>1, NoUrlOneProgram
  <2>2. CASE q # p
    BY <1>1, <2>2, OneProgramIs, OneProgramPrograms DEF OthersStay
  <2>3. QED
    BY <2>1, <2>2
<1>2. ASSUME NEW p \in Pids, NEW c \in Pids, Forks(p, c)
      PROVE  q \in Programs /\ proc'[q] = proc[q]
  <2>1. q # p /\ q # c
    BY <1>2 DEF Forks, GoesOnAt, NoUrlIn
  <2>2. QED
    BY <1>2, <2>1 DEF Forks, OthersStay, Programs, Alive
<1>3. ASSUME NEW p \in Pids, NEW c \in Pids, Reads(p, c) \/ Waits(p, c)
      PROVE  q \in Programs /\ proc'[q] = proc[q]
  <2>1. q # c
    BY <1>3 DEF Reads, Waits, Programs, Alive, Serves
  <2>2. ASSUME q = p PROVE FALSE
    <3>1. proc'[p].pc = "insert" /\ ~proc'[p].url
      BY <2>2 DEF NoUrlIn
    <3>2. Waits(p, c)
      BY <1>3, <3>1 DEF Reads, GoesOnAt
    <3>3. proc[p].wants # "id" /\ proc[p] \in Processes
      BY <3>1, <3>2 DEF Waits, GoesOnAt
    <3>4. proc[p].wants = "url"
      BY <3>3 DEF Processes
    <3>5. QED
      BY <3>1, <3>2, <3>4 DEF Waits, SameUpload
  <2>3. QED
    BY <1>3, <2>1, <2>2 DEF Reads, Waits, OthersStay, Programs, Alive
<1>4. ASSUME NEW c \in Pids, NEW k \in Processes \cup {None},
             ToolEnds(c, k) \/ ToolEndsBadly(c, k) \/ Crashes(c, k)
      PROVE  q \in Programs /\ proc'[q] = proc[q]
  BY <1>4, PartsCopies DEF ToolEnds, ToolEndsBadly, Crashes, Programs
<1>5. ASSUME NEW n \in Pids, StartsAnew(n) PROVE FALSE
  <2>1. q = n
    BY <1>5, AnewCopies
  <2>2. QED
    BY <1>5, <2>1, FreshIs DEF StartsAnew, NoUrlIn
<1>6. CASE UNCHANGED hostVars
  BY <1>6 DEF hostVars, Programs, Alive
<1>7. QED
  BY <1>1, <1>2, <1>3, <1>4, <1>5, <1>6 DEF HostMoves

LEMMA NoUrlStep ==
  ASSUME HostInv, UrlInv, HostMoves, NEW r, NoUrl(r)'
  PROVE  NoUrl(r) \/ CopyLacks(r, "url")
<1>1. CASE \E i \in DOMAIN rows' : rows'[i].req = r /\ ~rows'[i].url
  <2>1. PICK i \in DOMAIN rows' : rows'[i].req = r /\ ~rows'[i].url
    BY <1>1
  <2>2. CASE rows' = rows
    BY <2>1, <2>2 DEF NoUrl
  <2>3. ASSUME NEW p \in Pids, Inserts(p) PROVE NoUrl(r)
    <3>1. CASE i \in DOMAIN rows /\ rows'[i] = rows[i]
      BY <2>1, <3>1 DEF NoUrl
    <3>2. CASE rows'[i] = [req |-> proc[p].req, id |-> proc[p].id,
                           url |-> proc[p].url]
      <4>1. proc[p].req = r /\ NoUrlIn(p) /\ p \in Programs
        BY <2>1, <2>3, <3>2 DEF Inserts, GoesOnAt, NoUrlIn
      <4>2. QED
        BY <4>1 DEF NoUrl
    <3>3. QED
      BY <2>3, <3>1, <3>2, RowAdded
  <2>4. QED
    BY <2>2, <2>3, RowsGrow
<1>2. CASE \E p \in Programs' : proc'[p].req = r /\ NoUrlIn(p)'
  <2>1. PICK q \in Programs' : proc'[q].req = r /\ NoUrlIn(q)'
    BY <1>2
  <2>2. \/ CopyLacks(r, "url")
        \/ q \in Programs /\ proc'[q] = proc[q]
    BY <2>1, NoUrlInStep
  <2>3. QED
    BY <2>1, <2>2 DEF NoUrl, NoUrlIn
<1>3. QED
  BY <1>1, <1>2 DEF NoUrl

-----------------------------------------------------------------------------
LEMMA IdlessOneProgram ==
  ASSUME HostInv, UrlInv, NEW p \in Pids, OneProgram(p), p \in Programs',
         Idless(p)'
  PROVE  \/ CopyLacks(proc'[p].req, "id")
         \/ Idless(p) /\ proc'[p].req = proc[p].req
<1>1. /\ p \in Programs /\ proc[p] \in Processes
      /\ UrlOf(p) /\ HandsOf(p)
  BY OneProgramIs DEF UrlInv, HostInv, HandsInv, Programs, Alive, Serves
<1>2. proc[p].wants \in {"id", "url"}
  BY <1>1 DEF Processes
<1>3. /\ proc'[p].id = 0
      /\ proc'[p].pc = "unlink" \/ proc'[p].wants = "url"
  BY DEF Idless
<1>4. CASE Accepts(p)
  BY <1>1, <1>3, <1>4 DEF Accepts, GoesOnAt, HandsOf
<1>5. CASE Saves(p) \/ GivesUp(p)
  BY <1>1, <1>3, <1>5 DEF Saves, GivesUp, GoesOnAt, SameUpload, Idless
<1>6. CASE Execs(p)
  BY <1>6 DEF Execs, GoesOnAt, Programs, Serves
<1>7. CASE GoesOnAsCopy(p)
  <2>1. CASE proc[p].wants = "id"
    BY <1>7, <2>1 DEF CopyLacks, GoesOnAsCopy, SameUpload
  <2>2. CASE proc[p].wants = "url"
    BY <1>1, <1>3, <1>7, <2>2 DEF GoesOnAsCopy, SameUpload, Idless
  <2>3. QED
    BY <1>2, <2>1, <2>2
<1>8. CASE Unlinks(p)
  BY <1>1, <1>3, <1>8 DEF Unlinks, Idless
<1>9. CASE Inserts(p)
  BY <1>1, <1>3, <1>9 DEF Inserts, GoesOnAt, SameUpload, Idless
<1>10. CASE Answers(p)
  BY <1>3, <1>10 DEF Answers, GoesOnAt
<1>11. QED
  BY <1>4, <1>5, <1>6, <1>7, <1>8, <1>9, <1>10 DEF OneProgram

(* Who has no id after a step: one that had none, or a copy that goes on.  *)
LEMMA IdlessStep ==
  ASSUME HostInv, UrlInv, HostMoves, NEW q \in Programs', Idless(q)'
  PROVE  \/ CopyLacks(proc'[q].req, "id")
         \/ \E p \in Programs : Idless(p) /\ proc[p].req = proc'[q].req
<1> q \in Pids
  BY DEF Programs, Alive
<1>1. q \in Programs /\ proc'[q] = proc[q] =>
        \E p \in Programs : Idless(p) /\ proc[p].req = proc'[q].req
  BY DEF Idless
<1>2. ASSUME NEW p \in Pids, OneProgram(p)
      PROVE  \/ CopyLacks(proc'[q].req, "id")
             \/ \E t \in Programs : Idless(t) /\ proc[t].req = proc'[q].req
  <2>1. CASE q = p
    BY <1>2, <2>1, IdlessOneProgram DEF Idless
  <2>2. CASE q # p
    BY <1>1, <1>2, <2>2, OneProgramIs, OneProgramPrograms DEF OthersStay
  <2>3. QED
    BY <2>1, <2>2
<1>3. ASSUME NEW p \in Pids, NEW c \in Pids, Forks(p, c)
      PROVE  \E t \in Programs : Idless(t) /\ proc[t].req = proc'[q].req
  <2>1. CASE q = p \/ q = c
    <3>1. /\ p \in Programs /\ proc'[q].pc \in {"read", "exec"}
          /\ SameUpload(q, p)
      BY <1>3, <2>1 DEF Forks, GoesOnAt
    <3>2. Idless(p) /\ proc[p].req = proc'[q].req
      BY <3>1 DEF SameUpload, Idless
    <3>3. QED
      BY <3>1, <3>2
  <2>2. CASE q # p /\ q # c
    BY <1>1, <1>3, <2>2 DEF Forks, OthersStay, Programs, Alive
  <2>3. QED
    BY <2>1, <2>2
<1>4. ASSUME NEW p \in Pids, NEW c \in Pids, Reads(p, c) \/ Waits(p, c)
      PROVE  \E t \in Programs : Idless(t) /\ proc[t].req = proc'[q].req
  <2>1. q # c
    BY <1>4 DEF Reads, Waits, Programs, Alive, Serves
  <2>2. CASE q = p
    <3>1. p \in Programs /\ proc[p] \in Processes /\ UrlOf(p)
      BY <1>4 DEF Reads, Waits, GoesOnAt, UrlInv
    <3>2. proc[p].wants \in {"id", "url"} /\ proc'[p].id = 0
      BY <2>2, <3>1 DEF Processes, Idless
    <3>3. CASE proc[p].wants = "url"
      <4>1. proc'[p].id = proc[p].id /\ proc'[p].req = proc[p].req
        BY <1>4, <3>3 DEF Reads, Waits, SameUpload
      <4>2. QED
        BY <2>2, <3>1, <3>2, <3>3, <4>1 DEF Idless
    <3>4. CASE proc[p].wants = "id" /\ Waits(p, c)
      BY <3>1, <3>2, <3>4 DEF Waits, SameUpload, UrlOf
    <3>5. CASE proc[p].wants = "id" /\ Reads(p, c)
      <4>1. proc'[p].wants = "id" /\ proc'[p].pc # "unlink"
        BY <3>5 DEF Reads, GoesOnAt
      <4>2. QED
        BY <2>2, <4>1 DEF Idless
    <3>6. QED
      BY <1>4, <3>2, <3>3, <3>4, <3>5
  <2>3. CASE q # p
    BY <1>1, <1>4, <2>1, <2>3 DEF Reads, Waits, OthersStay, Programs, Alive
  <2>4. QED
    BY <2>2, <2>3
<1>5. ASSUME NEW c \in Pids, NEW k \in Processes \cup {None},
             ToolEnds(c, k) \/ ToolEndsBadly(c, k) \/ Crashes(c, k)
      PROVE  \E t \in Programs : Idless(t) /\ proc[t].req = proc'[q].req
  BY <1>1, <1>5, PartsCopies DEF ToolEnds, ToolEndsBadly, Crashes, Programs
<1>6. ASSUME NEW n \in Pids, StartsAnew(n) PROVE FALSE
  <2>1. q = n
    BY <1>6, AnewCopies
  <2>2. QED
    BY <1>6, <2>1, FreshIs DEF StartsAnew, Idless
<1>7. CASE UNCHANGED hostVars
  BY <1>1, <1>7 DEF hostVars, Programs, Alive
<1>8. QED
  BY <1>2, <1>3, <1>4, <1>5, <1>6, <1>7 DEF HostMoves

(* Who has a copy after a step had it before, or the copy goes on now. *)
LEMMA HasCopyStep ==
  ASSUME HostInv, HostMoves, NEW q \in Pids, HasCopy(q)'
  PROVE  /\ At(q, "read") /\ proc'[q] = proc[q]
         /\ HasCopy(q) \/ GoesOnAsCopy(proc[q].child)
<1>1. ASSUME NEW p \in Pids, OneProgram(p)
      PROVE  /\ At(q, "read") /\ proc'[q] = proc[q]
             /\ HasCopy(q) \/ GoesOnAsCopy(proc[q].child)
  BY <1>1, OneProgramCopies
<1>2. ASSUME NEW p \in Pids, NEW c \in Pids,
             Forks(p, c) \/ Reads(p, c) \/ Waits(p, c)
      PROVE  HasCopy(q) /\ proc'[q] = proc[q]
  BY <1>2, ForksCopies, ReadsCopies DEF NoNewCopy
<1>3. ASSUME NEW c \in Pids, NEW k \in Processes \cup {None},
             ToolEnds(c, k) \/ ToolEndsBadly(c, k) \/ Crashes(c, k)
      PROVE  HasCopy(q) /\ proc'[q] = proc[q]
  BY <1>3, PartsCopies DEF ToolEnds, ToolEndsBadly, Crashes, Programs,
     NoNewCopy
<1>4. ASSUME NEW n \in Pids, StartsAnew(n) PROVE FALSE
  BY <1>4, AnewCopies DEF HasCopy
<1>5. CASE UNCHANGED hostVars
  BY <1>5 DEF hostVars, HasCopy, Programs, Alive, At
<1>6. QED
  BY <1>1, <1>2, <1>3, <1>4, <1>5 DEF HostMoves, HasCopy

LEMMA NoIdStep ==
  ASSUME HostInv, UrlInv, HostMoves, NEW r, NoId(r)'
  PROVE  NoId(r) \/ CopyLacks(r, "id")
<1>1. CASE \E i \in DOMAIN rows' : rows'[i].req = r /\ rows'[i].id = 0
  <2>1. PICK i \in DOMAIN rows' : rows'[i].req = r /\ rows'[i].id = 0
    BY <1>1
  <2>2. CASE rows' = rows
    BY <2>1, <2>2 DEF NoId
  <2>3. ASSUME NEW p \in Pids, Inserts(p) PROVE NoId(r)
    <3>1. CASE i \in DOMAIN rows /\ rows'[i] = rows[i]
      BY <2>1, <3>1 DEF NoId
    <3>2. CASE rows'[i] = [req |-> proc[p].req, id |-> proc[p].id,
                           url |-> proc[p].url]
      <4>1. proc[p].req = r /\ proc[p].id = 0 /\ p \in Programs
            /\ proc[p].pc = "insert"
        BY <2>1, <2>3, <3>2 DEF Inserts, GoesOnAt
      <4>2. Idless(p)
        BY <4>1 DEF UrlInv, UrlOf, Idless
      <4>3. QED
        BY <4>1, <4>2 DEF NoId, NoIdIn
    <3>3. QED
      BY <2>3, <3>1, <3>2, RowAdded
  <2>4. QED
    BY <2>2, <2>3, RowsGrow
<1>2. CASE \E p \in Programs' : proc'[p].req = r /\ Idless(p)'
  BY <1>2, IdlessStep DEF NoId, NoIdIn
<1>3. ASSUME NEW q \in Programs', proc'[q].req = r, HasCopy(q)',
             proc'[q].wants = "id"
      PROVE  NoId(r) \/ CopyLacks(r, "id")
  <2>1. q \in Pids
    BY DEF Programs, Alive
  <2>2. PICK d : d = proc[q].child
    OBVIOUS
  <2>3. /\ At(q, "read") /\ proc'[q] = proc[q]
        /\ HasCopy(q) \/ GoesOnAsCopy(d)
    BY <1>3, <2>1, <2>2, HasCopyStep
  <2>4. CASE HasCopy(q)
    BY <1>3, <2>3, <2>4 DEF NoId, NoIdIn, HasCopy, At, Programs, Serves
  <2>5. CASE GoesOnAsCopy(d)
    <3>1. ReadsFrom(q, d) /\ Forked(d) /\ d \in Pids
      BY <2>1, <2>2, <2>3, <2>5, ChildIs DEF GoesOnAsCopy, Forked, At
    <3>2. proc[d].req = r /\ proc[d].wants = "id"
      BY <1>3, <2>3, <3>1 DEF ReadsFrom
    <3>3. QED
      BY <2>5, <3>1, <3>2 DEF CopyLacks
  <2>6. QED
    BY <2>3, <2>4, <2>5
<1>4. QED
  BY <1>1, <1>2, <1>3 DEF NoId, NoIdIn

(* Only an execlp that failed is counted. *)
LEMMA ExecFailsCounts ==
  ASSUME HostInv, HostMoves
  PROVE  execFails' = execFails \/ \E p \in Pids : GoesOnAsCopy(p)
<1>1. ASSUME NEW p \in Pids, OneProgram(p), ~GoesOnAsCopy(p)
      PROVE  execFails' = execFails
  BY <1>1 DEF OneProgram, Accepts, Saves, Execs, Unlinks, Inserts,
     GivesUp, Answers, NoFault
<1>2. ASSUME NEW p \in Pids, NEW c \in Pids,
             Forks(p, c) \/ Reads(p, c) \/ Waits(p, c)
      PROVE  execFails' = execFails
  BY <1>2 DEF Forks, Reads, Waits, NoFault
<1>3. ASSUME NEW c \in Pids, NEW k \in Processes \cup {None},
             ToolEnds(c, k) \/ ToolEndsBadly(c, k) \/ Crashes(c, k)
      PROVE  execFails' = execFails
  BY <1>3 DEF ToolEnds, ToolEndsBadly, Crashes, NoFault
<1>4. ASSUME NEW n \in Pids, StartsAnew(n) PROVE execFails' = execFails
  BY <1>4 DEF StartsAnew
<1>5. QED
  BY <1>1, <1>2, <1>3, <1>4 DEF HostMoves, hostVars

LEMMA OneCopyAtATime ==
  ASSUME HostInv, NEW p \in Pids, NEW q \in Pids, GoesOnAsCopy(p),
         GoesOnAsCopy(q)
  PROVE  p = q
BY DEF GoesOnAsCopy, OthersStay, GoesOnAt

LEMMA LackIsSent ==
  ASSUME HostInv, NEW r, NoUrl(r) \/ NoId(r)
  PROVE  r \in DOMAIN sent
<1>1. ASSUME NEW i \in DOMAIN rows PROVE rows[i].req \in DOMAIN sent
  BY DEF HostInv, RowsInv
<1>2. ASSUME NEW p \in Programs, NoUrlIn(p) \/ NoIdIn(p)
      PROVE  proc[p].req \in DOMAIN sent
  <2>1. HandsOf(p)
    BY DEF HostInv, HandsInv, Programs, Alive, Serves
  <2>2. proc[p].pc # "accept"
    BY <1>2, <2>1 DEF NoUrlIn, NoIdIn, Idless, HasCopy, At, HandsOf
  <2>3. QED
    BY <2>1, <2>2 DEF HandsOf
<1>3. QED
  BY <1>1, <1>2 DEF NoUrl, NoId

LEMMA SentIsFinite ==
  ASSUME HostTypeOK
  PROVE  IsFiniteSet(DOMAIN sent)
<1>1. Len(sent) \in Nat /\ DOMAIN sent = 1..Len(sent)
  BY LenProperties DEF HostTypeOK
<1>2. QED
  BY <1>1, FS_Interval

LEMMA LacksAreFinite ==
  ASSUME HostTypeOK
  PROVE  /\ IsFiniteSet(UrlLess) /\ Cardinality(UrlLess) \in Nat
         /\ IsFiniteSet(IdLess)  /\ Cardinality(IdLess) \in Nat
<1>1. UrlLess \in SUBSET DOMAIN sent /\ IdLess \in SUBSET DOMAIN sent
  BY DEF UrlLess, IdLess
<1>2. IsFiniteSet(UrlLess) /\ IsFiniteSet(IdLess)
  BY <1>1, SentIsFinite, FS_Subset
<1>3. QED
  BY <1>2, FS_CardinalityType

LEMMA FewerThan ==
  ASSUME NEW S, NEW T, IsFiniteSet(T), S \subseteq T
  PROVE  Cardinality(S) <= Cardinality(T)
BY FS_Subset

LEMMA AtMostOneMore ==
  ASSUME NEW S, NEW T, NEW x, IsFiniteSet(T), S \subseteq T \cup {x}
  PROVE  Cardinality(S) <= Cardinality(T) + 1
<1>1. IsFiniteSet(T \cup {x}) /\ Cardinality(T) \in Nat
      /\ Cardinality(T \cup {x}) \in Nat
  BY FS_AddElement, FS_CardinalityType
<1>2. Cardinality(T \cup {x}) <= Cardinality(T) + 1
  BY <1>1, FS_AddElement
<1>3. Cardinality(S) <= Cardinality(T \cup {x})
  BY <1>1, FewerThan
<1>4. Cardinality(S) \in Nat
  BY <1>1, FS_Subset, FS_CardinalityType
<1>5. QED
  BY <1>1, <1>2, <1>3, <1>4

LEMMA LackKeeps ==
  ASSUME HostInv, UrlInv, LackInv, HostInv', HostMoves
  PROVE  LackInv'
<1>1. /\ IsFiniteSet(UrlLess) /\ Cardinality(UrlLess) \in Nat
      /\ IsFiniteSet(IdLess)  /\ Cardinality(IdLess) \in Nat
      /\ execFails \in Nat
  BY LacksAreFinite DEF HostInv, HostTypeOK
<1>2. HostTypeOK' => /\ Cardinality(UrlLess') \in Nat
                     /\ Cardinality(IdLess') \in Nat
  <2> SUFFICES ASSUME HostTypeOK'
               PROVE  /\ Cardinality(UrlLess') \in Nat
                      /\ Cardinality(IdLess') \in Nat
    OBVIOUS
  <2>1. UrlLess' \in SUBSET DOMAIN sent' /\ IdLess' \in SUBSET DOMAIN sent'
    BY DEF UrlLess, IdLess
  <2>2. Len(sent') \in Nat /\ DOMAIN sent' = 1..Len(sent')
    BY LenProperties DEF HostTypeOK
  <2>3. IsFiniteSet(DOMAIN sent')
    BY <2>2, FS_Interval
  <2>4. QED
    BY <2>1, <2>3, FS_Subset, FS_CardinalityType
<1>3. Cardinality(UrlLess') \in Nat /\ Cardinality(IdLess') \in Nat
  BY <1>2 DEF HostInv
<1>4. \A r \in UrlLess' : r \in UrlLess \/ CopyLacks(r, "url")
  BY NoUrlStep, LackIsSent DEF UrlLess
<1>5. \A r \in IdLess' : r \in IdLess \/ CopyLacks(r, "id")
  BY NoIdStep, LackIsSent DEF IdLess
<1>6. CASE \A p \in Pids : ~GoesOnAsCopy(p)
  <2>1. execFails' = execFails
    BY <1>6, ExecFailsCounts
  <2>2. UrlLess' \subseteq UrlLess /\ IdLess' \subseteq IdLess
    BY <1>4, <1>5, <1>6 DEF CopyLacks
  <2>3. /\ Cardinality(UrlLess') <= Cardinality(UrlLess)
        /\ Cardinality(IdLess') <= Cardinality(IdLess)
    BY <1>1, <2>2, FewerThan
  <2>4. QED
    BY <1>1, <1>3, <2>1, <2>3 DEF LackInv
<1>7. ASSUME NEW p \in Pids, GoesOnAsCopy(p) PROVE LackInv'
  <2>1. execFails' = execFails + 1
    BY <1>7 DEF GoesOnAsCopy
  <2>2. \A r, wants : CopyLacks(r, wants) =>
          r = proc[p].req /\ wants = proc[p].wants
    BY <1>7, OneCopyAtATime DEF CopyLacks
  <2>3. CASE proc[p].wants = "id"
    <3>1. UrlLess' \subseteq UrlLess /\ IdLess' \subseteq IdLess \cup {proc[p].req}
      BY <1>4, <1>5, <2>2, <2>3
    <3>2. /\ Cardinality(UrlLess') <= Cardinality(UrlLess)
          /\ Cardinality(IdLess') <= Cardinality(IdLess) + 1
      BY <1>1, <3>1, FewerThan, AtMostOneMore
    <3>3. QED
      BY <1>1, <1>3, <2>1, <3>2 DEF LackInv
  <2>4. CASE proc[p].wants # "id"
    <3>1. UrlLess' \subseteq UrlLess \cup {proc[p].req} /\ IdLess' \subseteq IdLess
      BY <1>4, <1>5, <2>2, <2>4
    <3>2. /\ Cardinality(UrlLess') <= Cardinality(UrlLess) + 1
          /\ Cardinality(IdLess') <= Cardinality(IdLess)
      BY <1>1, <3>1, FewerThan, AtMostOneMore
    <3>3. QED
      BY <1>1, <1>3, <2>1, <3>2 DEF LackInv
  <2>5. QED
    BY <2>3, <2>4
<1>8. QED
  BY <1>6, <1>7

(* Rows are of different uploads, so that there are no more than these. *)
LEMMA RowsToUploads ==
  ASSUME HostInv, NEW S \in SUBSET DOMAIN rows, NEW T, IsFiniteSet(T),
         \A i \in S : rows[i].req \in T
  PROVE  /\ Cardinality(S) <= Cardinality(T)
         /\ Cardinality(S) \in Nat
<1> DEFINE f == [i \in S |-> rows[i].req]
<1>1. f \in [S -> T]
  OBVIOUS
<1>2. \A i, j \in S : f[i] = f[j] => i = j
  BY DEF HostInv, OneRowPerUpload
<1> HIDE DEF f
<1>3. f \in Injection(S, T)
  BY <1>1, <1>2 DEF Injection, IsInjective
<1>4. IsFiniteSet(S) /\ Cardinality(S) <= Cardinality(T)
  BY <1>3, FS_Injection
<1>5. QED
  BY <1>4, FS_CardinalityType

LEMMA LackBoundsRows ==
  ASSUME HostInv, LackInv
  PROVE  RowsAreComplete
<1> DEFINE A == {i \in DOMAIN rows : ~rows[i].url}
           B == {i \in DOMAIN rows : rows[i].id = 0}
<1>1. /\ IsFiniteSet(UrlLess) /\ Cardinality(UrlLess) \in Nat
      /\ IsFiniteSet(IdLess)  /\ Cardinality(IdLess) \in Nat
      /\ execFails \in Nat
  BY LacksAreFinite DEF HostInv, HostTypeOK
<1>2. \A i \in A : rows[i].req \in UrlLess
  BY LackIsSent DEF NoUrl, UrlLess
<1>3. \A i \in B : rows[i].req \in IdLess
  BY LackIsSent DEF NoId, IdLess
<1>4. A \in SUBSET DOMAIN rows /\ B \in SUBSET DOMAIN rows
  OBVIOUS
<1> HIDE DEF A, B
<1>5. /\ Cardinality(A) <= Cardinality(UrlLess) /\ Cardinality(A) \in Nat
      /\ Cardinality(B) <= Cardinality(IdLess)  /\ Cardinality(B) \in Nat
  BY <1>1, <1>2, <1>3, <1>4, RowsToUploads
<1>6. Cardinality(A) + Cardinality(B) <= execFails
  BY <1>1, <1>5 DEF LackInv
<1>7. QED
  BY <1>6 DEF RowsAreComplete, A, B

LEMMA InitLacksNothing ==
  ASSUME HostInit
  PROVE  UrlInv /\ LackInv
<1>1. \A p \in Programs : proc[p] = Fresh
  BY DEF HostInit, Programs, Alive
<1>2. Fresh.url = FALSE /\ Fresh.pc = "accept"
  BY DEF Fresh
<1>3. UrlInv
  BY <1>1, <1>2 DEF UrlInv, UrlOf, PrintsUrl, At
<1>4. DOMAIN sent = {}
  BY DEF HostInit
<1>5. UrlLess = {} /\ IdLess = {}
  BY <1>4 DEF UrlLess, IdLess
<1>6. LackInv
  BY <1>5, FS_EmptySet DEF LackInv, HostInit
<1>7. QED
  BY <1>3, <1>6

(* Every row that lacks its url, or its id, was inserted by a copy of the  *)
(* program whose execlp failed: one failure for each.                      *)
THEOREM RowsStayComplete == HostSpec => []RowsAreComplete
<1>1. HostInit => UrlInv /\ LackInv
  BY InitLacksNothing
<1>2. HostInv /\ UrlInv /\ LackInv /\ HostInv' /\ [HostNext]_hostVars
        => UrlInv' /\ LackInv'
  BY HostDoes, UrlKeeps, LackKeeps
<1>3. HostInv /\ LackInv => RowsAreComplete
  BY LackBoundsRows
<1>4. QED
  BY <1>1, <1>2, <1>3, HostInvAlways, PTL DEF HostSpec

-----------------------------------------------------------------------------
(* Descriptors and zombies *)

(* The zombies of p but the one that it reads from and waits for *)
Stranded(p) ==
  Reaped(p) \ IF proc[p].pc \in {"read", "wait"} THEN {proc[p].child} ELSE {}

(* p will leave the read of an id with nothing, and lose two things. *)
Failed(p) == proc[p].wants = "id" /\ (HasCopy(p) \/ NoOutput(p))

LeakOf(p) ==
  proc[p].leaked + Cardinality(Stranded(p)) + (IF Failed(p) THEN 2 ELSE 0)
    <= 2 * faults

LeakInv == \A p \in Programs : LeakOf(p)

LEMMA PidsAreFinite ==
  ASSUME NEW S \in SUBSET Pids
  PROVE  IsFiniteSet(S) /\ Cardinality(S) \in Nat
<1>1. IsFiniteSet(Pids)
  BY BoundsAreNat, FS_Interval DEF Pids
<1>2. QED
  BY <1>1, FS_Subset, FS_CardinalityType

LEMMA StrandedIs ==
  ASSUME NEW p
  PROVE  /\ Stranded(p) \in SUBSET Pids /\ Reaped(p) \in SUBSET Pids
         /\ Stranded(p)' \in SUBSET Pids
BY DEF Stranded, Reaped, Alive

LEMMA LeakFigures ==
  ASSUME HostInv, HostInv'
  PROVE  /\ faults \in Nat /\ faults' \in Nat
         /\ \A p \in Programs : proc[p].leaked \in Nat
         /\ \A p \in Programs' : proc'[p].leaked \in Nat
         /\ \A p : Cardinality(Stranded(p)) \in Nat
         /\ \A p : Cardinality(Stranded(p)') \in Nat
<1>1. faults \in Nat /\ faults' \in Nat
  BY BoundsAreNat DEF HostInv, HostTypeOK
<1>2. \A p \in Programs : proc[p].leaked \in Nat
  BY ProcTyped DEF HostInv, Programs, Processes
<1>3. \A p \in Programs' : proc'[p].leaked \in Nat
  <2>1. \A p \in Programs' : proc'[p] \in Processes
    BY DEF HostInv, HostTypeOK, Programs, Alive
  <2>2. QED
    BY <2>1 DEF Processes
<1>4. ASSUME NEW p PROVE /\ Cardinality(Stranded(p)) \in Nat
                         /\ Cardinality(Stranded(p)') \in Nat
  BY StrandedIs, PidsAreFinite
<1>5. QED
  BY <1>1, <1>2, <1>3, <1>4

(* A program that loses no more than what a failure in this step allows *)
LEMMA LeakStays ==
  ASSUME HostInv, HostInv', NEW q \in Programs, q \in Programs', LeakOf(q),
         Stranded(q)' \subseteq Stranded(q),
         \/ /\ proc'[q].leaked = proc[q].leaked
            /\ Failed(q)' => Failed(q)
            /\ faults' \in {faults, faults + 1}
         \/ /\ proc'[q].leaked \in {proc[q].leaked, proc[q].leaked + 2}
            /\ ~Failed(q)' /\ faults' = faults + 1
         \/ /\ proc'[q].leaked = proc[q].leaked
            /\ faults' = faults + 1
  PROVE  LeakOf(q)'
<1>1. /\ faults \in Nat /\ faults' \in Nat /\ proc[q].leaked \in Nat
      /\ proc'[q].leaked \in Nat /\ Cardinality(Stranded(q)) \in Nat
      /\ Cardinality(Stranded(q)') \in Nat
  BY LeakFigures
<1>2. Cardinality(Stranded(q)') <= Cardinality(Stranded(q))
  BY StrandedIs, PidsAreFinite, FewerThan
<1>3. QED
  BY <1>1, <1>2 DEF LeakOf

(* The zombies of a process that the step leaves alone *)
LEMMA ReapedStays ==
  ASSUME HostInv, NEW q \in Pids, NEW S \in SUBSET Pids, OthersStay(S),
         \A d \in S : At(d, "zombie")' =>
           proc'[d].parent # q \/ (At(d, "zombie") /\ proc[d].parent = q)
  PROVE  Reaped(q)' \subseteq Reaped(q)
<1> SUFFICES ASSUME NEW d \in Reaped(q)' PROVE d \in Reaped(q)
  OBVIOUS
<1>1. d \in Pids /\ proc'[d] # None /\ At(d, "zombie")' /\ proc'[d].parent = q
  BY DEF Reaped, Alive, At
<1>2. CASE d \in S
  BY <1>1, <1>2 DEF Reaped, At
<1>3. CASE d \notin S
  BY <1>1, <1>3 DEF OthersStay, Reaped, Alive, At
<1>4. QED
  BY <1>2, <1>3

LEMMA LeakOneProgram ==
  ASSUME HostInv, HostInv', LeakInv, NEW p \in Pids, OneProgram(p)
  PROVE  LeakInv'
<1> SUFFICES ASSUME NEW q \in Programs' PROVE LeakOf(q)'
  BY DEF LeakInv
<1>1. /\ p \in Programs /\ OthersStay({p}) /\ Alive' = Alive
      /\ proc'[p].pc \in (Serves \ {"read", "exec"}) \cup {"tool"}
      /\ proc[p].pc # "read" /\ proc[p] \in Processes
  BY OneProgramIs
<1>2. q \in Pids /\ q \in Programs /\ LeakOf(q)
  BY OneProgramPrograms DEF LeakInv, Programs, Alive
<1>3. Reaped(q)' \subseteq Reaped(q)
  BY <1>1, <1>2, ReapedStays DEF At, Serves
<1>4. CASE q = p
  <2>1. ~Failed(p)'
    BY <1>1 DEF Failed, HasCopy, NoOutput, At, Serves
  <2>2. Stranded(p) = Reaped(p)
    <3>1. proc[p].pc \notin {"read", "wait"}
      BY DEF OneProgram, Accepts, Saves, Execs, GoesOnAsCopy, Unlinks,
         Inserts, GivesUp, Answers
    <3>2. QED
      BY <3>1 DEF Stranded
  <2>3. Stranded(p)' \subseteq Stranded(p)
    BY <1>3, <1>4, <2>2 DEF Stranded
  <2>4. CASE GivesUp(p)
    BY <1>2, <1>4, <2>1, <2>3, <2>4, LeakStays DEF GivesUp
  <2>5. CASE Execs(p)
    BY <1>4, <2>5 DEF Execs, GoesOnAt, Programs, Serves
  <2>6. CASE ~GivesUp(p) /\ ~Execs(p)
    <3>1. /\ proc'[p].leaked = proc[p].leaked
          /\ faults' \in {faults, faults + 1}
      BY <2>6 DEF OneProgram, Accepts, Saves, GoesOnAsCopy, Unlinks,
         Inserts, Answers, NoFault
    <3>2. QED
      BY <1>2, <1>4, <2>1, <2>3, <3>1, LeakStays
  <2>7. QED
    BY <2>4, <2>5, <2>6
<1>5. CASE q # p
  <2>1. proc'[q] = proc[q]
    BY <1>1, <1>2, <1>5 DEF OthersStay
  <2>2. Stranded(q)' \subseteq Stranded(q)
    BY <1>3, <2>1 DEF Stranded
  <2>3. NoOutput(q)' => NoOutput(q)
    <3> SUFFICES ASSUME NoOutput(q)' PROVE NoOutput(q)
      OBVIOUS
    <3>1. PICK d : d = proc[q].child
      OBVIOUS
    <3>2. At(d, "zombie")' /\ At(q, "read") /\ proc'[d].out = None
      BY <1>1, <2>1, <3>1 DEF NoOutput, At
    <3>3. d # p /\ At(d, "zombie") /\ proc'[d] = proc[d]
      BY <1>1, <3>2 DEF At, OthersStay, Alive, Serves
    <3>4. QED
      BY <2>1, <3>1, <3>2, <3>3 DEF NoOutput
  <2>4. HasCopy(q)' => HasCopy(q) \/ GoesOnAsCopy(p)
    BY <1>2, OneProgramCopies
  <2>5. CASE GoesOnAsCopy(p)
    BY <1>2, <2>1, <2>2, <2>5, LeakStays DEF GoesOnAsCopy
  <2>6. CASE ~GoesOnAsCopy(p)
    <3>1. Failed(q)' => Failed(q)
      BY <2>1, <2>3, <2>4, <2>6 DEF Failed
    <3>2. faults' \in {faults, faults + 1}
      BY DEF OneProgram, Accepts, Saves, Execs, GoesOnAsCopy, Unlinks,
         Inserts, GivesUp, Answers, NoFault
    <3>3. QED
      BY <1>2, <2>1, <2>2, <3>1, <3>2, LeakStays
  <2>7. QED
    BY <2>5, <2>6
<1>6. QED
  BY <1>4, <1>5

(* No output of a child that the step leaves alone *)
LEMMA NoOutputStays ==
  ASSUME HostInv, NEW q \in Pids, NEW S \in SUBSET Pids, OthersStay(S),
         q \notin S, proc[q].child \notin S, NoOutput(q)'
  PROVE  NoOutput(q)
<1>1. PICK d : d = proc[q].child
  OBVIOUS
<1>2. proc'[q] = proc[q]
  BY DEF OthersStay
<1>3. At(d, "zombie")' /\ At(q, "read")' /\ proc'[d].out = None
  BY <1>1, <1>2 DEF NoOutput
<1>4. At(q, "read") /\ d \in Pids /\ proc'[d] = proc[d] /\ At(d, "zombie")
  BY <1>1, <1>2, <1>3 DEF At, Alive, OthersStay
<1>5. QED
  BY <1>1, <1>3, <1>4 DEF NoOutput

LEMMA LeakForks ==
  ASSUME HostInv, HostInv', LeakInv, NEW p \in Pids, NEW c \in Pids,
         Forks(p, c)
  PROVE  LeakInv'
<1> SUFFICES ASSUME NEW q \in Programs' PROVE LeakOf(q)'
  BY DEF LeakInv
<1>1. /\ OthersStay({p, c}) /\ c \notin Alive /\ proc'[p].child = c
      /\ proc'[c].pc = "exec" /\ proc'[p].pc = "read" /\ proc'[c].parent = p
      /\ p \in Programs /\ proc[p].pc = "fork" /\ p # c
      /\ faults' = faults
      /\ proc'[p].leaked = proc[p].leaked /\ proc'[c].leaked = proc[p].leaked
  BY DEF Forks, GoesOnAt, Free, NoFault
<1>2. q \in Pids
  BY DEF Programs, Alive
<1>3. Reaped(q)' \subseteq Reaped(q)
  BY <1>1, <1>2, ReapedStays DEF At
<1>4. LeakOf(p)
  BY <1>1 DEF LeakInv
<1>5. CASE q = p
  <2>1. ~Failed(p)'
    BY <1>1 DEF Failed, HasCopy, NoOutput, At
  <2>2. Stranded(p)' \subseteq Stranded(p)
    BY <1>1, <1>3, <1>5 DEF Stranded
  <2>3. QED
    BY <1>1, <1>4, <1>5, <2>1, <2>2, LeakStays
<1>6. CASE q = c
  <2>1. ~Failed(c)'
    BY <1>1 DEF Failed, HasCopy, NoOutput, At
  <2>2. Reaped(c) = {}
    <3> SUFFICES ASSUME NEW d \in Reaped(c) PROVE FALSE
      OBVIOUS
    <3>1. c # 0
      BY DEF Pids
    <3>2. c \in Programs
      BY <3>1 DEF Reaped, HostInv, FamilyInv, IsParent, Alive
    <3>3. QED
      BY <1>1, <3>2 DEF Programs
  <2>3. Stranded(c)' = {}
    BY <1>3, <1>6, <2>2 DEF Stranded
  <2>4. Cardinality(Stranded(c)') = 0
    BY <2>3, FS_EmptySet
  <2>5. /\ faults \in Nat /\ proc[p].leaked \in Nat
        /\ Cardinality(Stranded(p)) \in Nat
    BY <1>1, LeakFigures
  <2>6. proc[p].leaked <= 2 * faults
    BY <1>4, <2>5 DEF LeakOf
  <2>7. QED
    BY <1>1, <1>6, <2>1, <2>4, <2>5, <2>6 DEF LeakOf
<1>7. CASE q # p /\ q # c
  <2>1. proc'[q] = proc[q] /\ q \in Programs
    BY <1>1, <1>2, <1>7 DEF OthersStay, Programs, Alive
  <2>2. Stranded(q)' \subseteq Stranded(q)
    BY <1>3, <2>1 DEF Stranded
  <2>3. HasCopy(q)' => HasCopy(q)
    BY <1>2, ForksCopies DEF NoNewCopy
  <2>4. ASSUME NoOutput(q)' PROVE NoOutput(q)
    <3>1. At(q, "read") /\ proc[q].child \in Alive
      BY <1>2, <2>1, <2>4, ChildIs DEF NoOutput, At, Programs
    <3>2. proc[q].child # c
      BY <1>1, <3>1
    <3>3. proc[q].child # p
      BY <1>1, <2>1, <2>4 DEF NoOutput, At
    <3>4. QED
      BY <1>1, <1>2, <1>7, <2>4, <3>2, <3>3, NoOutputStays
  <2>5. Failed(q)' => Failed(q)
    BY <2>1, <2>3, <2>4 DEF Failed
  <2>6. LeakOf(q)
    BY <2>1 DEF LeakInv
  <2>7. QED
    BY <1>1, <2>1, <2>2, <2>5, <2>6, LeakStays
<1>8. QED
  BY <1>5, <1>6, <1>7

(* A program that neither p nor its zombie c is *)
LEMMA LeakBesides ==
  ASSUME HostInv, HostInv', LeakInv, NEW p \in Pids, NEW c \in Pids,
         Reads(p, c) \/ Waits(p, c), NEW q \in Programs', q # p
  PROVE  LeakOf(q)'
<1>1. /\ OthersStay({p, c}) /\ proc[c].parent = p /\ proc'[p].pc # "zombie"
      /\ proc'[c] # None => proc'[c].parent = p
      /\ proc'[c] = None \/ proc'[c].pc = "zombie"
      /\ proc'[p].parent = proc[p].parent
      /\ faults' = faults
  BY DEF Reads, Waits, GoesOnAt, Reaped, NoFault
<1>2. q \in Pids /\ q # c
  BY <1>1 DEF Programs, Alive, Serves
<1>3. proc'[q] = proc[q] /\ q \in Programs
  BY <1>1, <1>2 DEF OthersStay, Programs, Alive
<1>4. Reaped(q)' \subseteq Reaped(q)
  BY <1>1, <1>2, ReapedStays DEF At, Alive
<1>5. Stranded(q)' \subseteq Stranded(q)
  BY <1>3, <1>4 DEF Stranded
<1>6. HasCopy(q)' => HasCopy(q)
  BY <1>2, ReadsCopies DEF NoNewCopy
<1>7. ASSUME NoOutput(q)' PROVE NoOutput(q)
  <2>1. At(q, "read") /\ proc[proc[q].child].parent = q
    BY <1>2, <1>3, <1>7, ChildIs DEF NoOutput, At, Programs
  <2>2. proc[q].child # c
    BY <1>1, <2>1
  <2>3. proc[q].child # p
    BY <1>1, <1>3, <1>7 DEF NoOutput, At
  <2>4. QED
    BY <1>1, <1>2, <1>7, <2>2, <2>3, NoOutputStays
<1>8. Failed(q)' => Failed(q)
  BY <1>3, <1>6, <1>7 DEF Failed
<1>9. LeakOf(q)
  BY <1>3 DEF LeakInv
<1>10. QED
  BY <1>1, <1>3, <1>5, <1>8, <1>9, LeakStays

LEMMA LeakReads ==
  ASSUME HostInv, HostInv', LeakInv, NEW p \in Pids, NEW c \in Pids,
         Reads(p, c)
  PROVE  LeakInv'
<1> SUFFICES ASSUME p \in Programs' PROVE LeakOf(p)'
  BY LeakBesides DEF LeakInv
<1>1. /\ OthersStay({p, c}) /\ proc'[p].pc # "zombie" /\ proc'[p].pc # "read"
      /\ proc[c].parent = p /\ p \in Programs /\ proc[p].pc = "read"
      /\ c = proc[p].child /\ proc[c].pc = "zombie" /\ faults' = faults
  BY DEF Reads, GoesOnAt, NoFault
<1>2. At(p, "read")
  BY <1>1 DEF At, Programs
<1>3. At(c, "zombie")
  BY <1>1, <1>2, ChildIs DEF At
<1>4. Reaped(p)' \subseteq Reaped(p)
  BY <1>1, <1>3, ReapedStays DEF At
<1>5. Stranded(p) = Reaped(p) \ {c}
  BY <1>1 DEF Stranded
<1>6. LeakOf(p)
  BY <1>1 DEF LeakInv
<1>7. ~Failed(p)'
  BY <1>1 DEF Failed, HasCopy, NoOutput, At
<1>8. CASE proc[p].wants = "id" /\ proc[c].out = None
  <2>1. proc'[p].leaked = proc[p].leaked + 1
    BY <1>8 DEF Reads
  <2>2. Failed(p)
    BY <1>1, <1>2, <1>3, <1>8 DEF Failed, NoOutput
  <2>3. Stranded(p)' \subseteq Stranded(p) \cup {c}
    BY <1>4, <1>5 DEF Stranded
  <2>4. Cardinality(Stranded(p)') <= Cardinality(Stranded(p)) + 1
    BY <2>3, StrandedIs, PidsAreFinite, AtMostOneMore
  <2>5. /\ faults \in Nat /\ proc[p].leaked \in Nat
        /\ Cardinality(Stranded(p)) \in Nat
        /\ Cardinality(Stranded(p)') \in Nat
    BY <1>1, LeakFigures
  <2>6. proc[p].leaked + Cardinality(Stranded(p)) + 2 <= 2 * faults
    BY <1>6, <2>2 DEF LeakOf
  <2>7. proc[p].leaked + 1 + Cardinality(Stranded(p)') <= 2 * faults
    BY <2>4, <2>5, <2>6
  <2>8. QED
    BY <1>1, <1>7, <2>1, <2>5, <2>7 DEF LeakOf
<1>9. CASE ~(proc[p].wants = "id" /\ proc[c].out = None)
  <2>1. /\ proc'[p].leaked = proc[p].leaked /\ proc'[p].pc = "wait"
        /\ proc'[p].child = c
    BY <1>9 DEF Reads, GoesOnAt
  <2>2. Stranded(p)' \subseteq Stranded(p)
    BY <1>4, <1>5, <2>1 DEF Stranded
  <2>3. QED
    BY <1>1, <1>6, <1>7, <2>1, <2>2, LeakStays
<1>10. QED
  BY <1>8, <1>9

LEMMA LeakWaits ==
  ASSUME HostInv, HostInv', LeakInv, NEW p \in Pids, NEW c \in Pids,
         Waits(p, c)
  PROVE  LeakInv'
<1> SUFFICES ASSUME p \in Programs' PROVE LeakOf(p)'
  BY LeakBesides DEF LeakInv
<1>1. /\ OthersStay({p, c}) /\ proc'[p].pc # "zombie" /\ proc'[p].pc # "read"
      /\ proc'[c] = None /\ c \in Reaped(p) /\ p \in Programs
      /\ proc[p].pc = "wait" /\ proc'[p].pc # "wait"
      /\ proc'[p].leaked = proc[p].leaked /\ faults' = faults
  BY DEF Waits, GoesOnAt, NoFault
<1>2. Reaped(p)' \subseteq Reaped(p)
  BY <1>1, ReapedStays DEF At, Alive
<1>3. c \notin Reaped(p)'
  BY <1>1 DEF Reaped, Alive
<1>4. PICK d : d = proc[p].child
  OBVIOUS
<1>5. Stranded(p) = Reaped(p) \ {d}
  BY <1>1, <1>4 DEF Stranded
<1>6. Stranded(p)' \subseteq Reaped(p) \ {c}
  BY <1>1, <1>2, <1>3 DEF Stranded
<1>7. LeakOf(p)
  BY <1>1 DEF LeakInv
<1>8. ~Failed(p)' /\ ~Failed(p)
  BY <1>1 DEF Failed, HasCopy, NoOutput, At
<1>9. Cardinality(Stranded(p)') <= Cardinality(Stranded(p))
  <2>1. IsFiniteSet(Reaped(p)) /\ Cardinality(Reaped(p)) \in Nat
    BY StrandedIs, PidsAreFinite
  <2>2. /\ IsFiniteSet(Reaped(p) \ {c})
        /\ Cardinality(Reaped(p) \ {c}) = Cardinality(Reaped(p)) - 1
    BY <1>1, <2>1, FS_RemoveElement
  <2>3. Cardinality(Stranded(p)) >= Cardinality(Reaped(p)) - 1
    <3>1. Cardinality(Reaped(p) \ {d})
            = IF d \in Reaped(p) THEN Cardinality(Reaped(p)) - 1
                                 ELSE Cardinality(Reaped(p))
      BY <2>1, FS_RemoveElement
    <3>2. QED
      BY <1>5, <2>1, <3>1
  <2>4. Cardinality(Stranded(p)') <= Cardinality(Reaped(p)) - 1
    BY <1>6, <2>2, FewerThan
  <2>5. Cardinality(Stranded(p)) \in Nat /\ Cardinality(Stranded(p)') \in Nat
    BY StrandedIs, PidsAreFinite
  <2>6. QED
    BY <2>1, <2>3, <2>4, <2>5
<1>10. /\ faults \in Nat /\ proc[p].leaked \in Nat
       /\ Cardinality(Stranded(p)) \in Nat
       /\ Cardinality(Stranded(p)') \in Nat
  BY <1>1, LeakFigures
<1>11. QED
  BY <1>1, <1>7, <1>8, <1>9, <1>10 DEF LeakOf

(* A parent that wants the id has a tool that finds the file. *)
LEMMA ToolHasFile ==
  ASSUME HostInv, NEW q \in Pids, At(q, "read"), proc[q].wants = "id",
         NEW c, c = proc[q].child, proc[c].pc = "tool"
  PROVE  proc[c].wants = "id" /\ dir[NameOf(c)] # None
<1>1. Forked(c) /\ ReadsFrom(q, c)
  BY ChildIs DEF Forked, At
<1>2. proc[c].wants = "id" /\ proc[c].req = proc[q].req
  BY <1>1 DEF ReadsFrom
<1>3. NameOf(c) = NameOf(q)
  BY <1>2 DEF NameOf
<1>4. dir[NameOf(q)] \in ContentsOf(q)
  BY <1>1 DEF HostInv, FileInv
<1>5. ContentsOf(q) \subseteq Seq(Octets)
  <2>1. proc[q].req \in DOMAIN sent
    BY DEF HostInv, HandsInv, HandsOf, At
  <2>2. sent[proc[q].req] \in [name: Names, content: Contents]
    BY <2>1, LenProperties, ElementOfSeq DEF HostInv, HostTypeOK
  <2>3. QED
    BY <2>2 DEF ContentsOf, FilesOf, Contents, Octets
<1>6. QED
  BY <1>2, <1>3, <1>4, <1>5, NoneIsNoContent

LEMMA LeakEnds ==
  ASSUME HostInv, HostInv', LeakInv, NEW c \in Pids, NEW k, c \in Alive,
         ToolEnds(c, k) \/ ToolEndsBadly(c, k) \/ Crashes(c, k)
  PROVE  LeakInv'
<1> SUFFICES ASSUME NEW q \in Programs' PROVE LeakOf(q)'
  BY DEF LeakInv
<1>1. Parts(c, k) /\ proc[c].pc \in {"tool", "wait"}
  BY DEF ToolEnds, ToolEndsBadly, Crashes
<1>2. q \in Pids /\ q \in Programs /\ q # c /\ proc'[q] = proc[q]
  BY <1>1, PartsCopies DEF Programs, Alive
<1>3. LeakOf(q)
  BY <1>2 DEF LeakInv
<1>4. \A d \in Pids \ {c} : d \in Alive' => d \in Alive /\ proc'[d] = proc[d]
  BY <1>1 DEF Parts, Alive
<1>5. Stranded(q)' \subseteq Stranded(q)
  <2> SUFFICES ASSUME NEW d \in Stranded(q)' PROVE d \in Stranded(q)
    OBVIOUS
  <2>1. d \in Alive' /\ d \in Pids /\ proc'[d].pc = "zombie" /\ proc'[d].parent = q
    BY DEF Stranded, Reaped, Alive
  <2>2. CASE d # c
    <3>1. d \in Reaped(q)
      BY <1>4, <2>1, <2>2 DEF Reaped
    <3>2. QED
      BY <1>2, <3>1 DEF Stranded
  <2>3. CASE d = c
    <3>1. proc[c].parent = q /\ q # 0
      BY <1>1, <1>2, <2>1, <2>3 DEF Parts, Alive, Pids
    <3>2. At(q, "read") /\ proc[q].child = c
      BY <1>1, <3>1 DEF HostInv, FamilyInv, IsParent
    <3>3. d \notin Stranded(q)'
      BY <1>2, <2>3, <3>2 DEF Stranded, At
    <3>4. QED
      BY <3>3
  <2>4. QED
    BY <2>2, <2>3
<1>6. HasCopy(q)' => HasCopy(q)
  BY <1>1, <1>2, PartsCopies DEF NoNewCopy
<1>7. CASE ToolEndsBadly(c, k)
  BY <1>2, <1>3, <1>5, <1>7, LeakStays DEF ToolEndsBadly
<1>8. CASE ToolEnds(c, k) \/ Crashes(c, k)
  <2>1. ASSUME NoOutput(q)', proc[q].wants = "id" PROVE Failed(q)
    <3>1. PICK d : d = proc[q].child
      OBVIOUS
    <3>2. /\ At(q, "read") /\ d \in Pids /\ d \in Alive'
          /\ proc'[d].pc = "zombie" /\ proc'[d].out = None
      BY <1>2, <2>1, <3>1 DEF NoOutput, At, Programs, Alive
    <3>3. CASE d # c
      BY <1>2, <1>4, <2>1, <3>1, <3>2, <3>3 DEF NoOutput, Failed, At
    <3>4. CASE d = c /\ Crashes(c, k)
      BY <2>1, <3>1, <3>2, <3>4 DEF Crashes, HasCopy, Failed
    <3>5. CASE d = c /\ ToolEnds(c, k)
      <4>1. proc[c].wants = "id" /\ dir[NameOf(c)] # None
        BY <1>2, <2>1, <3>1, <3>2, <3>5, ToolHasFile DEF ToolEnds
      <4>2. k # None /\ k.out = None
        BY <1>1, <3>2, <3>5 DEF Parts, Alive
      <4>3. QED
        BY <3>5, <4>1, <4>2 DEF ToolEnds
    <3>6. QED
      BY <1>8, <3>3, <3>4, <3>5
  <2>2. Failed(q)' => Failed(q)
    BY <1>2, <1>6, <2>1 DEF Failed
  <2>3. faults' = faults
    BY <1>8 DEF ToolEnds, Crashes, NoFault
  <2>4. QED
    BY <1>2, <1>3, <1>5, <2>2, <2>3, LeakStays
<1>9. QED
  BY <1>7, <1>8

LEMMA LeakAnew ==
  ASSUME HostInv, HostInv', NEW n \in Pids, StartsAnew(n)
  PROVE  LeakInv'
<1> SUFFICES ASSUME n \in Programs' PROVE LeakOf(n)'
  BY AnewCopies DEF LeakInv, Programs, Alive
<1>1. proc'[n].leaked = 0 /\ proc'[n].parent = 0
  <2>1. proc'[n] = Fresh
    BY DEF StartsAnew
  <2>2. Fresh.leaked = 0
    BY DEF Fresh
  <2>3. QED
    BY <2>1, <2>2, FreshIs
<1>2. n # 0
  BY DEF Pids
<1>3. Reaped(n)' = {}
  BY <1>1, <1>2 DEF StartsAnew, Reaped, Alive
<1>4. ~Failed(n)'
  BY AnewCopies DEF Failed, HasCopy, NoOutput
<1>5. Stranded(n)' = {}
  BY <1>3 DEF Stranded
<1>6. Cardinality(Stranded(n)') = 0 /\ faults' \in Nat
  BY <1>5, FS_EmptySet, LeakFigures
<1>7. proc'[n].leaked + Cardinality(Stranded(n)') + 0 <= 2 * faults'
  <2>1. \A f \in Nat : 0 + 0 + 0 <= 2 * f
    OBVIOUS
  <2>2. 0 + 0 + 0 <= 2 * faults'
    BY <1>6, <2>1, Zenon
  <2>3. QED
    BY <1>1, <1>6, <2>2, Zenon
<1>8. QED
  BY <1>4, <1>7 DEF LeakOf

LEMMA LeakKeeps ==
  ASSUME HostInv, HostInv', LeakInv, HostMoves
  PROVE  LeakInv'
<1>1. ASSUME NEW p \in Pids, OneProgram(p) PROVE LeakInv'
  BY <1>1, LeakOneProgram
<1>2. ASSUME NEW p \in Pids, NEW c \in Pids,
             Forks(p, c) \/ Reads(p, c) \/ Waits(p, c)
      PROVE  LeakInv'
  BY <1>2, LeakForks, LeakReads, LeakWaits
<1>3. ASSUME NEW c \in Pids, NEW k \in Processes \cup {None},
             ToolEnds(c, k) \/ ToolEndsBadly(c, k) \/ Crashes(c, k)
      PROVE  LeakInv'
  <2>1. c \in Alive
    BY <1>3 DEF ToolEnds, ToolEndsBadly, Crashes, Programs
  <2>2. QED
    BY <1>3, <2>1, LeakEnds
<1>4. ASSUME NEW n \in Pids, StartsAnew(n) PROVE LeakInv'
  BY <1>4, LeakAnew
<1>5. CASE UNCHANGED hostVars
  BY <1>5 DEF hostVars, LeakInv, LeakOf, Stranded, Reaped, Failed, HasCopy,
     NoOutput, Programs, Alive, At
<1>6. QED
  BY <1>1, <1>2, <1>3, <1>4, <1>5 DEF HostMoves

-----------------------------------------------------------------------------
(* Local files *)

(* A program that saved a file and is still to remove it, unless a call    *)
(* fails: also the copy that its parent made to store the file, while the  *)
(* parent has that for it.                                                 *)
Holds(p) ==
  /\ p \in Programs
  /\ \/ proc[p].pc = "unlink"
     \/ /\ proc[p].wants = "id"
        /\ \/ proc[p].pc \in {"fork", "exec", "wait"}
           \/ /\ proc[p].pc = "read"
              /\ \/ At(proc[p].child, "tool")
                 \/ /\ At(proc[p].child, "zombie")
                    /\ proc[proc[p].child].out # None

Kept      == {n \in Names : dir[n] # None}
HeldNames == {NameOf(p) : p \in {q \in Pids : Holds(q)}}
KeptInv   == IsFiniteSet(Kept) /\ Cardinality(Kept \ HeldNames) <= faults

LEMMA HoldsServes ==
  ASSUME HostInv, NEW p \in Pids, NEW q \in Pids, Holds(p), Serving(q)
  PROVE  p = q
<1>1. Serving(p)
  BY DEF Holds, Serving, WaitsForCopy, At, Programs, Serves
<1>2. QED
  BY <1>1 DEF HostInv, ServesInv

LEMMA NameStays ==
  ASSUME HostInv, sent' = sent, NEW p, NEW q, proc'[q].req = proc[p].req
  PROVE  NameOf(q)' = NameOf(p)
BY DEF NameOf

(* What becomes of the one that holds a file *)
Passes(q) ==
  \/ \E t \in Pids : Holds(t)' /\ NameOf(t)' = NameOf(q)
  \/ faults' = faults + 1 /\ dir' = dir
  \/ Unlinks(q)

LEMMA HoldsOneProgram ==
  ASSUME HostInv, UrlInv, NEW p \in Pids, OneProgram(p),
         NEW q \in Pids, Holds(q)
  PROVE  Passes(q)
<1>1. /\ p \in Programs /\ proc[p].pc # "read" /\ OthersStay({p})
      /\ Alive' = Alive
  BY OneProgramIs
<1>2. p = q
  BY <1>1, HoldsServes DEF Serving, WaitsForCopy, At
<1>3. proc[p].pc \in {"unlink", "fork", "exec"}
  <2>1. proc[p].pc # "wait"
    BY DEF OneProgram, Accepts, Saves, Execs, GoesOnAsCopy, Unlinks,
       Inserts, GivesUp, Answers
  <2>2. QED
    BY <1>1, <1>2, <2>1 DEF Holds
<1>4. CASE Unlinks(p)
  BY <1>2, <1>4 DEF Passes
<1>5. CASE GoesOnAsCopy(p) \/ GivesUp(p)
  BY <1>5 DEF GoesOnAsCopy, GivesUp, Passes
<1>6. CASE Execs(p)
  <2>1. proc[p].pc = "exec" /\ proc[p].wants = "id" /\ sent' = sent
    BY <1>2, <1>6 DEF Execs, Holds
  <2>2. proc[p].parent # 0
    BY <1>1, <2>1 DEF UrlInv, UrlOf
  <2>3. PICK t : t = proc[p].parent
    OBVIOUS
  <2>4. t \in Programs /\ At(t, "read") /\ proc[t].child = p /\ t # p
    BY <1>1, <2>1, <2>2, <2>3 DEF HostInv, FamilyInv, IsParent, Programs
  <2>5. t \in Pids /\ proc'[t] = proc[t] /\ t \in Programs'
    BY <1>1, <2>4 DEF Programs, Alive, OthersStay
  <2>6. proc[t].req = proc[p].req /\ proc[t].wants = "id"
    BY <2>1, <2>4, <2>5, ChildIs DEF ReadsFrom, Forked, At
  <2>7. At(p, "tool")'
    BY <1>1, <1>6 DEF Execs, GoesOnAt, At, Programs
  <2>8. Holds(t)'
    BY <2>4, <2>5, <2>6, <2>7 DEF Holds, At
  <2>9. NameOf(t)' = NameOf(p)
    BY <2>1, <2>5, <2>6, NameStays
  <2>10. QED
    BY <1>2, <2>5, <2>8, <2>9 DEF Passes
<1>7. QED
  BY <1>3, <1>4, <1>5, <1>6 DEF OneProgram, Accepts, Saves, Inserts, Answers

LEMMA HoldsForks ==
  ASSUME HostInv, NEW p \in Pids, NEW c \in Pids, Forks(p, c),
         NEW q \in Pids, Holds(q)
  PROVE  Passes(q)
<1>1. /\ p \in Programs /\ proc[p].pc = "fork" /\ sent' = sent
      /\ proc'[c] # None /\ proc'[c].pc = "exec" /\ SameUpload(c, p)
  BY DEF Forks, GoesOnAt
<1>2. q = p
  BY <1>1, HoldsServes DEF Serving, WaitsForCopy, At
<1>3. c \in Programs'
  BY <1>1 DEF Programs, Alive, Serves
<1>4. Holds(c)'
  BY <1>1, <1>2, <1>3 DEF Holds, SameUpload
<1>5. NameOf(c)' = NameOf(p)
  BY <1>1, NameStays DEF SameUpload
<1>6. QED
  BY <1>2, <1>4, <1>5 DEF Passes

LEMMA HoldsReads ==
  ASSUME HostInv, NEW p \in Pids, NEW c \in Pids, Reads(p, c) \/ Waits(p, c),
         NEW q \in Pids, Holds(q)
  PROVE  Passes(q)
<1>1. /\ p \in Programs /\ sent' = sent
      /\ proc'[p].req = proc[p].req /\ proc'[p].wants = proc[p].wants
      /\ proc'[p] # None /\ proc'[p].pc \in Serves
  BY DEF Reads, Waits, GoesOnAt, SameUpload, Serves
<1>2. ~WaitsForCopy(p)
  BY DEF Reads, Waits, WaitsForCopy, At, Programs, Serves
<1>3. q = p
  BY <1>1, <1>2, HoldsServes DEF Serving
<1>4. proc[p].wants = "id"
  BY <1>3 DEF Reads, Waits, Holds
<1>5. proc'[p].pc \in {"wait", "unlink"}
  <2>1. CASE Waits(p, c)
    BY <1>4, <2>1 DEF Waits, GoesOnAt
  <2>2. CASE Reads(p, c)
    <3>1. proc[c].out # None
      BY <1>3, <2>2 DEF Reads, Holds, At
    <3>2. QED
      BY <2>2, <3>1 DEF Reads, GoesOnAt
  <2>3. QED
    BY <2>1, <2>2
<1>6. p \in Programs'
  BY <1>1 DEF Programs, Alive
<1>7. Holds(p)'
  BY <1>1, <1>4, <1>5, <1>6 DEF Holds
<1>8. NameOf(p)' = NameOf(p)
  BY <1>1, NameStays
<1>9. QED
  BY <1>3, <1>7, <1>8 DEF Passes

LEMMA HoldsEnds ==
  ASSUME HostInv, NEW c \in Pids, NEW k, c \in Alive,
         ToolEnds(c, k) \/ ToolEndsBadly(c, k) \/ Crashes(c, k),
         NEW q \in Pids, Holds(q)
  PROVE  Passes(q)
<1>1. CASE ToolEndsBadly(c, k)
  BY <1>1 DEF ToolEndsBadly, Passes
<1>2. CASE Crashes(c, k)
  <2>1. Serving(c)
    BY <1>2 DEF Crashes, Serving, WaitsForCopy, At
  <2>2. q = c
    BY <2>1, HoldsServes
  <2>3. QED
    BY <1>2, <2>2 DEF Crashes, Holds
<1>3. CASE ToolEnds(c, k)
  <2>1. /\ Parts(c, k) /\ proc[c].pc = "tool" /\ sent' = sent
        /\ q \in Programs /\ q # c
    BY <1>3 DEF ToolEnds, Holds, Programs, Serves
  <2>2. proc'[q] = proc[q] /\ q \in Programs'
    BY <2>1 DEF Parts, Programs, Alive, At, Serves
  <2>3. PICK d : d = proc[q].child
    OBVIOUS
  <2>4. ASSUME proc[q].pc # "read" \/ proc[q].wants # "id" PROVE Holds(q)'
    BY <2>2, <2>4 DEF Holds
  <2>5. ASSUME proc[q].pc = "read", proc[q].wants = "id" PROVE Holds(q)'
    <3>1. At(q, "read") /\ proc[d].parent = q /\ d \in Pids
      BY <2>1, <2>3, <2>5, ChildIs DEF At, Programs
    <3>2. CASE d = c
      <4>1. k # None
        BY <2>1, <3>1, <3>2 DEF Parts, Pids
      <4>2. k.out # None
        BY <1>3, <2>1, <2>3, <2>5, <3>1, <3>2, <4>1, ToolHasFile DEF ToolEnds
      <4>3. At(c, "zombie")' /\ proc'[c].out # None
        BY <2>1, <4>1, <4>2 DEF Parts, At, Alive
      <4>4. QED
        BY <2>2, <2>3, <2>5, <3>2, <4>3 DEF Holds
    <3>3. CASE d # c
      <4>1. proc'[d] = proc[d]
        BY <2>1, <3>1, <3>3 DEF Parts
      <4>2. QED
        BY <2>2, <2>3, <2>5, <4>1 DEF Holds, At, Alive
    <3>4. QED
      BY <3>2, <3>3
  <2>6. Holds(q)'
    BY <2>4, <2>5
  <2>7. NameOf(q)' = NameOf(q)
    BY <2>1, <2>2, NameStays
  <2>8. QED
    BY <2>6, <2>7 DEF Passes
<1>4. QED
  BY <1>1, <1>2, <1>3

LEMMA HoldsStep ==
  ASSUME HostInv, UrlInv, HostMoves, NEW q \in Pids, Holds(q)
  PROVE  Passes(q)
<1>1. ASSUME NEW p \in Pids, OneProgram(p) PROVE Passes(q)
  BY <1>1, HoldsOneProgram
<1>2. ASSUME NEW p \in Pids, NEW c \in Pids,
             Forks(p, c) \/ Reads(p, c) \/ Waits(p, c)
      PROVE  Passes(q)
  BY <1>2, HoldsForks, HoldsReads
<1>3. ASSUME NEW c \in Pids, NEW k \in Processes \cup {None},
             ToolEnds(c, k) \/ ToolEndsBadly(c, k) \/ Crashes(c, k)
      PROVE  Passes(q)
  <2>1. c \in Alive
    BY <1>3 DEF ToolEnds, ToolEndsBadly, Crashes, Programs
  <2>2. QED
    BY <1>3, <2>1, HoldsEnds
<1>4. ASSUME NEW n \in Pids, StartsAnew(n) PROVE Passes(q)
  BY <1>4 DEF StartsAnew, Passes, Holds
<1>5. CASE UNCHANGED hostVars
  <2>1. Holds(q)' /\ NameOf(q)' = NameOf(q)
    BY <1>5 DEF hostVars, Holds, Programs, Alive, At, NameOf
  <2>2. QED
    BY <2>1 DEF Passes
<1>6. QED
  BY <1>1, <1>2, <1>3, <1>4, <1>5 DEF HostMoves

LEMMA FaultsGrow ==
  ASSUME HostInv, HostMoves
  PROVE  faults' \in {faults, faults + 1}
<1>1. ASSUME NEW p \in Pids, OneProgram(p)
      PROVE  faults' \in {faults, faults + 1}
  BY <1>1 DEF OneProgram, Accepts, Saves, Execs, GoesOnAsCopy, Unlinks,
     Inserts, GivesUp, Answers, NoFault
<1>2. ASSUME NEW p \in Pids, NEW c \in Pids,
             Forks(p, c) \/ Reads(p, c) \/ Waits(p, c)
      PROVE  faults' = faults
  BY <1>2 DEF Forks, Reads, Waits, NoFault
<1>3. ASSUME NEW c \in Pids, NEW k \in Processes \cup {None},
             ToolEnds(c, k) \/ ToolEndsBadly(c, k) \/ Crashes(c, k)
      PROVE  faults' \in {faults, faults + 1}
  BY <1>3 DEF ToolEnds, ToolEndsBadly, Crashes, NoFault
<1>4. ASSUME NEW n \in Pids, StartsAnew(n)
      PROVE  faults' \in {faults, faults + 1}
  BY <1>4 DEF StartsAnew
<1>5. QED
  BY <1>1, <1>2, <1>3, <1>4 DEF HostMoves, hostVars

(* A file appears only when a program saves it, and that one holds it.     *)
LEMMA KeptStep ==
  ASSUME HostInv, HostMoves, NEW n \in Kept', n \notin Kept
  PROVE  \E p \in Pids : Saves(p) /\ n = NameOf(p) /\ n \in HeldNames'
<1>1. n \in Names /\ dir'[n] # None /\ dir[n] = None
  BY DEF Kept
<1>2. ASSUME NEW p \in Pids, Unlinks(p) PROVE FALSE
  <2>1. dir' = [dir EXCEPT ![NameOf(p)] = None]
    BY <1>2 DEF Unlinks
  <2>2. dir \in [Names -> Seq(Octets) \cup {None}]
    BY DEF HostInv, HostTypeOK
  <2>3. QED
    BY <1>1, <2>1, <2>2
<1>3. PICK p \in Pids : Saves(p)
  <2>1. ASSUME NEW p \in Pids, OneProgram(p), ~Saves(p), ~Unlinks(p)
        PROVE  dir' = dir
    BY <2>1 DEF OneProgram, Accepts, Execs, GoesOnAsCopy, Inserts, GivesUp,
       Answers
  <2>2. ASSUME NEW p \in Pids, NEW c \in Pids,
               Forks(p, c) \/ Reads(p, c) \/ Waits(p, c)
        PROVE  dir' = dir
    BY <2>2 DEF Forks, Reads, Waits
  <2>3. ASSUME NEW c \in Pids, NEW k \in Processes \cup {None},
               ToolEnds(c, k) \/ ToolEndsBadly(c, k) \/ Crashes(c, k)
        PROVE  dir' = dir
    BY <2>3 DEF ToolEnds, ToolEndsBadly, Crashes
  <2>4. ASSUME NEW m \in Pids, StartsAnew(m) PROVE dir' = dir
    BY <2>4 DEF StartsAnew
  <2>5. QED
    BY <1>1, <1>2, <2>1, <2>2, <2>3, <2>4 DEF HostMoves, hostVars
<1>4. n = NameOf(p)
  BY <1>1, <1>3 DEF Saves
<1>5. p \in Programs' /\ proc'[p].pc = "fork" /\ SameUpload(p, p) /\ sent' = sent
  BY <1>3, OneProgramIs DEF Saves, GoesOnAt, Programs, Alive, Serves, OneProgram
<1>6. proc[p].wants = "id"
  BY <1>3 DEF Saves, GoesOnAt, HostInv, HandsInv, HandsOf, Programs, Serves,
     Alive
<1>7. Holds(p)' /\ NameOf(p)' = NameOf(p)
  BY <1>5, <1>6, NameStays DEF Holds, SameUpload
<1>8. QED
  BY <1>3, <1>4, <1>7 DEF HeldNames

LEMMA KeptKeeps ==
  ASSUME HostInv, UrlInv, KeptInv, HostInv', HostMoves
  PROVE  KeptInv'
<1>1. faults \in Nat /\ faults' \in Nat
  BY BoundsAreNat DEF HostInv, HostTypeOK
<1>2. IsFiniteSet(Kept \ HeldNames) /\ Cardinality(Kept \ HeldNames) \in Nat
  BY FS_Difference, FS_CardinalityType DEF KeptInv
<1>3. IsFiniteSet(Kept')
  <2>1. CASE \E p \in Pids : Saves(p)
    <3>1. PICK p \in Pids : Saves(p)
      BY <2>1
    <3>2. Kept' \subseteq Kept \cup {NameOf(p)}
      BY <3>1 DEF Kept, Saves
    <3>3. QED
      BY <3>2, FS_AddElement, FS_Subset DEF KeptInv
  <2>2. CASE \A p \in Pids : ~Saves(p)
    <3>1. Kept' \subseteq Kept
      BY <2>2, KeptStep
    <3>2. QED
      BY <3>1, FS_Subset DEF KeptInv
  <2>3. QED
    BY <2>1, <2>2
<1>4. Cardinality(Kept' \ HeldNames') \in Nat
  BY <1>3, FS_Difference, FS_CardinalityType
<1>5. ASSUME NEW n \in Kept' \ HeldNames', n \notin Kept \ HeldNames
      PROVE  \E q \in Pids : Holds(q) /\ n = NameOf(q) /\ faults' = faults + 1
  <2>1. n \in HeldNames
    BY <1>5, KeptStep
  <2>2. PICK q \in Pids : Holds(q) /\ n = NameOf(q)
    BY <2>1 DEF HeldNames
  <2>3. Passes(q)
    BY <2>2, HoldsStep
  <2>4. ~ \E t \in Pids : Holds(t)' /\ NameOf(t)' = NameOf(q)
    BY <1>5, <2>2 DEF HeldNames
  <2>5. ~Unlinks(q)
    <3>1. dir \in [Names -> Seq(Octets) \cup {None}]
      BY DEF HostInv, HostTypeOK
    <3>2. n \in Names /\ dir'[n] # None
      BY DEF Kept
    <3>3. QED
      BY <2>2, <3>1, <3>2 DEF Unlinks
  <2>6. QED
    BY <2>2, <2>3, <2>4, <2>5 DEF Passes
<1>6. CASE Kept' \ HeldNames' \subseteq Kept \ HeldNames
  <2>1. Cardinality(Kept' \ HeldNames') <= Cardinality(Kept \ HeldNames)
    BY <1>2, <1>6, FewerThan
  <2>2. Cardinality(Kept \ HeldNames) <= faults
    BY DEF KeptInv
  <2>3. Cardinality(Kept' \ HeldNames') <= faults'
    BY <1>1, <1>2, <1>4, <2>1, <2>2, FaultsGrow
  <2>4. QED
    BY <1>3, <2>3 DEF KeptInv
<1>7. CASE ~(Kept' \ HeldNames' \subseteq Kept \ HeldNames)
  <2>1. PICK q \in Pids : Holds(q) /\ faults' = faults + 1
    BY <1>5, <1>7
  <2>2. Serving(q)
    BY <2>1 DEF Holds, Serving, WaitsForCopy, At, Programs, Serves
  <2>3. \A t \in Pids : Holds(t) => t = q
    BY <2>2, HoldsServes
  <2>4. Kept' \ HeldNames' \subseteq (Kept \ HeldNames) \cup {NameOf(q)}
    BY <1>5, <2>3
  <2>5. Cardinality(Kept' \ HeldNames') <= Cardinality(Kept \ HeldNames) + 1
    BY <1>2, <2>4, AtMostOneMore
  <2>6. Cardinality(Kept \ HeldNames) <= faults
    BY DEF KeptInv
  <2>7. Cardinality(Kept' \ HeldNames') <= faults'
    BY <1>1, <1>2, <1>4, <2>1, <2>5, <2>6
  <2>8. QED
    BY <1>3, <2>7 DEF KeptInv
<1>8. QED
  BY <1>6, <1>7

LEMMA LeftIsBounded ==
  ASSUME HostInv, LeakInv, KeptInv
  PROVE  LeftWithinFaults
<1>1. faults \in Nat
  BY BoundsAreNat DEF HostInv, HostTypeOK
<1>2. ASSUME NEW p \in Programs
      PROVE  proc[p].leaked + Cardinality(Reaped(p) \ {proc[p].child})
               <= 2 * faults
  <2> DEFINE S == Reaped(p) \ {proc[p].child}
  <2>1. S \subseteq Stranded(p)
    BY DEF Stranded
  <2>2. S \in SUBSET Pids
    BY StrandedIs
  <2> HIDE DEF S
  <2>3. /\ Cardinality(S) <= Cardinality(Stranded(p)) /\ Cardinality(S) \in Nat
        /\ Cardinality(Stranded(p)) \in Nat
    BY <2>1, <2>2, StrandedIs, PidsAreFinite, FewerThan
  <2>4. proc[p].leaked \in Nat
    BY ProcTyped DEF HostInv, Programs, Processes
  <2>5. LeakOf(p)
    BY DEF LeakInv
  <2>6. proc[p].leaked + Cardinality(Stranded(p)) <= 2 * faults
    BY <1>1, <2>3, <2>4, <2>5 DEF LeakOf
  <2>7. proc[p].leaked + Cardinality(S) <= 2 * faults
    BY <1>1, <2>3, <2>4, <2>6
  <2>8. QED
    BY <2>7 DEF S
<1>3. ASSUME \A p \in Programs : proc[p].req = 0
      PROVE  Cardinality({n \in Names : dir[n] # None}) <= faults
  <2>1. ASSUME NEW p \in Pids, Holds(p) PROVE FALSE
    <3>1. p \in Programs /\ proc[p].pc # "accept" /\ HandsOf(p)
      BY <2>1 DEF Holds, HostInv, HandsInv, Programs, Alive, Serves
    <3>2. proc[p].req \in DOMAIN sent
      BY <3>1 DEF HandsOf
    <3>3. 0 \notin DOMAIN sent
      BY LenProperties DEF HostInv, HostTypeOK
    <3>4. QED
      BY <1>3, <3>1, <3>2, <3>3
  <2>2. Kept \ HeldNames = Kept
    BY <2>1 DEF HeldNames
  <2>3. QED
    BY <2>2 DEF KeptInv, Kept
<1>4. QED
  BY <1>2, <1>3 DEF LeftWithinFaults

LEMMA InitLeavesNothing ==
  ASSUME HostInit
  PROVE  LeakInv /\ KeptInv
<1>1. \A p \in Pids : proc[p] = Fresh \/ proc[p] = None
  BY DEF HostInit
<1>2. Fresh.leaked = 0 /\ Fresh.pc = "accept"
  BY DEF Fresh
<1>3. ASSUME NEW p \in Programs PROVE LeakOf(p)
  <2>1. proc[p] = Fresh
    BY <1>1 DEF Programs, Alive
  <2>2. Reaped(p) = {}
    BY <1>1, <1>2 DEF Reaped, Alive
  <2>3. Stranded(p) = {}
    BY <2>2 DEF Stranded
  <2>4. Cardinality(Stranded(p)) = 0 /\ ~Failed(p)
    BY <1>2, <2>1, <2>3, FS_EmptySet DEF Failed, HasCopy, NoOutput, At
  <2>5. faults = 0
    BY DEF HostInit
  <2>6. QED
    BY <1>2, <2>1, <2>4, <2>5 DEF LeakOf
<1>4. Kept = {}
  BY DEF Kept, HostInit
<1>5. Kept \ HeldNames = {}
  BY <1>4
<1>6. KeptInv
  BY <1>4, <1>5, FS_EmptySet DEF KeptInv, HostInit
<1>7. QED
  BY <1>3, <1>6 DEF LeakInv

(* What failed uploads leave behind is bounded by what failed.             *)
THEOREM LeftStaysWithinFaults == HostSpec => []LeftWithinFaults
<1>1. HostInit => UrlInv /\ LeakInv /\ KeptInv
  BY InitLacksNothing, InitLeavesNothing
<1>2. HostInv /\ UrlInv /\ LeakInv /\ KeptInv /\ HostInv'
        /\ [HostNext]_hostVars
        => UrlInv' /\ LeakInv' /\ KeptInv'
  BY HostDoes, UrlKeeps, LeakKeeps, KeptKeeps
<1>3. HostInv /\ LeakInv /\ KeptInv => LeftWithinFaults
  BY LeftIsBounded
<1>4. QED
  BY <1>1, <1>2, <1>3, HostInvAlways, PTL DEF HostSpec

-----------------------------------------------------------------------------
(* Second answers *)

(* A program that will crash when it has waited for the tool of the url *)
Doomed(p) ==
  /\ proc[p].wants = "url"
  /\ HasCopy(p) \/ NoOutput(p) \/ (At(p, "wait") /\ ~proc[p].url)

(* Whoever goes on with an upload besides the one that wanted the id has   *)
(* no id, or will crash.                                                   *)
CopyInv ==
  \A q \in Programs : HasCopy(q) /\ proc[q].wants = "id" =>
    \A p \in Programs \ {q} :
      proc[p].req = proc[q].req => Idless(p) \/ Doomed(p)

(* Besides an execlp for the id, one for the url failed in the upload, or  *)
(* something else failed.                                                  *)
AlsoFailed(r) == faults > execFails \/ NoUrl(r)

IdlessInv ==
  \A p \in Programs :
    Idless(p) /\ proc[p].pc = "reply" => AlsoFailed(proc[p].req)

LEMMA CountsGrow ==
  ASSUME HostInv, HostMoves
  PROVE  /\ faults \in Nat /\ execFails \in Nat /\ execFails <= faults
         /\ \/ faults' = faults     /\ execFails' = execFails
            \/ faults' = faults + 1 /\ execFails' = execFails
            \/ faults' = faults + 1 /\ execFails' = execFails + 1
<1>1. faults \in Nat /\ execFails \in Nat /\ execFails <= faults
  BY BoundsAreNat DEF HostInv, HostTypeOK
<1>2. CASE execFails' = execFails
  BY <1>1, <1>2, FaultsGrow
<1>3. CASE \E p \in Pids : GoesOnAsCopy(p)
  BY <1>1, <1>3 DEF GoesOnAsCopy
<1>4. QED
  BY <1>2, <1>3, ExecFailsCounts

(* A program that a step leaves alone, and whose child is not the one that *)
(* goes on as a copy, is as doomed as before.                              *)
LEMMA CopyOrNothingStays ==
  ASSUME HostInv, HostMoves, NEW q \in Programs, q \in Programs',
         proc'[q] = proc[q]
  PROVE  /\ NoOutput(q) => NoOutput(q)'
         /\ HasCopy(q) => HasCopy(q)' \/ NoOutput(q)'
         /\ HasCopy(q) /\ ~HasCopy(q)' =>
              \E k \in Processes \cup {None} : Crashes(proc[q].child, k)
<1> SUFFICES ASSUME At(q, "read")
             PROVE  /\ NoOutput(q) => NoOutput(q)'
                    /\ HasCopy(q) => HasCopy(q)' \/ NoOutput(q)'
                    /\ HasCopy(q) /\ ~HasCopy(q)' =>
                         \E k \in Processes \cup {None} :
                           Crashes(proc[q].child, k)
  BY DEF NoOutput, HasCopy
<1> q \in Pids /\ At(q, "read")'
  BY DEF Programs, Alive, At
<1>1. PICK d : d = proc[q].child
  OBVIOUS
<1>2. d \in Pids /\ d \in Alive /\ proc[d].parent = q
  BY <1>1, ChildIs
<1>3. CASE proc'[d] = proc[d]
  BY <1>1, <1>2, <1>3 DEF NoOutput, HasCopy, At, Programs, Alive
<1>4. CASE d \in Programs /\ proc[d].pc # "exec" /\ d \in Programs'
             /\ proc'[d].pc # "exec"
  BY <1>1, <1>4 DEF NoOutput, HasCopy, At, Programs, Serves
<1>5. CASE d \in Programs /\ proc[d].pc = "exec"
  BY <1>1, <1>5 DEF NoOutput, HasCopy, At, Programs, Serves
<1>6. ASSUME NEW p \in Pids, OneProgram(p)
      PROVE  \/ proc'[d] = proc[d]
             \/ d \in Programs /\ proc[d].pc = "exec"
             \/ /\ d \in Programs /\ proc[d].pc # "exec" /\ d \in Programs'
                /\ proc'[d].pc # "exec"
  <2>1. CASE d # p
    BY <1>2, <1>6, <2>1, OneProgramIs DEF OthersStay
  <2>2. CASE d = p
    <3>1. proc'[p].pc = "tool" => proc[p].pc = "exec"
      BY <1>6 DEF OneProgram, Accepts, Saves, Execs, GoesOnAsCopy, Unlinks,
         Inserts, GivesUp, Answers, GoesOnAt
    <3>2. p \in Programs /\ proc'[p].pc # "exec"
      BY <1>6, OneProgramIs DEF Serves
    <3>3. QED
      BY <1>6, <2>2, <3>1, <3>2, OneProgramPrograms
  <2>3. QED
    BY <2>1, <2>2
<1>7. ASSUME NEW p \in Pids, NEW c \in Pids,
             Forks(p, c) \/ Reads(p, c) \/ Waits(p, c)
      PROVE  \/ proc'[d] = proc[d]
             \/ /\ d \in Programs /\ proc[d].pc # "exec" /\ d \in Programs'
                /\ proc'[d].pc # "exec"
  <2>1. d # c
    <3>1. Forks(p, c) => c \notin Alive
      BY DEF Forks, Free
    <3>2. Reads(p, c) \/ Waits(p, c) => proc[c].parent = p /\ proc'[p] # proc[p]
      BY DEF Reads, Waits, Reaped, GoesOnAt
    <3>3. QED
      BY <1>2, <1>7, <3>1, <3>2
  <2>2. CASE d # p
    BY <1>2, <1>7, <2>1, <2>2 DEF Forks, Reads, Waits, OthersStay
  <2>3. CASE d = p
    <3>1. /\ p \in Programs /\ proc[p].pc # "exec" /\ proc'[p] # None
          /\ proc'[p].pc \in Serves \ {"exec"}
      BY <1>7 DEF Forks, Reads, Waits, GoesOnAt, Serves
    <3>2. QED
      BY <2>3, <3>1 DEF Programs, Alive
  <2>4. QED
    BY <2>2, <2>3
<1>8. ASSUME NEW c \in Pids, NEW k \in Processes \cup {None},
             ToolEnds(c, k) \/ ToolEndsBadly(c, k) \/ Crashes(c, k)
      PROVE  /\ NoOutput(q) => NoOutput(q)'
             /\ HasCopy(q) => HasCopy(q)' \/ NoOutput(q)'
             /\ HasCopy(q) /\ ~HasCopy(q)' =>
                  \E l \in Processes \cup {None} : Crashes(d, l)
  <2>1. Parts(c, k)
    BY <1>8 DEF ToolEnds, ToolEndsBadly, Crashes
  <2>2. CASE d # c
    <3>1. q # c
      BY <2>1 DEF Parts, Programs, Alive, Serves
    <3>2. proc'[d] = proc[d]
      BY <1>2, <2>1, <2>2, <3>1 DEF Parts
    <3>3. QED
      BY <1>1, <1>2, <3>2 DEF NoOutput, HasCopy, At, Programs, Alive
  <2>3. CASE d = c
    <3>1. ~NoOutput(q)
      BY <1>1, <1>8, <2>3 DEF NoOutput, At, ToolEnds, ToolEndsBadly, Crashes
    <3>2. HasCopy(q) => Crashes(c, k)
      BY <1>1, <1>8, <2>3 DEF HasCopy, ToolEnds, ToolEndsBadly, Programs,
         Serves
    <3>3. k # None
      BY <1>2, <2>1, <2>3 DEF Parts, Pids
    <3>4. Crashes(c, k) => NoOutput(q)'
      BY <1>1, <2>1, <2>3, <3>3 DEF Crashes, Parts, NoOutput, At, Alive
    <3>5. QED
      BY <2>3, <3>1, <3>2, <3>4
  <2>4. QED
    BY <2>2, <2>3
<1>9. ASSUME NEW n \in Pids, StartsAnew(n) PROVE FALSE
  BY <1>9, AnewCopies
<1>10. CASE UNCHANGED hostVars
  BY <1>3, <1>10 DEF hostVars
<1>11. QED
  BY <1>1, <1>3, <1>4, <1>5, <1>6, <1>7, <1>8, <1>9, <1>10 DEF HostMoves

LEMMA DoomedStays ==
  ASSUME HostInv, HostMoves, NEW q \in Programs, q \in Programs',
         proc'[q] = proc[q], Doomed(q)
  PROVE  Doomed(q)'
<1>1. At(q, "wait") => At(q, "wait")'
  BY DEF At, Programs
<1>2. QED
  BY <1>1, CopyOrNothingStays DEF Doomed

(* A program that reads or waits although it is doomed: it waits then. *)
LEMMA DoomedReads ==
  ASSUME HostInv, NEW p \in Pids, NEW c \in Pids, Reads(p, c) \/ Waits(p, c),
         Doomed(p)
  PROVE  Doomed(p)'
<1>1. CASE Waits(p, c)
  BY <1>1 DEF Waits, Doomed, HasCopy, NoOutput, At
<1>2. CASE Reads(p, c)
  <2>1. ~HasCopy(p)
    BY <1>2 DEF Reads, HasCopy, Programs, Serves
  <2>2. proc[c].out = None /\ proc[p].wants = "url"
    BY <1>2, <2>1 DEF Reads, Doomed, NoOutput, At
  <2>3. /\ proc'[p].wants = "url" /\ proc'[p].pc = "wait" /\ ~proc'[p].url
        /\ proc'[p] # None
    BY <1>2, <2>2 DEF Reads, GoesOnAt
  <2>4. p \in Alive'
    BY <2>3 DEF Alive
  <2>5. QED
    BY <2>3, <2>4 DEF Doomed, At
<1>3. QED
  BY <1>1, <1>2

LEMMA AlsoFailedStays ==
  ASSUME HostInv, HostMoves, NEW r, AlsoFailed(r)
  PROVE  AlsoFailed(r)'
<1>1. CASE faults > execFails
  <2>1. faults' > execFails'
    BY <1>1, CountsGrow
  <2>2. QED
    BY <2>1 DEF AlsoFailed
<1>2. ASSUME NEW i \in DOMAIN rows, rows[i].req = r, ~rows[i].url
      PROVE  NoUrl(r)'
  <2>1. CASE rows' = rows
    BY <1>2, <2>1 DEF NoUrl
  <2>2. ASSUME NEW p \in Pids, Inserts(p) PROVE NoUrl(r)'
    <3>1. i \in DOMAIN rows' /\ rows'[i] = rows[i]
      BY <2>2, RowAppended
    <3>2. QED
      BY <1>2, <3>1 DEF NoUrl
  <2>3. QED
    BY <2>1, <2>2, RowsGrow
<1>3. ASSUME NEW q \in Programs, proc[q].req = r, NoUrlIn(q)
      PROVE  AlsoFailed(r)'
  <2>1. q \in Pids /\ proc[q].pc = "insert" /\ ~proc[q].url
    BY <1>3 DEF Programs, Alive, NoUrlIn
  <2>2. CASE q \in Programs' /\ proc'[q] = proc[q]
    BY <1>3, <2>2 DEF AlsoFailed, NoUrl, NoUrlIn
  <2>3. CASE faults' = faults + 1 /\ execFails' = execFails
    <3>1. faults' > execFails'
      BY <2>3, CountsGrow
    <3>2. QED
      BY <3>1 DEF AlsoFailed
  <2>4. ASSUME NEW p \in Pids, OneProgram(p) PROVE AlsoFailed(r)'
    <3>1. CASE p # q
      BY <2>2, <2>4, <3>1, OneProgramPrograms
    <3>2. CASE p = q /\ GivesUp(p)
      BY <2>3, <3>2 DEF GivesUp
    <3>3. CASE p = q /\ Inserts(p)
      <4>1. \E i \in DOMAIN rows' : rows'[i] =
              [req |-> proc[p].req, id |-> proc[p].id, url |-> proc[p].url]
        BY <3>3, RowAppended
      <4>2. QED
        BY <1>3, <2>1, <3>3, <4>1 DEF AlsoFailed, NoUrl
    <3>4. QED
      BY <2>1, <2>4, <3>1, <3>2, <3>3 DEF OneProgram, Accepts, Saves, Execs,
         GoesOnAsCopy, Unlinks, Answers
  <2>5. ASSUME NEW p \in Pids, NEW c \in Pids,
               Forks(p, c) \/ Reads(p, c) \/ Waits(p, c)
        PROVE  q \in Programs' /\ proc'[q] = proc[q]
    <3>1. q # p /\ q # c
      BY <2>1, <2>5 DEF Forks, Reads, Waits, Free, Reaped, Programs
    <3>2. QED
      BY <2>1, <2>5, <3>1 DEF Forks, Reads, Waits, OthersStay, Programs, Alive
  <2>6. ASSUME NEW c \in Pids, NEW k \in Processes \cup {None},
               ToolEnds(c, k) \/ ToolEndsBadly(c, k) \/ Crashes(c, k)
        PROVE  q \in Programs' /\ proc'[q] = proc[q]
    <3>1. q # c /\ Parts(c, k)
      BY <2>1, <2>6 DEF ToolEnds, ToolEndsBadly, Crashes
    <3>2. QED
      BY <2>1, <3>1 DEF Parts, At, Programs, Alive
  <2>7. ASSUME NEW n \in Pids, StartsAnew(n)
        PROVE  faults' = faults + 1 /\ execFails' = execFails
    BY <2>7 DEF StartsAnew
  <2>8. CASE UNCHANGED hostVars
    BY <2>2, <2>8 DEF hostVars, Programs, Alive
  <2>9. QED
    BY <2>2, <2>3, <2>4, <2>5, <2>6, <2>7, <2>8 DEF HostMoves
<1>4. QED
  BY <1>1, <1>2, <1>3 DEF AlsoFailed, NoUrl

LEMMA IdlessKeeps ==
  ASSUME HostInv, UrlInv, IdlessInv, HostMoves
  PROVE  IdlessInv'
<1> SUFFICES ASSUME NEW q \in Programs', Idless(q)', proc'[q].pc = "reply",
                    NEW r, r = proc'[q].req
             PROVE  AlsoFailed(r)'
  BY Zenon DEF IdlessInv, AlsoFailed, NoUrl
<1> q \in Pids
  BY DEF Programs, Alive
<1>1. CASE q \in Programs /\ proc'[q] = proc[q]
  <2>1. r = proc[q].req /\ AlsoFailed(proc[q].req)
    BY <1>1 DEF IdlessInv, Idless
  <2>2. AlsoFailed(r)
    BY <2>1
  <2>3. QED
    BY <2>2, AlsoFailedStays
<1>2. ASSUME NEW p \in Pids, OneProgram(p)
      PROVE  AlsoFailed(r)'
  <2>1. CASE p # q
    BY <1>1, <1>2, <2>1, OneProgramIs, OneProgramPrograms DEF OthersStay
  <2>2. CASE p = q /\ GivesUp(p)
    <3>1. faults' = faults + 1 /\ execFails' = execFails
      BY <2>2 DEF GivesUp
    <3>2. faults' > execFails'
      BY <3>1, CountsGrow
    <3>3. QED
      BY <3>2 DEF AlsoFailed
  <2>3. CASE p = q /\ Inserts(p)
    <3>1. /\ proc[p].id = 0 /\ p \in Programs
          /\ proc'[p].req = proc[p].req
      BY <2>3 DEF Inserts, SameUpload, GoesOnAt, Idless
    <3>2. ~proc[p].url
      BY <3>1 DEF UrlInv, UrlOf
    <3>3. \E i \in DOMAIN rows' : rows'[i] =
            [req |-> proc[p].req, id |-> proc[p].id, url |-> proc[p].url]
      BY <2>3, RowAppended
    <3>4. \E i \in DOMAIN rows' : rows'[i].req = proc[p].req /\ ~rows'[i].url
      BY <3>2, <3>3
    <3>5. QED
      BY <2>3, <3>1, <3>4 DEF AlsoFailed, NoUrl
  <2>4. CASE p = q /\ GoesOnAsCopy(p)
    BY <2>4 DEF GoesOnAsCopy, GoesOnAt
  <2>5. QED
    BY <1>2, <2>1, <2>2, <2>3, <2>4 DEF OneProgram, Accepts, Saves, Execs,
       Unlinks, Answers, GoesOnAt
<1>3. ASSUME NEW p \in Pids, NEW c \in Pids,
             Forks(p, c) \/ Reads(p, c) \/ Waits(p, c)
      PROVE  q \in Programs /\ proc'[q] = proc[q]
  <2>1. q # c
    BY <1>3 DEF Forks, Reads, Waits, Programs, Alive
  <2>2. CASE q = p
    <3>1. ~Forks(p, c) /\ ~Waits(p, c)
      BY <2>2 DEF Forks, Waits, GoesOnAt
    <3>2. proc'[p].wants = "id" /\ proc'[p].pc = "reply"
      BY <1>3, <2>2, <3>1 DEF Reads, GoesOnAt
    <3>3. QED
      BY <2>2, <3>2 DEF Idless
  <2>3. CASE q # p
    BY <1>3, <2>1, <2>3 DEF Forks, Reads, Waits, OthersStay, Programs, Alive
  <2>4. QED
    BY <2>2, <2>3
<1>4. ASSUME NEW c \in Pids, NEW k \in Processes \cup {None},
             ToolEnds(c, k) \/ ToolEndsBadly(c, k) \/ Crashes(c, k)
      PROVE  q \in Programs /\ proc'[q] = proc[q]
  BY <1>4, PartsCopies DEF ToolEnds, ToolEndsBadly, Crashes, Programs
<1>5. ASSUME NEW n \in Pids, StartsAnew(n) PROVE FALSE
  <2>1. q = n
    BY <1>5, AnewCopies
  <2>2. QED
    BY <1>5, <2>1, FreshIs DEF StartsAnew
<1>6. CASE UNCHANGED hostVars
  BY <1>1, <1>6 DEF hostVars, Programs, Alive
<1>7. QED
  BY <1>1, <1>2, <1>3, <1>4, <1>5, <1>6 DEF HostMoves

-----------------------------------------------------------------------------
(* A program that goes on with an upload in the company of q, which reads  *)
(* and which the step leaves alone                                         *)
Idles(p) == Idless(p) \/ Doomed(p)

LEMMA IdlesStays ==
  ASSUME HostInv, HostMoves, NEW p \in Programs, p \in Programs',
         proc'[p] = proc[p], Idles(p)
  PROVE  Idles(p)'
BY DoomedStays DEF Idles, Idless

LEMMA CompanyOneProgram ==
  ASSUME HostInv, UrlInv, NEW p \in Pids, OneProgram(p), p \in Programs',
         Idles(p), NEW r \in DOMAIN sent, proc'[p].req = r, proc[p].req = r
  PROVE  Idles(p)'
<1>1. /\ p \in Programs /\ proc[p].pc # "read" /\ proc[p] \in Processes
      /\ HandsOf(p)
  BY OneProgramIs DEF HostInv, HandsInv, Programs, Alive, Serves
<1>2. proc[p].pc # "wait"
  BY DEF OneProgram, Accepts, Saves, Execs, GoesOnAsCopy, Unlinks,
     Inserts, GivesUp, Answers
<1>3. Idless(p)
  BY <1>1, <1>2 DEF Idles, Doomed, HasCopy, NoOutput, At
<1>4. /\ proc[p].id = 0
      /\ proc[p].pc = "unlink" \/ proc[p].wants = "url"
  BY <1>3 DEF Idless
<1>5. CASE Accepts(p) \/ Answers(p)
  <2>1. HostInv => 0 \notin DOMAIN sent
    BY LenProperties DEF HostInv, HostTypeOK
  <2>2. ~Answers(p)
    BY <2>1 DEF Answers
  <2>3. ~Accepts(p)
    BY <1>1, <2>1 DEF Accepts, HandsOf
  <2>4. QED
    BY <1>5, <2>2, <2>3
<1>6. CASE Saves(p)
  BY <1>1, <1>4, <1>6 DEF Saves, HandsOf
<1>7. CASE Execs(p)
  BY <1>7 DEF Execs, GoesOnAt, Programs, Serves
<1>8. CASE GoesOnAsCopy(p) \/ Inserts(p) \/ GivesUp(p)
  <2>1. proc'[p].id = 0 /\ proc'[p].wants = "url"
    BY <1>4, <1>8 DEF GoesOnAsCopy, Inserts, GivesUp, SameUpload
  <2>2. QED
    BY <2>1 DEF Idles, Idless
<1>9. CASE Unlinks(p)
  BY <1>4, <1>9 DEF Unlinks, Idles, Idless
<1>10. QED
  BY <1>5, <1>6, <1>7, <1>8, <1>9 DEF OneProgram

LEMMA CompanyReads ==
  ASSUME HostInv, UrlInv, NEW p \in Pids, NEW c \in Pids,
         Reads(p, c) \/ Waits(p, c), p \in Programs', Idles(p)
  PROVE  Idles(p)'
<1>1. CASE Doomed(p)
  BY <1>1, DoomedReads DEF Idles
<1>2. CASE Idless(p)
  <2>1. proc[p].wants = "url" /\ proc[p].id = 0 /\ UrlOf(p)
    BY <1>2 DEF Reads, Waits, Idless, UrlInv
  <2>2. CASE Waits(p, c)
    BY <2>1, <2>2 DEF Waits, UrlOf
  <2>3. CASE Reads(p, c)
    BY <2>1, <2>3 DEF Reads, Idles, Idless
  <2>4. QED
    BY <2>2, <2>3
<1>3. QED
  BY <1>1, <1>2 DEF Idles

(* Whoever is in the company of q after a step was so before. *)
LEMMA CompanyStep ==
  ASSUME HostInv, UrlInv, HostMoves,
         NEW q \in Programs, proc'[q] = proc[q], At(q, "read"),
         \A p \in Programs \ {q} : proc[p].req = proc[q].req => Idles(p),
         NEW p \in Programs', p # q, proc'[p].req = proc[q].req
  PROVE  Idles(p)'
<1> p \in Pids /\ q \in Pids
  BY DEF Programs, Alive
<1> PICK r : r = proc[q].req
  OBVIOUS
<1>1. r \in DOMAIN sent /\ r # Len(sent) + 1
  <2>1. r \in DOMAIN sent
    BY DEF HostInv, HandsInv, HandsOf, At
  <2>2. Len(sent) \in Nat /\ DOMAIN sent = 1..Len(sent)
    BY LenProperties DEF HostInv, HostTypeOK
  <2>3. QED
    BY <2>1, <2>2
<1>2. CASE p \in Programs /\ proc'[p] = proc[p]
  BY <1>2, IdlesStays
<1>3. ASSUME NEW a \in Pids, OneProgram(a) PROVE Idles(p)'
  <2>1. CASE a # p
    BY <1>2, <1>3, <2>1, OneProgramIs, OneProgramPrograms DEF OthersStay
  <2>2. CASE a = p
    <3>1. p \in Programs
      BY <1>3, <2>2, OneProgramIs
    <3>2. proc[p].req = r
      <4>1. ~Accepts(p)
        BY <1>1 DEF Accepts
      <4>2. ~Answers(p)
        BY <1>1, LenProperties DEF Answers, HostInv, HostTypeOK
      <4>3. QED
        BY <1>3, <2>2, <4>1, <4>2 DEF OneProgram, Saves, Execs,
           GoesOnAsCopy, Unlinks, Inserts, GivesUp, SameUpload
    <3>3. Idles(p)
      BY <3>1, <3>2
    <3>4. QED
      BY <1>1, <1>3, <2>2, <3>2, <3>3, CompanyOneProgram
  <2>3. QED
    BY <2>1, <2>2
<1>4. ASSUME NEW a \in Pids, NEW c \in Pids, Forks(a, c) PROVE Idles(p)'
  <2>1. CASE p = a \/ p = c
    <3>1. /\ a \in Programs /\ proc[a].pc = "fork" /\ SameUpload(a, a)
          /\ SameUpload(c, a)
      BY <1>4 DEF Forks, GoesOnAt
    <3>2. proc[a].req = r /\ a # q
      BY <2>1, <3>1 DEF SameUpload, At
    <3>3. Idles(a)
      BY <3>1, <3>2
    <3>4. proc[a].wants = "url" /\ proc[a].id = 0
      BY <3>1, <3>3 DEF Idles, Idless, Doomed, HasCopy, NoOutput, At
    <3>5. QED
      BY <2>1, <3>1, <3>4 DEF SameUpload, Idles, Idless
  <2>2. CASE p # a /\ p # c
    BY <1>2, <1>4, <2>2 DEF Forks, OthersStay, Programs, Alive
  <2>3. QED
    BY <2>1, <2>2
<1>5. ASSUME NEW a \in Pids, NEW c \in Pids, Reads(a, c) \/ Waits(a, c)
      PROVE  Idles(p)'
  <2>1. p # c
    BY <1>5 DEF Reads, Waits, Programs, Alive, Serves
  <2>2. CASE p = a
    <3>1. p \in Programs /\ proc[p].req = r
      BY <1>5, <2>2 DEF Reads, Waits, SameUpload, GoesOnAt
    <3>2. Idles(p)
      BY <3>1
    <3>3. QED
      BY <1>5, <2>2, <3>2, CompanyReads
  <2>3. CASE p # a
    BY <1>2, <1>5, <2>1, <2>3 DEF Reads, Waits, OthersStay, Programs, Alive
  <2>4. QED
    BY <2>2, <2>3
<1>6. ASSUME NEW c \in Pids, NEW k \in Processes \cup {None},
             ToolEnds(c, k) \/ ToolEndsBadly(c, k) \/ Crashes(c, k)
      PROVE  p \in Programs /\ proc'[p] = proc[p]
  BY <1>6, PartsCopies DEF ToolEnds, ToolEndsBadly, Crashes, Programs
<1>7. ASSUME NEW n \in Pids, StartsAnew(n) PROVE FALSE
  <2>1. q # n
    BY <1>7, FreshIs DEF StartsAnew, At
  <2>2. proc'[q] # None
    BY DEF Programs, Alive
  <2>3. QED
    BY <1>7, <2>1, <2>2 DEF StartsAnew
<1>8. CASE UNCHANGED hostVars
  BY <1>2, <1>8 DEF hostVars, Programs, Alive
<1>9. QED
  BY <1>2, <1>3, <1>4, <1>5, <1>6, <1>7, <1>8 DEF HostMoves

LEMMA CopyKeeps ==
  ASSUME HostInv, UrlInv, CopyInv, HostMoves
  PROVE  CopyInv'
<1> SUFFICES ASSUME NEW q \in Programs', HasCopy(q)', proc'[q].wants = "id",
                    NEW p \in Programs', p # q, proc'[p].req = proc'[q].req
             PROVE  Idles(p)'
  BY DEF CopyInv, Idles
<1> p \in Pids /\ q \in Pids
  BY DEF Programs, Alive
<1> PICK d : d = proc[q].child
  OBVIOUS
<1>1. /\ At(q, "read") /\ proc'[q] = proc[q]
      /\ HasCopy(q) \/ GoesOnAsCopy(d)
  BY HasCopyStep
<1>2. q \in Programs
  BY <1>1 DEF At, Programs, Serves
<1>3. CASE HasCopy(q)
  <2>1. \A t \in Programs \ {q} : proc[t].req = proc[q].req => Idles(t)
    BY <1>1, <1>2, <1>3 DEF CopyInv, Idles
  <2>2. QED
    BY <1>1, <1>2, <2>1, CompanyStep
<1>4. CASE GoesOnAsCopy(d)
  <2>1. /\ d \in Pids /\ proc[d].parent = q /\ ReadsFrom(q, d)
        /\ d \in Programs /\ proc[d].pc = "exec"
    BY <1>1, <1>4, ChildIs DEF GoesOnAsCopy, GoesOnAt
  <2>2. /\ proc[d].req = proc[q].req /\ proc[d].wants = "id"
        /\ proc[d].id = proc[q].id
    BY <1>1, <2>1 DEF ReadsFrom, Forked, At
  <2>3. HandsOf(q) /\ proc[q].id = 0
    BY <1>1, <2>2 DEF HostInv, HandsInv, HandsOf, At
  <2>4. CASE p = d
    <3>1. proc'[d].pc = "unlink" /\ proc'[d].id = 0
      BY <1>4, <2>2, <2>3 DEF GoesOnAsCopy, GoesOnAt, SameUpload
    <3>2. QED
      BY <2>4, <3>1 DEF Idles, Idless
  <2>5. CASE p # d
    <3>1. proc'[p] = proc[p] /\ p \in Programs
      BY <1>4, <2>5 DEF GoesOnAsCopy, OthersStay, Programs, Alive
    <3>2. Serving(d)
      BY <2>1 DEF Serving, WaitsForCopy, At
    <3>3. WaitsForCopy(p)
      BY <2>1, <2>5, <3>1, <3>2 DEF HostInv, ServesInv, Serving
    <3>4. At(p, "read") /\ proc[p].child \in Programs
      BY <3>3 DEF WaitsForCopy
    <3>5. proc[p].child # d
      BY <2>1, <3>4, ChildIs
    <3>6. proc[proc[p].child].pc # "exec"
      <4>1. SUFFICES ASSUME proc[proc[p].child].pc = "exec" PROVE FALSE
        OBVIOUS
      <4>2. Serving(proc[p].child) /\ proc[p].child \in Pids
        BY <3>4, <4>1 DEF Serving, WaitsForCopy, At, Programs, Alive
      <4>3. QED
        BY <2>1, <3>2, <3>5, <4>2 DEF HostInv, ServesInv
    <3>7. HasCopy(p)
      BY <3>4, <3>6 DEF HasCopy
    <3>8. ASSUME proc[p].wants = "id" PROVE FALSE
      <4>1. Idless(q) \/ Doomed(q)
        BY <1>1, <1>2, <3>1, <3>7, <3>8 DEF CopyInv
      <4>2. QED
        BY <1>1, <4>1 DEF Idless, Doomed, At
    <3>9. proc[p].wants = "url"
      <4>1. proc[p] \in Processes
        BY <3>4, ProcTyped DEF HostInv, At
      <4>2. QED
        BY <3>8, <4>1 DEF Processes
    <3>10. Doomed(p)
      BY <3>7, <3>9 DEF Doomed
    <3>11. QED
      BY <3>1, <3>10, DoomedStays DEF Idles
  <2>6. QED
    BY <2>4, <2>5
<1>5. QED
  BY <1>1, <1>3, <1>4

(* Only an upload that was sent is answered. *)
EarlyInv == \A r \in DOMAIN answers : answers[r] # <<>> => r \in DOMAIN sent

(* A program that goes on with an upload that was answered already *)
Answered(p) ==
  proc[p].req \in DOMAIN answers /\ answers[proc[p].req] # <<>>

(* A program that waits for the id from a copy of itself, or has waited *)
Spoilt(p) ==
  /\ proc[p].wants = "id"
  /\ \/ HasCopy(p) /\ AlsoFailed(proc[p].req)
     \/ /\ NoOutput(p) \/ At(p, "reply")
        /\ execFails >= 1 /\ faults >= 3

AnsweredInv == \A p \in Programs : Answered(p) => Doomed(p) \/ Spoilt(p)

(* A program that will crash as soon as it has waited *)
Crashing(s) ==
  proc[s].wants = "url" /\ (NoOutput(s) \/ (At(s, "wait") /\ ~proc[s].url))

TroubleInv ==
  \A p, s \in Programs :
    Answered(p) /\ HasCopy(p) /\ proc[p].wants = "id" /\ Crashing(s)
      => faults >= 3

LEMMA AnswersAre ==
  ASSUME HostInv, HostMoves
  PROVE  answers' = answers \/ \E a \in Pids : Answers(a)
<1>1. ASSUME NEW a \in Pids, OneProgram(a), ~Answers(a)
      PROVE  answers' = answers
  BY <1>1 DEF OneProgram, Accepts, Saves, Execs, GoesOnAsCopy, Unlinks,
     Inserts, GivesUp
<1>2. ASSUME NEW a \in Pids, NEW c \in Pids,
             Forks(a, c) \/ Reads(a, c) \/ Waits(a, c)
      PROVE  answers' = answers
  BY <1>2 DEF Forks, Reads, Waits
<1>3. ASSUME NEW c \in Pids, NEW k \in Processes \cup {None},
             ToolEnds(c, k) \/ ToolEndsBadly(c, k) \/ Crashes(c, k)
      PROVE  answers' = answers
  BY <1>3 DEF ToolEnds, ToolEndsBadly, Crashes
<1>4. ASSUME NEW n \in Pids, StartsAnew(n) PROVE answers' = answers
  BY <1>4 DEF StartsAnew
<1>5. QED
  BY <1>1, <1>2, <1>3, <1>4 DEF HostMoves, hostVars

LEMMA SentGrows ==
  ASSUME HostInv, HostMoves
  PROVE  DOMAIN sent \subseteq DOMAIN sent'
<1>1. ASSUME NEW a \in Pids, Accepts(a)
      PROVE  DOMAIN sent \subseteq DOMAIN sent'
  <2>1. PICK x : sent' = Append(sent, x)
    BY <1>1 DEF Accepts
  <2>2. sent \in Seq([name: Names, content: Contents])
    BY DEF HostInv, HostTypeOK
  <2>3. QED
    BY <2>1, <2>2, AppendProperties, LenProperties
<1>2. ASSUME NEW a \in Pids, OneProgram(a), ~Accepts(a) PROVE sent' = sent
  BY <1>2 DEF OneProgram, Answers, Saves, Execs, GoesOnAsCopy, Unlinks,
     Inserts, GivesUp
<1>3. ASSUME NEW a \in Pids, NEW c \in Pids,
             Forks(a, c) \/ Reads(a, c) \/ Waits(a, c)
      PROVE  sent' = sent
  BY <1>3 DEF Forks, Reads, Waits
<1>4. ASSUME NEW c \in Pids, NEW k \in Processes \cup {None},
             ToolEnds(c, k) \/ ToolEndsBadly(c, k) \/ Crashes(c, k)
      PROVE  sent' = sent
  BY <1>4 DEF ToolEnds, ToolEndsBadly, Crashes
<1>5. ASSUME NEW n \in Pids, StartsAnew(n) PROVE sent' = sent
  BY <1>5 DEF StartsAnew
<1>6. QED
  BY <1>1, <1>2, <1>3, <1>4, <1>5 DEF HostMoves, hostVars

(* What an answer does to the answers, and whose it is *)
LEMMA AnswerIs ==
  ASSUME HostInv, NEW a \in Pids, Answers(a)
  PROVE  /\ a \in Programs /\ proc[a].pc = "reply" /\ Serving(a)
         /\ proc[a].req \in DOMAIN sent
         /\ DOMAIN answers' = DOMAIN answers
         /\ \A r \in DOMAIN answers : r # proc[a].req => answers'[r] = answers[r]
<1>1. a \in Programs /\ proc[a].pc = "reply"
  BY DEF Answers, GoesOnAt
<1>2. HandsOf(a) /\ Serving(a)
  BY <1>1 DEF HostInv, HandsInv, Programs, Alive, Serves, Serving,
     WaitsForCopy, At
<1>3. proc[a].req \in DOMAIN sent
  BY <1>1, <1>2 DEF HandsOf
<1>4. QED
  BY <1>1, <1>2, <1>3 DEF Answers

LEMMA EarlyKeeps ==
  ASSUME HostInv, EarlyInv, HostMoves
  PROVE  EarlyInv'
<1> SUFFICES ASSUME NEW r \in DOMAIN answers', answers'[r] # <<>>
             PROVE  r \in DOMAIN sent'
  BY DEF EarlyInv
<1>1. CASE answers' = answers
  BY <1>1, SentGrows DEF EarlyInv
<1>2. ASSUME NEW a \in Pids, Answers(a) PROVE r \in DOMAIN sent
  BY <1>2, AnswerIs DEF EarlyInv
<1>3. QED
  BY <1>1, <1>2, SentGrows, AnswersAre

(* While a program serves, the others wait for copies of theirs. *)
LEMMA OthersHaveCopies ==
  ASSUME HostInv, NEW a \in Pids, Serving(a), proc[a].pc # "exec",
         NEW p \in Programs, p # a
  PROVE  HasCopy(p)
<1>1. p \in Pids /\ WaitsForCopy(p)
  BY DEF HostInv, ServesInv, Serving, Programs, Alive
<1>2. At(p, "read") /\ proc[p].child \in Programs
  BY <1>1 DEF WaitsForCopy
<1>3. ASSUME proc[proc[p].child].pc = "exec" PROVE FALSE
  <2>1. Serving(proc[p].child) /\ proc[p].child \in Pids
    BY <1>2, <1>3 DEF Serving, WaitsForCopy, At, Programs, Alive
  <2>2. QED
    BY <1>3, <2>1 DEF HostInv, ServesInv
<1>4. QED
  BY <1>2, <1>3 DEF HasCopy

LEMMA CountsAreNat ==
  ASSUME HostInv
  PROVE  execFails \in Nat /\ faults \in Nat /\ execFails <= faults
BY BoundsAreNat DEF HostInv, HostTypeOK

LEMMA RequestIsCounted ==
  ASSUME HostInv, LackInv, NEW r
  PROVE  /\ NoId(r) => execFails >= 1
         /\ NoId(r) /\ NoUrl(r) => execFails >= 2
         /\ \A t : NoId(r) /\ NoId(t) /\ r # t =>
              /\ execFails >= 2
              /\ NoUrl(r) => execFails >= 3
<1>1. /\ IsFiniteSet(UrlLess) /\ Cardinality(UrlLess) \in Nat
      /\ IsFiniteSet(IdLess)  /\ Cardinality(IdLess) \in Nat
      /\ execFails \in Nat
  BY LacksAreFinite, CountsAreNat DEF HostInv
<1>2. NoUrl(r) => Cardinality(UrlLess) >= 1
  <2>1. SUFFICES ASSUME NoUrl(r) PROVE Cardinality(UrlLess) >= 1
    OBVIOUS
  <2>2. {r} \subseteq UrlLess
    BY <2>1, LackIsSent DEF UrlLess
  <2>3. Cardinality({r}) <= Cardinality(UrlLess)
    BY <1>1, <2>2, FewerThan
  <2>4. Cardinality({r}) = 1
    BY FS_Singleton
  <2>5. QED
    BY <1>1, <2>3, <2>4
<1>3. NoId(r) => Cardinality(IdLess) >= 1
  <2>1. SUFFICES ASSUME NoId(r) PROVE Cardinality(IdLess) >= 1
    OBVIOUS
  <2>2. {r} \subseteq IdLess
    BY <2>1, LackIsSent DEF IdLess
  <2>3. Cardinality({r}) <= Cardinality(IdLess)
    BY <1>1, <2>2, FewerThan
  <2>4. Cardinality({r}) = 1
    BY FS_Singleton
  <2>5. QED
    BY <1>1, <2>3, <2>4
<1>4. ASSUME NEW t, NoId(r), NoId(t), r # t
      PROVE  Cardinality(IdLess) >= 2
  <2>1. {r, t} \subseteq IdLess
    BY <1>4, LackIsSent DEF IdLess
  <2>2. Cardinality({r, t}) = 2
    <3>1. IsFiniteSet({r}) /\ Cardinality({r}) = 1 /\ t \notin {r}
      BY <1>4, FS_Singleton
    <3>2. Cardinality({r} \cup {t}) = 2
      BY <3>1, FS_AddElement
    <3>3. {r} \cup {t} = {r, t}
      OBVIOUS
    <3>4. QED
      BY <3>2, <3>3
  <2>3. QED
    BY <1>1, <2>1, <2>2, FewerThan
<1>5. QED
  BY <1>1, <1>2, <1>3, <1>4 DEF LackInv

LEMMA CopyFailed ==
  ASSUME HostInv, LackInv, NEW p \in Programs, HasCopy(p),
         proc[p].wants = "id"
  PROVE  NoId(proc[p].req) /\ execFails >= 1
<1>1. NoId(proc[p].req)
  BY DEF NoId, NoIdIn
<1>2. QED
  BY <1>1, RequestIsCounted

LEMMA SpoiltStays ==
  ASSUME HostInv, LackInv, AnsweredInv, TroubleInv, HostMoves,
         NEW p \in Programs, p \in Programs', proc'[p] = proc[p], Answered(p)
  PROVE  Doomed(p)' \/ Spoilt(p)'
<1>1. CASE Doomed(p)
  BY <1>1, DoomedStays
<1>2. CASE Spoilt(p) /\ HasCopy(p) /\ AlsoFailed(proc[p].req)
  <2>1. PICK r : r = proc[p].req
    OBVIOUS
  <2>2. AlsoFailed(r)'
    BY <1>2, <2>1, AlsoFailedStays
  <2>3. AlsoFailed(proc[p].req)'
    BY <2>1, <2>2 DEF AlsoFailed, NoUrl
  <2>4. CASE HasCopy(p)'
    BY <1>2, <2>3, <2>4 DEF Spoilt
  <2>5. CASE ~HasCopy(p)'
    <3>1. NoOutput(p)'
      BY <1>2, <2>5, CopyOrNothingStays
    <3>2. PICK k \in Processes \cup {None} : Crashes(proc[p].child, k)
      BY <1>2, <2>5, CopyOrNothingStays
    <3>3. proc[p].child \in Programs /\ Crashing(proc[p].child)
      BY <1>2, <3>2 DEF Crashes, Crashing, HasCopy, At, Programs
    <3>4. faults >= 3
      BY <1>2, <3>3 DEF TroubleInv, Spoilt
    <3>5. execFails >= 1
      BY <1>2, CopyFailed DEF Spoilt
    <3>6. execFails' >= 1 /\ faults' >= 3
      BY <3>4, <3>5, CountsGrow
    <3>7. QED
      BY <1>2, <3>1, <3>6 DEF Spoilt
  <2>6. QED
    BY <2>4, <2>5
<1>3. CASE /\ Spoilt(p)
           /\ NoOutput(p) \/ At(p, "reply")
           /\ execFails >= 1 /\ faults >= 3
  <2>1. execFails' >= 1 /\ faults' >= 3
    BY <1>3, CountsGrow
  <2>2. NoOutput(p)' \/ At(p, "reply")'
    BY <1>3, CopyOrNothingStays DEF At, Programs
  <2>3. QED
    BY <1>3, <2>1, <2>2 DEF Spoilt
<1>4. QED
  BY <1>1, <1>2, <1>3 DEF AnsweredInv, Spoilt

LEMMA AnsweredOneProgram ==
  ASSUME HostInv, EarlyInv, AnsweredInv, NEW p \in Pids, OneProgram(p),
         Answered(p)'
  PROVE  FALSE
<1>1. p \in Programs /\ proc[p].pc # "read"
  BY OneProgramIs
<1>2. Len(sent) \in Nat /\ DOMAIN sent = 1..Len(sent)
      /\ DOMAIN answers = 1..MaxRequests
  BY LenProperties DEF HostInv, HostTypeOK
<1>3. ~Answers(p)
  <2>1. SUFFICES ASSUME Answers(p) PROVE FALSE
    OBVIOUS
  <2>2. proc'[p].req = 0 /\ DOMAIN answers' = 1..MaxRequests
    BY <1>2, <2>1, AnswerIs DEF Answers
  <2>3. QED
    BY <2>2 DEF Answered
<1>4. answers' = answers
  BY <1>3 DEF OneProgram, Accepts, Saves, Execs, GoesOnAsCopy, Unlinks,
     Inserts, GivesUp
<1>5. ~Accepts(p)
  <2>1. SUFFICES ASSUME Accepts(p) PROVE FALSE
    OBVIOUS
  <2>2. proc'[p].req = Len(sent) + 1 /\ proc'[p].req \notin DOMAIN sent
    BY <1>2, <2>1 DEF Accepts
  <2>3. QED
    BY <1>4, <2>2 DEF Answered, EarlyInv
<1>6. proc'[p].req = proc[p].req
  BY <1>3, <1>5 DEF OneProgram, Saves, Execs, GoesOnAsCopy, Unlinks,
     Inserts, GivesUp, SameUpload
<1>7. Answered(p)
  BY <1>4, <1>6 DEF Answered
<1>8. proc[p].pc # "wait" /\ proc[p].pc # "reply"
  BY <1>3, <1>5 DEF OneProgram, Saves, Execs, GoesOnAsCopy, Unlinks,
     Inserts, GivesUp
<1>9. ~Doomed(p) /\ ~Spoilt(p)
  BY <1>1, <1>8 DEF Doomed, Spoilt, HasCopy, NoOutput, At
<1>10. QED
  BY <1>1, <1>7, <1>9 DEF AnsweredInv

(* A program that waits while another answers the upload it has itself *)
LEMMA AnsweredByAnother ==
  ASSUME HostInv, CopyInv, IdlessInv, HostMoves,
         NEW a \in Pids, Answers(a), NEW p \in Programs, p # a,
         p \in Programs', proc'[p] = proc[p], proc[p].req = proc[a].req
  PROVE  Doomed(p)' \/ Spoilt(p)'
<1>1. /\ a \in Programs /\ proc[a].pc = "reply" /\ Serving(a)
  BY AnswerIs
<1>2. HasCopy(p)
  BY <1>1, OthersHaveCopies
<1>3. proc[p].wants \in {"id", "url"} /\ p \in Pids
  BY ProcTyped DEF HostInv, Programs, Processes, Alive
<1>4. CASE proc[p].wants = "url"
  BY <1>2, <1>4, DoomedStays DEF Doomed
<1>5. CASE proc[p].wants = "id"
  <2>1. Idless(a) \/ Doomed(a)
    BY <1>1, <1>2, <1>5 DEF CopyInv
  <2>2. ~Doomed(a)
    BY <1>1 DEF Doomed, HasCopy, NoOutput, At
  <2>3. AlsoFailed(proc[a].req)
    BY <1>1, <2>1, <2>2 DEF IdlessInv
  <2>4. PICK r : r = proc[p].req
    OBVIOUS
  <2>5. AlsoFailed(r)'
    BY <2>3, <2>4, AlsoFailedStays
  <2>6. AlsoFailed(proc[p].req)'
    BY <2>4, <2>5 DEF AlsoFailed, NoUrl
  <2>7. HasCopy(p)'
    <3>1. PICK d : d = proc[p].child
      OBVIOUS
    <3>2. /\ At(p, "read") /\ d \in Programs /\ proc[d].pc # "exec"
          /\ d \in Pids
      BY <1>2, <3>1 DEF HasCopy, Programs, Alive
    <3>3. OneProgram(a) /\ proc'[a].pc = "accept"
      BY DEF OneProgram, Answers, GoesOnAt
    <3>4. Programs' = Programs
      BY <3>3, OneProgramPrograms
    <3>5. proc'[d].pc # "exec"
      <4>1. CASE d = a
        BY <3>3, <4>1
      <4>2. CASE d # a
        BY <3>2, <4>2 DEF Answers, OthersStay
      <4>3. QED
        BY <4>1, <4>2
    <3>6. QED
      BY <1>3, <3>1, <3>2, <3>4, <3>5 DEF HasCopy, At, Programs
  <2>8. QED
    BY <1>5, <2>6, <2>7 DEF Spoilt
<1>6. QED
  BY <1>3, <1>4, <1>5

LEMMA AnsweredStays ==
  ASSUME HostInv, LackInv, CopyInv, IdlessInv, AnsweredInv, TroubleInv,
         HostMoves, NEW p \in Programs, p \in Programs', proc'[p] = proc[p],
         Answered(p)'
  PROVE  Doomed(p)' \/ Spoilt(p)'
<1>1. CASE Answered(p)
  BY <1>1, SpoiltStays
<1>2. CASE ~Answered(p)
  <2>1. PICK a \in Pids : Answers(a)
    BY <1>2, AnswersAre DEF Answered
  <2>2. proc[p].req = proc[a].req
    BY <1>2, <2>1, AnswerIs DEF Answered
  <2>3. p # a
    BY <2>1 DEF Answers, GoesOnAt
  <2>4. QED
    BY <2>1, <2>2, <2>3, AnsweredByAnother
<1>3. QED
  BY <1>1, <1>2

LEMMA AnsweredForks ==
  ASSUME HostInv, AnsweredInv, NEW a \in Pids, NEW c \in Pids, Forks(a, c),
         NEW p, p = a \/ p = c, Answered(p)'
  PROVE  FALSE
<1>1. /\ a \in Programs /\ proc[a].pc = "fork" /\ proc'[p].req = proc[a].req
      /\ answers' = answers
  BY DEF Forks, GoesOnAt, SameUpload
<1>2. Answered(a)
  BY <1>1 DEF Answered
<1>3. ~Doomed(a) /\ ~Spoilt(a)
  BY <1>1 DEF Doomed, Spoilt, HasCopy, NoOutput, At
<1>4. QED
  BY <1>1, <1>2, <1>3 DEF AnsweredInv

LEMMA AnsweredReads ==
  ASSUME HostInv, AnsweredInv, HostMoves, NEW p \in Pids, NEW c \in Pids,
         Reads(p, c) \/ Waits(p, c), p \in Programs', Answered(p)'
  PROVE  Doomed(p)' \/ Spoilt(p)'
<1>1. /\ p \in Programs /\ proc'[p].req = proc[p].req
      /\ answers' = answers
  BY DEF Reads, Waits, SameUpload, GoesOnAt
<1>2. Doomed(p) \/ Spoilt(p)
  BY <1>1 DEF Answered, AnsweredInv
<1>3. CASE Doomed(p)
  BY <1>3, DoomedReads
<1>4. CASE Spoilt(p)
  <2>1. Reads(p, c)
    BY <1>4 DEF Waits, Spoilt, HasCopy, NoOutput, At
  <2>2. ~HasCopy(p) /\ ~At(p, "reply")
    BY <2>1 DEF Reads, HasCopy, At, Programs, Serves
  <2>3. /\ NoOutput(p) /\ proc[p].wants = "id"
        /\ execFails >= 1 /\ faults >= 3
    BY <1>4, <2>2 DEF Spoilt
  <2>4. proc'[p].pc = "reply" /\ proc'[p].wants = "id" /\ proc'[p] # None
    BY <2>1, <2>3 DEF Reads, NoOutput, GoesOnAt
  <2>5. execFails' >= 1 /\ faults' >= 3
    BY <2>3, CountsGrow
  <2>6. QED
    BY <2>4, <2>5 DEF Spoilt, At, Alive
<1>5. QED
  BY <1>2, <1>3, <1>4

LEMMA AnsweredKeeps ==
  ASSUME HostInv, UrlInv, LackInv, CopyInv, IdlessInv, EarlyInv, AnsweredInv,
         TroubleInv, HostMoves
  PROVE  AnsweredInv'
<1> SUFFICES ASSUME NEW p \in Programs', Answered(p)'
             PROVE  Doomed(p)' \/ Spoilt(p)'
  BY DEF AnsweredInv
<1> p \in Pids
  BY DEF Programs, Alive
<1>1. CASE p \in Programs /\ proc'[p] = proc[p]
  BY <1>1, AnsweredStays
<1>2. ASSUME NEW a \in Pids, OneProgram(a) PROVE Doomed(p)' \/ Spoilt(p)'
  <2>1. CASE a # p
    BY <1>1, <1>2, <2>1, OneProgramPrograms, OneProgramIs DEF OthersStay
  <2>2. CASE a = p
    BY <1>2, <2>2, AnsweredOneProgram
  <2>3. QED
    BY <2>1, <2>2
<1>3. ASSUME NEW a \in Pids, NEW c \in Pids, Forks(a, c)
      PROVE  Doomed(p)' \/ Spoilt(p)'
  <2>1. CASE p = a \/ p = c
    BY <1>3, <2>1, AnsweredForks
  <2>2. CASE p # a /\ p # c
    BY <1>1, <1>3, <2>2 DEF Forks, OthersStay, Programs, Alive
  <2>3. QED
    BY <2>1, <2>2
<1>4. ASSUME NEW a \in Pids, NEW c \in Pids, Reads(a, c) \/ Waits(a, c)
      PROVE  Doomed(p)' \/ Spoilt(p)'
  <2>1. p # c
    BY <1>4 DEF Reads, Waits, Programs, Alive, Serves
  <2>2. CASE p = a
    BY <1>4, <2>2, AnsweredReads
  <2>3. CASE p # a
    BY <1>1, <1>4, <2>1, <2>3 DEF Reads, Waits, OthersStay, Programs, Alive
  <2>4. QED
    BY <2>2, <2>3
<1>5. ASSUME NEW c \in Pids, NEW k \in Processes \cup {None},
             ToolEnds(c, k) \/ ToolEndsBadly(c, k) \/ Crashes(c, k)
      PROVE  p \in Programs /\ proc'[p] = proc[p]
  BY <1>5, PartsCopies DEF ToolEnds, ToolEndsBadly, Crashes, Programs
<1>6. ASSUME NEW n \in Pids, StartsAnew(n) PROVE FALSE
  <2>1. p = n
    BY <1>6, AnewCopies
  <2>2. proc'[p].req = 0 /\ answers' = answers
    BY <1>6, <2>1, FreshIs DEF StartsAnew
  <2>3. 0 \notin DOMAIN answers
    BY DEF HostInv, HostTypeOK
  <2>4. QED
    BY <2>2, <2>3 DEF Answered
<1>7. CASE UNCHANGED hostVars
  BY <1>1, <1>7 DEF hostVars, Programs, Alive
<1>8. QED
  BY <1>1, <1>2, <1>3, <1>4, <1>5, <1>6, <1>7 DEF HostMoves

(* A program that will crash after a step, and was left alone, and so was  *)
(* the child it reads from: it would have crashed before.                  *)
LEMMA CrashingStays ==
  ASSUME NEW s \in Programs, proc'[s] = proc[s], Crashing(s)',
         NEW d, d = proc[s].child, At(s, "read") => proc'[d] = proc[d]
  PROVE  Crashing(s)
BY DEF Crashing, NoOutput, At, Programs, Alive

LEMMA CrashingOneProgram ==
  ASSUME HostInv, NEW a \in Pids, OneProgram(a), NEW s \in Programs',
         Crashing(s)'
  PROVE  s # a /\ s \in Programs /\ proc'[s] = proc[s] /\ Crashing(s)
<1>1. /\ OthersStay({a}) /\ a \in Programs
      /\ proc'[a].pc # "read" /\ proc'[a].pc # "zombie"
  BY OneProgramIs DEF Serves
<1>2. proc'[a].pc # "wait"
  BY DEF OneProgram, Accepts, Saves, Execs, GoesOnAsCopy, Unlinks, Inserts,
     GivesUp, Answers, GoesOnAt
<1>3. s # a
  BY <1>1, <1>2 DEF Crashing, NoOutput, At
<1>4. s \in Pids /\ s \in Programs /\ proc'[s] = proc[s]
  BY <1>1, <1>3, OneProgramPrograms DEF OthersStay, Programs, Alive
<1>5. PICK d : d = proc[s].child
  OBVIOUS
<1>6. At(s, "read") => d \in Pids
  BY <1>4, <1>5, ChildIs
<1>7. At(s, "read") => d # a
  BY <1>1, <1>4, <1>5 DEF Crashing, NoOutput, At
<1>8. At(s, "read") => proc'[d] = proc[d]
  BY <1>1, <1>6, <1>7 DEF OthersStay
<1>9. QED
  BY <1>3, <1>4, <1>5, <1>8, CrashingStays

LEMMA CrashingForks ==
  ASSUME HostInv, NEW a \in Pids, NEW c \in Pids, Forks(a, c),
         NEW s \in Programs', Crashing(s)'
  PROVE  s \in Programs /\ proc'[s] = proc[s] /\ Crashing(s)
<1>1. /\ OthersStay({a, c}) /\ proc'[a].pc = "read" /\ proc'[c].pc = "exec"
      /\ proc'[a].child = c
  BY DEF Forks, GoesOnAt
<1>2. s # a /\ s # c
  BY <1>1 DEF Crashing, NoOutput, At
<1>3. s \in Pids /\ s \in Programs /\ proc'[s] = proc[s]
  BY <1>1, <1>2 DEF OthersStay, Programs, Alive
<1>4. PICK d : d = proc[s].child
  OBVIOUS
<1>5. At(s, "read") => d \in Pids
  BY <1>3, <1>4, ChildIs
<1>6. At(s, "read") => d # a /\ d # c
  BY <1>1, <1>3, <1>4 DEF Crashing, NoOutput, At
<1>7. At(s, "read") => proc'[d] = proc[d]
  BY <1>1, <1>5, <1>6 DEF OthersStay
<1>8. QED
  BY <1>3, <1>4, <1>7, CrashingStays

LEMMA CrashingReads ==
  ASSUME HostInv, NEW a \in Pids, NEW c \in Pids, Reads(a, c) \/ Waits(a, c),
         NEW s \in Programs', Crashing(s)'
  PROVE  s \in Programs /\ Crashing(s)
<1>1. /\ OthersStay({a, c}) /\ a \in Programs /\ proc[c].parent = a
      /\ proc'[a].pc # "read" /\ proc'[a].pc # "zombie"
      /\ proc'[c] = None \/ proc'[c].pc = "zombie"
  BY DEF Reads, Waits, Reaped, GoesOnAt
<1>2. s # c
  BY <1>1 DEF Programs, Alive, Serves
<1>3. CASE s = a
  <2>1. proc'[a].pc = "wait" /\ proc'[a].wants = "url" /\ ~proc'[a].url
    BY <1>1, <1>3 DEF Crashing, NoOutput, At
  <2>2. Reads(a, c)
    BY <2>1 DEF Waits, GoesOnAt
  <2>3. proc[a].wants = "url" /\ proc[c].out = None
    BY <2>1, <2>2 DEF Reads
  <2>4. At(a, "read") /\ c = proc[a].child /\ proc[c].pc = "zombie"
    BY <1>1, <2>2 DEF Reads, At, Programs
  <2>5. c \in Alive
    BY <2>4, ChildIs
  <2>6. QED
    BY <1>1, <1>3, <2>3, <2>4, <2>5 DEF Crashing, NoOutput, At
<1>4. CASE s # a
  <2>1. s \in Pids /\ s \in Programs /\ proc'[s] = proc[s]
    BY <1>1, <1>2, <1>4 DEF OthersStay, Programs, Alive
  <2>2. PICK d : d = proc[s].child
    OBVIOUS
  <2>3. At(s, "read") => d \in Pids /\ proc[d].parent = s
    BY <2>1, <2>2, ChildIs
  <2>4. At(s, "read") => d # c
    BY <1>1, <1>4, <2>3
  <2>5. At(s, "read") => d # a
    BY <1>1, <2>1, <2>2 DEF Crashing, NoOutput, At
  <2>6. At(s, "read") => proc'[d] = proc[d]
    BY <1>1, <2>3, <2>4, <2>5 DEF OthersStay
  <2>7. QED
    BY <2>1, <2>2, <2>6, CrashingStays
<1>5. QED
  BY <1>3, <1>4

LEMMA CrashingParts ==
  ASSUME HostInv, NEW c \in Alive, NEW k, Parts(c, k),
         NEW s \in Programs', Crashing(s)'
  PROVE  /\ s \in Programs /\ proc'[s] = proc[s]
         /\ Crashing(s) \/ (At(s, "read") /\ proc[s].child = c)
         /\ proc[s].wants = "url"
<1>1. s \in Pids /\ s \in Programs /\ proc'[s] = proc[s]
  BY PartsCopies DEF Programs, Alive
<1>2. PICK d : d = proc[s].child
  OBVIOUS
<1>3. At(s, "read") => d \in Pids /\ proc[d].parent = s
  BY <1>1, <1>2, ChildIs
<1>4. At(s, "read") /\ d # c => proc'[d] = proc[d]
  <2>1. SUFFICES ASSUME At(s, "read"), d # c, proc'[d] = None PROVE FALSE
    BY <1>3 DEF Parts
  <2>2. d \in Alive'
    BY <1>1, <1>2, <2>1 DEF Crashing, NoOutput, At
  <2>3. QED
    BY <2>1, <2>2 DEF Alive
<1>5. proc[s].wants = "url"
  BY <1>1 DEF Crashing
<1>6. QED
  BY <1>1, <1>2, <1>4, <1>5, CrashingStays

(* The tool that a program reads the url from ends without one, while      *)
(* another program waits for a copy that goes on with an upload it had     *)
(* answered.                                                               *)
LEMMA TroubleParts ==
  ASSUME HostInv, UrlInv, LackInv, AnsweredInv, TroubleInv, HostMoves,
         NEW p \in Programs, Answered(p), HasCopy(p), proc[p].wants = "id",
         NEW s \in Programs, At(s, "read"), proc[s].wants = "url",
         NEW c \in Pids, c = proc[s].child, NEW k \in Processes \cup {None},
         k # None => k.out = None,
         ToolEnds(c, k) \/ ToolEndsBadly(c, k) \/ Crashes(c, k)
  PROVE  faults' >= 3
<1> p \in Pids /\ s \in Pids
  BY DEF Programs, Alive
<1>1. NoId(proc[p].req) /\ execFails >= 1
  BY CopyFailed
<1>2. faults > execFails \/ NoUrl(proc[p].req)
  <2>1. ~Doomed(p) /\ ~NoOutput(p) /\ ~At(p, "reply")
    BY DEF Doomed, HasCopy, NoOutput, At, Programs, Serves
  <2>2. Spoilt(p)
    BY <2>1 DEF AnsweredInv
  <2>3. QED
    BY <2>1, <2>2 DEF Spoilt, AlsoFailed
<1>3. faults \in Nat /\ execFails \in Nat /\ execFails <= faults
  BY CountsGrow
<1>4. CASE Crashes(c, k)
  <2>1. c \in Programs /\ Crashing(c)
    BY <1>4 DEF Crashes, Crashing, At, Programs
  <2>2. faults >= 3
    BY <2>1 DEF TroubleInv
  <2>3. QED
    BY <2>2, CountsGrow
<1>5. CASE ToolEndsBadly(c, k)
  <2>1. faults >= 2
    BY <1>1, <1>2, <1>3, RequestIsCounted
  <2>2. faults' = faults + 1
    BY <1>5 DEF ToolEndsBadly
  <2>3. QED
    BY <1>3, <2>1, <2>2
<1>6. CASE ToolEnds(c, k)
  <2>1. proc[c].pc = "tool" /\ c \in Alive /\ proc[c].parent = s
    BY <1>6, ChildIs DEF ToolEnds
  <2>2. Forked(c) /\ ReadsFrom(s, c)
    BY <2>1, ChildIs DEF Forked, At
  <2>3. proc[c].wants = "url" /\ proc[c].id = proc[s].id
    BY <2>2 DEF ReadsFrom
  <2>4. k # None
    BY <1>6, <2>1 DEF ToolEnds, Parts, Pids
  <2>5. proc[s].id = 0
    BY <1>6, <2>3, <2>4 DEF ToolEnds
  <2>6. NoId(proc[s].req)
    BY <2>5 DEF NoId, NoIdIn, Idless
  <2>7. proc[s].req # proc[p].req
    <3>1. SUFFICES ASSUME Answered(s) PROVE FALSE
      BY DEF Answered
    <3>2. Doomed(s)
      BY <3>1 DEF AnsweredInv, Spoilt
    <3>3. QED
      BY <2>1, <3>2 DEF Doomed, HasCopy, NoOutput, At, Programs, Serves
  <2>8. execFails >= 2 /\ (NoUrl(proc[p].req) => execFails >= 3)
    BY <1>1, <2>6, <2>7, RequestIsCounted
  <2>9. faults >= 3
    BY <1>2, <1>3, <2>8
  <2>10. QED
    BY <2>9, CountsGrow
<1>7. QED
  BY <1>4, <1>5, <1>6

(* A copy that goes on where p reads the id is alone with its upload, and  *)
(* the others wait for copies of theirs: none of them is about to crash.   *)
LEMMA TroubleNewCopy ==
  ASSUME HostInv, NEW p \in Pids, At(p, "read"), NEW d, d = proc[p].child,
         GoesOnAsCopy(d), proc[p].wants = "id",
         NEW s \in Programs', Crashing(s)'
  PROVE  FALSE
<1>1. /\ d \in Pids /\ proc[d].parent = p /\ d \in Programs
      /\ proc[d].pc = "exec"
  BY ChildIs DEF GoesOnAsCopy, GoesOnAt
<1>2. OneProgram(d)
  BY DEF OneProgram
<1>3. s # d /\ s \in Programs /\ proc'[s] = proc[s] /\ Crashing(s)
  BY <1>1, <1>2, CrashingOneProgram
<1>4. Serving(d)
  BY <1>1 DEF Serving, WaitsForCopy, At
<1>5. s \in Pids /\ WaitsForCopy(s)
  BY <1>1, <1>3, <1>4 DEF HostInv, ServesInv, Serving, Programs, Alive
<1>6. QED
  BY <1>3, <1>5 DEF WaitsForCopy, Crashing, NoOutput, At, Programs, Serves

LEMMA TroubleKeeps ==
  ASSUME HostInv, UrlInv, LackInv, AnsweredInv, TroubleInv, HostMoves
  PROVE  TroubleInv'
<1> SUFFICES ASSUME NEW p \in Programs', NEW s \in Programs',
                    Answered(p)', HasCopy(p)', proc'[p].wants = "id",
                    Crashing(s)'
             PROVE  faults' >= 3
  BY DEF TroubleInv
<1> p \in Pids /\ s \in Pids
  BY DEF Programs, Alive
<1>1. /\ At(p, "read") /\ proc'[p] = proc[p] /\ p \in Programs
      /\ HasCopy(p) \/ GoesOnAsCopy(proc[p].child)
  BY HasCopyStep DEF At, Programs, Serves
<1>2. CASE GoesOnAsCopy(proc[p].child)
  BY <1>1, <1>2, TroubleNewCopy
<1>3. CASE HasCopy(p) /\ \E a \in Pids : Answers(a)
  <2>1. PICK a \in Pids : Answers(a)
    BY <1>3
  <2>2. OneProgram(a) /\ Serving(a) /\ proc[a].pc # "exec"
    BY <2>1, AnswerIs DEF OneProgram
  <2>3. s # a /\ s \in Programs /\ Crashing(s)
    BY <2>2, CrashingOneProgram
  <2>4. HasCopy(s)
    BY <2>2, <2>3, OthersHaveCopies
  <2>5. QED
    BY <2>3, <2>4 DEF HasCopy, Crashing, NoOutput, At, Programs, Serves
<1>4. CASE HasCopy(p) /\ answers' = answers
  <2> Answered(p)
    BY <1>1, <1>4 DEF Answered
  <2>1. CASE s \in Programs /\ Crashing(s)
    <3>1. faults >= 3
      BY <1>1, <1>4, <2>1 DEF TroubleInv
    <3>2. QED
      BY <3>1, CountsGrow
  <2>2. ASSUME NEW a \in Pids, OneProgram(a) PROVE Crashing(s) /\ s \in Programs
    BY <2>2, CrashingOneProgram
  <2>3. ASSUME NEW a \in Pids, NEW c \in Pids,
               Forks(a, c) \/ Reads(a, c) \/ Waits(a, c)
        PROVE  Crashing(s) /\ s \in Programs
    BY <2>3, CrashingForks, CrashingReads
  <2>4. ASSUME NEW c \in Pids, NEW k \in Processes \cup {None},
               ToolEnds(c, k) \/ ToolEndsBadly(c, k) \/ Crashes(c, k)
        PROVE  faults' >= 3
    <3>1. c \in Alive /\ Parts(c, k)
      BY <2>4 DEF ToolEnds, ToolEndsBadly, Crashes, Programs
    <3>2. /\ s \in Programs /\ proc'[s] = proc[s]
          /\ Crashing(s) \/ (At(s, "read") /\ proc[s].child = c)
          /\ proc[s].wants = "url"
      BY <3>1, CrashingParts
    <3>3. CASE At(s, "read") /\ proc[s].child = c
      <4>1. k # None => k.out = None
        BY <3>1, <3>2, <3>3 DEF Crashing, NoOutput, At, Parts
      <4>2. QED
        BY <1>1, <1>4, <2>4, <3>2, <3>3, <4>1, TroubleParts
    <3>4. QED
      BY <2>1, <3>2, <3>3
  <2>5. ASSUME NEW n \in Pids, StartsAnew(n) PROVE FALSE
    BY <1>1, <2>5, AnewCopies DEF HasCopy
  <2>6. CASE UNCHANGED hostVars
    BY <2>1, <2>6 DEF hostVars, Crashing, NoOutput, At, Programs, Alive
  <2>7. QED
    BY <2>1, <2>2, <2>3, <2>4, <2>5, <2>6 DEF HostMoves
<1>5. QED
  BY <1>1, <1>2, <1>3, <1>4, AnswersAre

(* Two answers to one upload, and what failed before the second *)
LEMMA AnsweredOnceKeeps ==
  ASSUME HostInv, AnsweredInv, AnsweredOnce, HostMoves
  PROVE  AnsweredOnce'
<1> SUFFICES ASSUME NEW r \in DOMAIN answers', Len(answers'[r]) > 1
             PROVE  execFails' >= 1 /\ faults' >= 3
  BY DEF AnsweredOnce
<1>1. CASE r \in DOMAIN answers /\ answers'[r] = answers[r]
  <2>1. execFails >= 1 /\ faults >= 3
    BY <1>1 DEF AnsweredOnce
  <2>2. QED
    BY <2>1, CountsGrow
<1>2. ASSUME NEW a \in Pids, Answers(a), r = proc[a].req, r \in DOMAIN answers
      PROVE  execFails >= 1 /\ faults >= 3
  <2>1. answers'[r] = Append(answers[r], proc[a].code)
    BY <1>2 DEF Answers
  <2>2. answers[r] # <<>>
    <3>1. SUFFICES ASSUME answers[r] = <<>> PROVE FALSE
      OBVIOUS
    <3>2. Len(answers'[r]) = 1
      BY <2>1, <3>1
    <3>3. QED
      BY <3>2
  <2>3. a \in Programs /\ Answered(a) /\ proc[a].pc = "reply"
    BY <1>2, <2>2, AnswerIs DEF Answered
  <2>4. ~Doomed(a) /\ ~HasCopy(a)
    BY <2>3 DEF Doomed, HasCopy, NoOutput, At
  <2>5. QED
    BY <2>3, <2>4 DEF AnsweredInv, Spoilt
<1>3. QED
  <2>1. CASE answers' = answers
    BY <1>1, <2>1
  <2>2. ASSUME NEW a \in Pids, Answers(a)
        PROVE  execFails' >= 1 /\ faults' >= 3
    <3>1. CASE r = proc[a].req
      <4>1. execFails >= 1 /\ faults >= 3
        BY <1>2, <2>2, <3>1, AnswerIs
      <4>2. QED
        BY <4>1, CountsGrow
    <3>2. CASE r # proc[a].req
      BY <1>1, <2>2, <3>2, AnswerIs
    <3>3. QED
      BY <3>1, <3>2
  <2>3. QED
    BY <2>1, <2>2, AnswersAre

AnswerInv == CopyInv /\ IdlessInv /\ EarlyInv /\ AnsweredInv /\ TroubleInv

LEMMA InitAnswersNothing ==
  ASSUME HostInit
  PROVE  AnswerInv /\ AnsweredOnce
<1>1. \A p \in Programs : proc[p] = Fresh
  BY DEF HostInit, Programs, Alive
<1>2. Fresh.pc = "accept"
  BY DEF Fresh
<1>3. \A r \in DOMAIN answers : answers[r] = <<>>
  BY DEF HostInit
<1>4. \A p \in Programs : ~HasCopy(p) /\ proc[p].pc # "reply"
  BY <1>1, <1>2 DEF HasCopy, At
<1>5. \A p \in Programs : ~Answered(p)
  BY <1>3 DEF Answered
<1>6. AnsweredOnce
  BY <1>3 DEF AnsweredOnce
<1>7. QED
  BY <1>3, <1>4, <1>5, <1>6 DEF AnswerInv, CopyInv, IdlessInv, EarlyInv,
     AnsweredInv, TroubleInv

(* An upload is answered twice only after an execlp and two more failures: *)
(* the program that waits for a copy of itself, which answered, answers    *)
(* when the copy has crashed.                                              *)
THEOREM AnsweredOnceStays == HostSpec => []AnsweredOnce
<1>1. HostInit => UrlInv /\ LackInv /\ AnswerInv /\ AnsweredOnce
  BY InitLacksNothing, InitAnswersNothing
<1>2. HostInv /\ UrlInv /\ LackInv /\ AnswerInv /\ AnsweredOnce /\ HostInv'
        /\ [HostNext]_hostVars
        => UrlInv' /\ LackInv' /\ AnswerInv' /\ AnsweredOnce'
  <2>1. SUFFICES ASSUME HostInv, UrlInv, LackInv, AnswerInv, AnsweredOnce,
                        HostInv', [HostNext]_hostVars
                 PROVE  UrlInv' /\ LackInv' /\ AnswerInv' /\ AnsweredOnce'
    OBVIOUS
  <2>2. HostMoves
    BY <2>1, HostDoes
  <2>3. UrlInv' /\ LackInv'
    BY <2>1, <2>2, UrlKeeps, LackKeeps
  <2>4. CopyInv' /\ IdlessInv' /\ EarlyInv'
    BY <2>1, <2>2, CopyKeeps, IdlessKeeps, EarlyKeeps DEF AnswerInv
  <2>5. AnsweredInv' /\ TroubleInv' /\ AnsweredOnce'
    BY <2>1, <2>2, AnsweredKeeps, TroubleKeeps, AnsweredOnceKeeps
       DEF AnswerInv
  <2>6. QED
    BY <2>3, <2>4, <2>5 DEF AnswerInv
<1>3. QED
  BY <1>1, <1>2, HostInvAlways, PTL DEF HostSpec
=============================================================================
