---------------------------- MODULE SessionProofs ----------------------------
(***************************************************************************)
(* Session for all users, passwords and bounds: who was answered 002 is    *)
(* admitted, who is accepted is registered or sent the empty password, and *)
(* the last answer is stored.                                              *)
(***************************************************************************)
EXTENDS Session, TLAPS

(* What a program that has accepted a request knows of it. *)
RegisterLocals ==
  register.pc # "idle" =>
    register.user \in Users /\ register.nick \in Nicks /\ register.pwd \in Pwds

LoginLocals ==
  /\ login.pc # "idle" => login.user \in Users /\ login.pwd \in Pwds
  /\ login.code = "000" => login.pc = "reply" /\ login.token \in Tokens

VerifyLocals ==
  verify.pc # "idle" => verify.user \in Users /\ verify.token \in Tokens

Typed == TypeOK /\ RegisterLocals /\ LoginLocals /\ VerifyLocals

(* The row of a user, which no statement changes or deletes once it exists *)
HasRow(u)     == user_info[u] # None
HasPwd(u, p)  == HasRow(u) /\ user_info[u].pwd = p

(* Who may have a token: a user with a row, or let in without one *)
Entitled(u)   == HasRow(u) \/ u \in blank

Rows ==
  /\ \A u \in Users : stored[u] # None => Entitled(u)
  /\ login.pc = "setex" => Entitled(login.user)
  /\ verify.pc = "accepted" => Entitled(verify.user)
  /\ register.pc = "reply" /\ register.code = "002" =>
       HasPwd(register.user, register.pwd)
  /\ \A u \in Users, p \in Pwds : <<u, p>> \in known => HasPwd(u, p)

(* A login that is about to answer with a token has stored that token. *)
Answered ==
  /\ LastAnswerIsStored
  /\ faults = 0 /\ login.code = "000" =>
       /\ stored[login.user] # None
       /\ stored[login.user].token = login.token

-----------------------------------------------------------------------------
(* The programs: idle, at their statements, and when a call fails or they  *)
(* are killed.                                                             *)

LEMMA IdleRecords ==
  /\ RegisterIdle.pc = "idle"
  /\ LoginIdle.pc = "idle" /\ LoginIdle.code = ""
BY DEF RegisterIdle, LoginIdle

LEMMA RegisterIdleTyped ==
  ASSUME register' = RegisterIdle
  PROVE  RegisterTypeOK' /\ RegisterLocals'
BY DEF RegisterIdle, RegisterTypeOK, RegisterLocals

LEMMA LoginIdleTyped ==
  ASSUME login' = LoginIdle
  PROVE  LoginTypeOK' /\ LoginLocals'
BY DEF LoginIdle, LoginTypeOK, LoginLocals

LEMMA VerifyIdleTyped ==
  ASSUME verify' = VerifyIdle
  PROVE  VerifyTypeOK' /\ VerifyLocals'
BY DEF VerifyIdle, VerifyTypeOK, VerifyLocals

LEMMA RegisterTyped ==
  ASSUME RegisterTypeOK, RegisterLocals,
         \/ \E u \in Users, n \in Nicks, p \in Pwds : RegisterAccept(u, n, p)
         \/ RegisterStep \/ RegisterFails \/ RegisterKilled
         \/ UNCHANGED register
  PROVE  RegisterTypeOK' /\ RegisterLocals'
<1>1. CASE RegisterReply \/ RegisterKilled
  BY <1>1, RegisterIdleTyped DEF RegisterReply, RegisterKilled
<1>2. ASSUME NEW u \in Users, NEW n \in Nicks, NEW p \in Pwds,
             RegisterAccept(u, n, p)
      PROVE  RegisterTypeOK' /\ RegisterLocals'
  BY <1>2 DEF RegisterAccept, RegisterIdle, RegisterTypeOK, RegisterLocals
<1>3. CASE RegisterSelect
  BY <1>3 DEF RegisterSelect, RegisterTypeOK, RegisterLocals
<1>4. CASE RegisterInsert \/ RegisterFails
  <2>1. RegisterReplies("002") \/ RegisterReplies("004")
    BY <1>4 DEF RegisterInsert, RegisterFails
  <2>2. register.pc # "idle"
    BY <1>4 DEF RegisterInsert, RegisterFails
  <2>3. QED
    BY <2>1, <2>2 DEF RegisterReplies, RegisterTypeOK, RegisterLocals
<1>5. CASE UNCHANGED register
  BY <1>5 DEF RegisterTypeOK, RegisterLocals
<1>6. QED
  BY <1>1, <1>2, <1>3, <1>4, <1>5 DEF RegisterStep

LEMMA NewToken ==
  ASSUME StoresTypeOK, NEW u \in Users
  PROVE  /\ <<u, now>> \in Tokens
         /\ [token |-> <<u, now>>, until |-> now + Lifetime] \in Keys
BY LifetimeIsNat DEF StoresTypeOK, Tokens, Keys

LEMMA LoginTyped ==
  ASSUME StoresTypeOK, LoginTypeOK, LoginLocals,
         \/ \E u \in Users, p \in Pwds : LoginAccept(u, p)
         \/ LoginStep \/ LoginFails \/ LoginMisreads \/ LoginKilled
         \/ UNCHANGED login
  PROVE  LoginTypeOK' /\ LoginLocals'
<1>1. CASE LoginReply \/ LoginKilled
  BY <1>1, LoginIdleTyped DEF LoginReply, LoginKilled
<1>2. ASSUME NEW u \in Users, NEW p \in Pwds, LoginAccept(u, p)
      PROVE  LoginTypeOK' /\ LoginLocals'
  BY <1>2 DEF LoginAccept, LoginIdle, LoginTypeOK, LoginLocals
<1>3. CASE LoginSelect \/ LoginMisreads \/ LoginFails
  <2>1. \/ LoginReplies("001")
        \/ login.pc = "select" /\ login' = [login EXCEPT !.pc = "setex"]
    BY <1>3 DEF LoginSelect, LoginMisreads, LoginCompares, LoginFails
  <2>2. login.pc \in {"select", "setex"}
    BY <1>3 DEF LoginSelect, LoginMisreads, LoginFails
  <2>3. QED
    BY <2>1, <2>2 DEF LoginReplies, LoginTypeOK, LoginLocals
<1>4. CASE LoginSetex
  <2>1. login.user \in Users
    BY <1>4 DEF LoginSetex, LoginLocals
  <2>2. <<login.user, now>> \in Tokens
    BY <2>1, NewToken
  <2>3. login' = [login EXCEPT !.pc = "reply", !.code = "000",
                               !.token = <<login.user, now>>]
        /\ login.pc # "idle"
    BY <1>4 DEF LoginSetex
  <2>4. QED
    BY <2>2, <2>3 DEF LoginTypeOK, LoginLocals
<1>5. CASE UNCHANGED login
  BY <1>5 DEF LoginTypeOK, LoginLocals
<1>6. QED
  BY <1>1, <1>2, <1>3, <1>4, <1>5 DEF LoginStep

LEMMA VerifyTyped ==
  ASSUME VerifyTypeOK, VerifyLocals, ClientsTypeOK,
         \/ \E u \in Users : \E i \in DOMAIN answers[u] :
              VerifyAccept(u, answers[u][i])
         \/ VerifyStep \/ VerifyFails
         \/ UNCHANGED verify
  PROVE  VerifyTypeOK' /\ VerifyLocals'
<1>1. CASE VerifyReturn
  BY <1>1, VerifyIdleTyped DEF VerifyReturn
<1>2. ASSUME NEW u \in Users, NEW i \in DOMAIN answers[u],
             VerifyAccept(u, answers[u][i])
      PROVE  VerifyTypeOK' /\ VerifyLocals'
  <2>1. answers[u] \in Seq(Tokens)
    BY DEF ClientsTypeOK
  <2>2. answers[u][i] \in Tokens
    BY <2>1, <1>2
  <2>3. verify' = [pc |-> "get", user |-> u, token |-> answers[u][i]]
    BY <1>2 DEF VerifyAccept
  <2>4. QED
    BY <2>2, <2>3 DEF VerifyTypeOK, VerifyLocals
<1>3. CASE VerifyGet \/ VerifyFails
  <2>1. verify.pc # "idle"
    BY <1>3 DEF VerifyGet, VerifyFails
  <2>2. \/ verify' = [verify EXCEPT !.pc = "accepted"]
        \/ verify' = [verify EXCEPT !.pc = "refused"]
    BY <1>3 DEF VerifyGet, VerifyFails
  <2>3. QED
    BY <2>1, <2>2 DEF VerifyTypeOK, VerifyLocals
<1>4. CASE UNCHANGED verify
  BY <1>4 DEF VerifyTypeOK, VerifyLocals
<1>5. QED
  BY <1>1, <1>2, <1>3, <1>4 DEF VerifyStep

-----------------------------------------------------------------------------
(* What the statements on the stores do. *)

LEMMA InsertRow ==
  ASSUME StoresTypeOK, RegisterTypeOK, RegisterLocals, RegisterInsert
  PROVE  /\ user_info' \in [Users -> UserRows \cup {None}]
         /\ \A u \in Users : HasRow(u) => user_info'[u] = user_info[u]
         /\ register'.code = "002" =>
              user_info'[register.user] =
                [nick |-> register.nick, pwd |-> register.pwd]
<1>1. register.user \in Users /\ register.nick \in Nicks
      /\ register.pwd \in Pwds
  BY DEF RegisterLocals, RegisterInsert
<1>2. CASE Taken(register.user, register.nick)
  <2>1. user_info' = user_info /\ RegisterReplies("004")
    BY <1>2 DEF RegisterInsert
  <2>2. register'.code = "004"
    BY <2>1 DEF RegisterReplies, RegisterTypeOK
  <2>3. QED
    BY <2>1, <2>2 DEF StoresTypeOK
<1>3. CASE ~Taken(register.user, register.nick)
  <2>1. user_info' = [user_info EXCEPT ![register.user] =
                        [nick |-> register.nick, pwd |-> register.pwd]]
    BY <1>3 DEF RegisterInsert
  <2>2. ~HasRow(register.user)
    BY <1>3 DEF Taken, HasRow
  <2>3. [nick |-> register.nick, pwd |-> register.pwd] \in UserRows
    BY <1>1 DEF UserRows
  <2>4. QED
    BY <1>1, <2>1, <2>2, <2>3 DEF StoresTypeOK
<1>4. QED
  BY <1>2, <1>3

(* The steps that leave Redis, MySQL or the clients alone *)
LEMMA WhoWrites ==
  ASSUME [Next]_vars
  PROVE  /\ UNCHANGED user_info \/ RegisterInsert
         /\ UNCHANGED stored \/ LoginSetex
         /\ UNCHANGED known \/ RegisterReply
         /\ UNCHANGED answers \/ LoginReply
         /\ UNCHANGED blank \/ LoginSelect \/ LoginMisreads
         /\ \/ UNCHANGED login
            \/ \E u \in Users, p \in Pwds : LoginAccept(u, p)
            \/ LoginStep \/ LoginFails \/ LoginMisreads \/ LoginKilled
         /\ \/ UNCHANGED register
            \/ \E u \in Users, n \in Nicks, p \in Pwds : RegisterAccept(u, n, p)
            \/ RegisterStep \/ RegisterFails \/ RegisterKilled
         /\ \/ UNCHANGED verify
            \/ \E u \in Users : \E i \in DOMAIN answers[u] :
                 VerifyAccept(u, answers[u][i])
            \/ VerifyStep \/ VerifyFails
<1>1. CASE Ask
  BY <1>1 DEF Ask, RegisterAccept, LoginAccept, VerifyAccept, clientVars
<1>2. CASE RegisterStep
  BY <1>2 DEF RegisterStep, RegisterSelect, RegisterInsert, RegisterReply,
              clientVars
<1>3. CASE LoginStep
  BY <1>3 DEF LoginStep, LoginSelect, LoginCompares, LoginSetex, LoginReply,
              clientVars
<1>4. CASE VerifyStep
  BY <1>4 DEF VerifyStep, VerifyGet, VerifyReturn, clientVars
<1>5. CASE Tick
  BY <1>5 DEF Tick, clientVars
<1>6. CASE RegisterFails \/ RegisterKilled
  BY <1>6 DEF RegisterFails, RegisterKilled, Faulty, clientVars
<1>7. CASE LoginFails \/ LoginMisreads \/ LoginKilled
  BY <1>7 DEF LoginFails, LoginMisreads, LoginCompares, LoginKilled, Faulty,
              clientVars
<1>8. CASE VerifyFails
  BY <1>8 DEF VerifyFails, Faulty, clientVars
<1>9. CASE Done \/ UNCHANGED vars
  BY <1>9 DEF Done, vars, clientVars
<1>10. QED
  BY <1>1, <1>2, <1>3, <1>4, <1>5, <1>6, <1>7, <1>8, <1>9 DEF Next

(* The numbers only grow. *)
LEMMA NumbersGrow ==
  ASSUME StoresTypeOK, ClientsTypeOK, [Next]_vars
  PROVE  /\ now' \in Nat /\ requests' \in Nat /\ faults' \in Nat
         /\ faults' = 0 => faults = 0
<1> USE DEF StoresTypeOK, ClientsTypeOK
<1>1. CASE UNCHANGED <<now, requests, faults>>
  BY <1>1
<1>2. CASE now' = now + 1 /\ UNCHANGED boundVars
  BY <1>2 DEF boundVars
<1>3. CASE UNCHANGED now /\ (Asked \/ Faulty)
  BY <1>3 DEF Asked, Faulty
<1>4. \/ UNCHANGED <<now, requests, faults>>
      \/ now' = now + 1 /\ UNCHANGED boundVars
      \/ UNCHANGED now /\ (Asked \/ Faulty)
  <2>1. CASE Ask
    BY <2>1 DEF Ask, RegisterAccept, LoginAccept, VerifyAccept
  <2>2. CASE RegisterStep
    BY <2>2 DEF RegisterStep, RegisterSelect, RegisterInsert, RegisterReply,
                boundVars
  <2>3. CASE LoginStep \/ VerifyStep
    BY <2>3 DEF LoginStep, LoginSelect, LoginCompares, LoginSetex, LoginReply,
                VerifyStep, VerifyGet, VerifyReturn, boundVars
  <2>4. CASE Tick
    BY <2>4 DEF Tick
  <2>5. CASE RegisterFails \/ RegisterKilled \/ LoginFails
             \/ LoginMisreads \/ LoginKilled \/ VerifyFails
    BY <2>5 DEF RegisterFails, RegisterKilled, LoginFails, LoginMisreads,
                LoginKilled, VerifyFails, Faulty
  <2>6. CASE Done \/ UNCHANGED vars
    BY <2>6 DEF Done, vars, boundVars
  <2>7. QED
    BY <2>1, <2>2, <2>3, <2>4, <2>5, <2>6 DEF Next
<1>5. QED
  BY <1>1, <1>2, <1>3, <1>4

(* What strcmp decides: who gets a token has a row, or is noted down as    *)
(* let in without one.                                                     *)
LEMMA LoginCompared ==
  ASSUME StoresTypeOK, LoginTypeOK, LoginLocals, ClientsTypeOK,
         LoginSelect \/ LoginMisreads
  PROVE  /\ login.pc = "select" /\ login.user \in Users
         /\ blank' \in SUBSET Users /\ blank \subseteq blank'
         /\ \/ /\ login' = [login EXCEPT !.pc = "setex"]
               /\ HasRow(login.user) \/ login.user \in blank'
            \/ LoginReplies("001") /\ UNCHANGED blank
<1>1. PICK tmp : /\ LoginCompares(tmp)
                 /\ HasRow(login.user) \/ tmp = Empty
  BY DEF LoginSelect, LoginMisreads, HasRow
<1>2. login.pc = "select" /\ login.user \in Users
  BY DEF LoginSelect, LoginMisreads, LoginLocals
<1>3. CASE tmp = login.pwd
  <2>1. /\ login' = [login EXCEPT !.pc = "setex"]
        /\ blank' = blank \cup {u \in {login.user} :
                               login.pwd = Empty /\ user_info[u] = None}
    BY <1>1, <1>3 DEF LoginCompares
  <2>2. HasRow(login.user) \/ login.user \in blank'
    BY <1>1, <1>3, <2>1 DEF HasRow
  <2>3. QED
    BY <1>2, <2>1, <2>2 DEF ClientsTypeOK
<1>4. CASE tmp # login.pwd
  BY <1>1, <1>2, <1>4 DEF LoginCompares, ClientsTypeOK
<1>5. QED
  BY <1>3, <1>4

LEMMA InitTyped == Init => Typed
<1> SUFFICES ASSUME Init
             PROVE  Typed
  OBVIOUS
<1>1. RegisterTypeOK /\ RegisterLocals
  BY DEF Init, RegisterIdle, RegisterTypeOK, RegisterLocals
<1>2. LoginTypeOK /\ LoginLocals
  BY DEF Init, LoginIdle, LoginTypeOK, LoginLocals
<1>3. VerifyTypeOK /\ VerifyLocals
  BY DEF Init, VerifyIdle, VerifyTypeOK, VerifyLocals
<1>4. StoresTypeOK
  BY DEF Init, StoresTypeOK
<1>5. ClientsTypeOK
  <2>1. <<>> \in Seq(Tokens)
    OBVIOUS
  <2>2. QED
    BY <2>1 DEF Init, ClientsTypeOK
<1>6. QED
  BY <1>1, <1>2, <1>3, <1>4, <1>5 DEF Typed, TypeOK

LEMMA NextTyped == Typed /\ [Next]_vars => Typed'
<1> SUFFICES ASSUME Typed, [Next]_vars
             PROVE  Typed'
  OBVIOUS
<1>1. RegisterTypeOK' /\ RegisterLocals'
  BY WhoWrites, RegisterTyped DEF Typed, TypeOK
<1>2. LoginTypeOK' /\ LoginLocals'
  BY WhoWrites, LoginTyped DEF Typed, TypeOK
<1>3. VerifyTypeOK' /\ VerifyLocals'
  BY WhoWrites, VerifyTyped DEF Typed, TypeOK
<1>4. StoresTypeOK'
  <2>1. user_info' \in [Users -> UserRows \cup {None}]
    BY WhoWrites, InsertRow DEF Typed, TypeOK, StoresTypeOK
  <2>2. stored' \in [Users -> Keys \cup {None}]
    <3>1. CASE UNCHANGED stored
      BY <3>1 DEF Typed, TypeOK, StoresTypeOK
    <3>2. CASE LoginSetex
      <4>1. login.user \in Users
        BY <3>2 DEF LoginSetex, Typed, LoginLocals
      <4>2. [token |-> <<login.user, now>>, until |-> now + Lifetime] \in Keys
        BY <4>1, NewToken DEF Typed, TypeOK
      <4>3. QED
        BY <3>2, <4>1, <4>2 DEF LoginSetex, Typed, TypeOK, StoresTypeOK
    <3>3. QED
      BY <3>1, <3>2, WhoWrites
  <2>3. now' \in Nat
    BY NumbersGrow DEF Typed, TypeOK
  <2>4. QED
    BY <2>1, <2>2, <2>3 DEF StoresTypeOK
<1>5. ClientsTypeOK'
  <2>1. known' \in SUBSET (Users \X Pwds)
    <3>1. CASE UNCHANGED known
      BY <3>1 DEF Typed, TypeOK, ClientsTypeOK
    <3>2. CASE RegisterReply
      BY <3>2 DEF RegisterReply, Typed, TypeOK, ClientsTypeOK, RegisterLocals
    <3>3. QED
      BY <3>1, <3>2, WhoWrites
  <2>2. answers' \in [Users -> Seq(Tokens)]
    <3>1. CASE UNCHANGED answers
      BY <3>1 DEF Typed, TypeOK, ClientsTypeOK
    <3>2. CASE LoginReply /\ login.code = "000"
      <4>1. login.user \in Users /\ login.token \in Tokens
        BY <3>2 DEF Typed, LoginLocals
      <4>2. answers[login.user] \in Seq(Tokens)
        BY <4>1 DEF Typed, TypeOK, ClientsTypeOK
      <4>3. Append(answers[login.user], login.token) \in Seq(Tokens)
        BY <4>1, <4>2
      <4>4. QED
        BY <3>2, <4>1, <4>3 DEF LoginReply, Typed, TypeOK, ClientsTypeOK
    <3>3. CASE LoginReply /\ login.code # "000"
      BY <3>3 DEF LoginReply, Typed, TypeOK, ClientsTypeOK
    <3>4. QED
      BY <3>1, <3>2, <3>3, WhoWrites
  <2>3. requests' \in Nat /\ faults' \in Nat
    BY NumbersGrow DEF Typed, TypeOK
  <2>4. blank' \in SUBSET Users
    BY WhoWrites, LoginCompared DEF Typed, TypeOK, ClientsTypeOK
  <2>5. QED
    BY <2>1, <2>2, <2>3, <2>4 DEF ClientsTypeOK
<1>6. QED
  BY <1>1, <1>2, <1>3, <1>4, <1>5 DEF Typed, TypeOK

(* Rows, keys, locals and answers always have their types: in particular   *)
(* every token in Redis has a second at which it expires.                  *)
THEOREM SessionTypes == Spec => []TypeOK
<1>1. Spec => []Typed
  BY InitTyped, NextTyped, PTL DEF Spec
<1>2. Typed => TypeOK
  BY DEF Typed
<1>3. QED
  BY <1>1, <1>2, PTL

-----------------------------------------------------------------------------
(* Rows *)

LEMMA InitRows == Init => Rows
<1> SUFFICES ASSUME Init
             PROVE  Rows
  OBVIOUS
<1>1. \A u \in Users : stored[u] = None
  BY DEF Init
<1>2. register.pc = "idle" /\ login.pc = "idle" /\ verify.pc = "idle"
  BY DEF Init, RegisterIdle, LoginIdle, VerifyIdle
<1>3. known = {}
  BY DEF Init
<1>4. QED
  BY <1>1, <1>2, <1>3 DEF Rows

(* No statement changes or deletes a row. *)
LEMMA RowsStay ==
  ASSUME Typed, [Next]_vars, NEW u \in Users, HasRow(u)
  PROVE  user_info'[u] = user_info[u] /\ HasRow(u)'
<1>1. user_info'[u] = user_info[u]
  BY WhoWrites, InsertRow DEF Typed, TypeOK
<1>2. QED
  BY <1>1 DEF HasRow

(* Nobody let in without a row is forgotten. *)
LEMMA EntitledStay ==
  ASSUME Typed, [Next]_vars, NEW u \in Users, Entitled(u)
  PROVE  Entitled(u)'
<1>1. CASE HasRow(u)
  BY <1>1, RowsStay DEF Entitled
<1>2. CASE u \in blank
  BY <1>2, WhoWrites, LoginCompared DEF Entitled, Typed, TypeOK
<1>3. QED
  BY <1>1, <1>2 DEF Entitled

LEMMA NextRows == Typed /\ Rows /\ [Next]_vars => Rows'
<1> SUFFICES ASSUME Typed, Rows, [Next]_vars
             PROVE  Rows'
  OBVIOUS
<1>1. (\A u \in Users : stored[u] # None => Entitled(u))'
  <2> SUFFICES ASSUME NEW u \in Users, stored'[u] # None
               PROVE  Entitled(u)'
    OBVIOUS
  <2>1. CASE UNCHANGED stored
    BY <2>1, EntitledStay DEF Rows
  <2>2. CASE LoginSetex
    <3>1. u = login.user \/ stored[u] # None
      BY <2>2 DEF LoginSetex, Typed, TypeOK, StoresTypeOK
    <3>2. Entitled(u)
      BY <2>2, <3>1 DEF LoginSetex, Rows
    <3>3. QED
      BY <3>2, EntitledStay
  <2>3. QED
    BY <2>1, <2>2, WhoWrites
<1>2. (login.pc = "setex" => Entitled(login.user))'
  <2> SUFFICES ASSUME login'.pc = "setex"
               PROVE  Entitled(login.user)'
    OBVIOUS
  <2>1. /\ login'.user = login.user /\ login'.user \in Users
        /\ Entitled(login.user)'
    <3>1. CASE UNCHANGED login
      <4>1. login.user \in Users /\ Entitled(login.user)
        BY <3>1 DEF Rows, Typed, LoginLocals
      <4>2. Entitled(login.user)'
        <5>1. \A u \in Users : Entitled(u) => Entitled(u)'
          BY EntitledStay
        <5>2. QED
          BY <3>1, <4>1, <5>1 DEF Entitled, HasRow
      <4>3. QED
        BY <3>1, <4>1, <4>2
    <3>2. CASE LoginSelect \/ LoginMisreads
      <4>1. /\ login.user \in Users
            /\ login' = [login EXCEPT !.pc = "setex"]
            /\ HasRow(login.user) \/ login.user \in blank'
        BY <3>2, LoginCompared DEF LoginReplies, Typed, TypeOK, LoginTypeOK
      <4>2. login'.user = login.user
        BY <4>1 DEF Typed, TypeOK, LoginTypeOK
      <4>3. HasRow(login.user) => user_info'[login.user] # None
        BY <4>1, RowsStay DEF HasRow
      <4>4. QED
        BY <4>1, <4>2, <4>3 DEF Entitled, HasRow
    <3>3. ~(\E u \in Users, p \in Pwds : LoginAccept(u, p))
          /\ ~LoginReply /\ ~LoginKilled
      <4>1. ASSUME NEW u \in Users, NEW p \in Pwds, LoginAccept(u, p)
            PROVE  FALSE
        BY <4>1 DEF LoginAccept, LoginIdle
      <4>2. ~LoginReply /\ ~LoginKilled
        BY IdleRecords DEF LoginReply, LoginKilled
      <4>3. QED
        BY <4>1, <4>2
    <3>4. ~LoginSetex /\ ~LoginFails
      BY DEF LoginSetex, LoginFails, LoginReplies, Typed, TypeOK, LoginTypeOK
    <3>5. QED
      BY <3>1, <3>2, <3>3, <3>4, WhoWrites DEF LoginStep
  <2>2. QED
    BY <2>1
<1>3. (verify.pc = "accepted" => Entitled(verify.user))'
  <2> SUFFICES ASSUME verify'.pc = "accepted"
               PROVE  Entitled(verify.user)'
    OBVIOUS
  <2>1. /\ verify'.user = verify.user /\ verify'.user \in Users
        /\ Entitled(verify.user)
    <3>1. CASE UNCHANGED verify
      BY <3>1 DEF Rows, Typed, VerifyLocals
    <3>2. CASE VerifyGet
      <4>1. /\ stored[verify.user] # None
            /\ verify' = [verify EXCEPT !.pc = "accepted"]
        BY <3>2 DEF VerifyGet, Typed, TypeOK, VerifyTypeOK
      <4>2. verify.user \in Users
        BY <3>2 DEF VerifyGet, Typed, VerifyLocals
      <4>3. QED
        BY <4>1, <4>2 DEF Rows, Typed, TypeOK, VerifyTypeOK
    <3>3. CASE \/ \E u \in Users : \E i \in DOMAIN answers[u] :
                    VerifyAccept(u, answers[u][i])
               \/ VerifyReturn \/ VerifyFails
      BY <3>3 DEF VerifyAccept, VerifyReturn, VerifyFails, VerifyIdle,
                  Typed, TypeOK, VerifyTypeOK
    <3>4. QED
      BY <3>1, <3>2, <3>3, WhoWrites DEF VerifyStep
  <2>2. \A u \in Users : Entitled(u) => Entitled(u)'
    BY EntitledStay
  <2>3. QED
    BY <2>1, <2>2 DEF Entitled, HasRow
<1>4. (register.pc = "reply" /\ register.code = "002" =>
         HasPwd(register.user, register.pwd))'
  <2> SUFFICES ASSUME register'.pc = "reply", register'.code = "002"
               PROVE  HasPwd(register.user, register.pwd)'
    OBVIOUS
  <2>1. CASE UNCHANGED register
    <3>1. HasPwd(register.user, register.pwd) /\ register.user \in Users
      BY <2>1 DEF Rows, Typed, RegisterLocals
    <3>2. user_info'[register.user] = user_info[register.user]
      BY <3>1, RowsStay DEF HasPwd
    <3>3. QED
      BY <2>1, <3>1, <3>2 DEF HasPwd, HasRow
  <2>2. CASE RegisterInsert
    <3>1. /\ register.user \in Users /\ register.nick \in Nicks
          /\ register.pwd \in Pwds
          /\ register'.user = register.user /\ register'.pwd = register.pwd
      BY <2>2 DEF RegisterInsert, RegisterReplies, Typed, TypeOK,
                  RegisterTypeOK, RegisterLocals
    <3>2. user_info'[register.user] =
            [nick |-> register.nick, pwd |-> register.pwd]
      BY <2>2, InsertRow DEF Typed, TypeOK
    <3>3. [nick |-> register.nick, pwd |-> register.pwd] \in UserRows
      BY <3>1 DEF UserRows
    <3>4. user_info'[register.user] # None
      BY <3>2, <3>3, NoneIsNoRow
    <3>5. QED
      BY <3>1, <3>2, <3>4 DEF HasPwd, HasRow
  <2>3. ~(\E u \in Users, n \in Nicks, p \in Pwds : RegisterAccept(u, n, p))
        /\ ~RegisterReply /\ ~RegisterKilled
    <3>1. ASSUME NEW u \in Users, NEW n \in Nicks, NEW p \in Pwds,
                 RegisterAccept(u, n, p)
          PROVE  FALSE
      BY <3>1 DEF RegisterAccept, RegisterIdle
    <3>2. ~RegisterReply /\ ~RegisterKilled
      BY IdleRecords DEF RegisterReply, RegisterKilled
    <3>3. QED
      BY <3>1, <3>2
  <2>4. ~RegisterSelect /\ ~RegisterFails
    BY DEF RegisterSelect, RegisterFails, RegisterReplies, Typed, TypeOK,
           RegisterTypeOK
  <2>5. QED
    BY <2>1, <2>2, <2>3, <2>4, WhoWrites DEF RegisterStep
<1>5. (\A u \in Users, p \in Pwds : <<u, p>> \in known => HasPwd(u, p))'
  <2> SUFFICES ASSUME NEW u \in Users, NEW p \in Pwds, <<u, p>> \in known'
               PROVE  HasPwd(u, p)'
    OBVIOUS
  <2>1. HasPwd(u, p)
    <3>1. CASE UNCHANGED known
      BY <3>1 DEF Rows
    <3>2. CASE RegisterReply
      BY <3>2 DEF RegisterReply, Rows
    <3>3. QED
      BY <3>1, <3>2, WhoWrites
  <2>2. user_info'[u] = user_info[u]
    BY <2>1, RowsStay DEF HasPwd
  <2>3. QED
    BY <2>1, <2>2 DEF HasPwd, HasRow
<1>6. QED
  BY <1>1, <1>2, <1>3, <1>4, <1>5 DEF Rows

LEMMA RowsAlways == Spec => [](Typed /\ Rows)
<1>1. Init => Typed /\ Rows
  BY InitTyped, InitRows
<1>2. Typed /\ Rows /\ [Next]_vars => (Typed /\ Rows)'
  BY NextTyped, NextRows
<1>3. QED
  BY <1>1, <1>2, PTL DEF Spec

(* A token that verify_token accepts belongs to a registered user or to    *)
(* one whom check_user_pwd let in with the empty password, for all numbers *)
(* of users, requests and faults, and whatever the lifetime.               *)
THEOREM AcceptedStaysRegistered == Spec => []AcceptedIsRegistered
<1>1. Rows => AcceptedIsRegistered
  BY DEF Rows, Entitled, HasRow, AcceptedIsRegistered
<1>2. QED
  BY <1>1, RowsAlways, PTL

(* check_user_pwd refuses no user who was answered 002 for that password,  *)
(* unless a call fails: user_register answers 002 after its INSERT only,   *)
(* and no statement of the programs changes the row.                       *)
THEOREM RegisteredStaysAdmitted == Spec => RegisteredIsAdmitted
<1> DEFINE Admits == login.pc = "select" /\ login.pc' = "reply" /\ faults' = faults
                       => <<login.user, login.pwd>> \notin known
<1>1. Typed /\ Rows /\ [Next]_vars => [Admits]_vars
  <2> SUFFICES ASSUME Typed, Rows, [Next]_vars,
                      login.pc = "select", login.pc' = "reply",
                      faults' = faults, <<login.user, login.pwd>> \in known
               PROVE  FALSE
    OBVIOUS
  <2>1. LoginSelect
    <3>1. ~LoginFails /\ ~LoginMisreads /\ ~LoginKilled
      BY DEF LoginFails, LoginMisreads, LoginKilled, Faulty, Typed, TypeOK,
             ClientsTypeOK
    <3>2. ~(\E u \in Users, p \in Pwds : LoginAccept(u, p))
          /\ ~LoginSetex /\ ~LoginReply
      BY DEF LoginAccept, LoginSetex, LoginReply
    <3>3. QED
      BY <3>1, <3>2, WhoWrites DEF LoginStep
  <2>2. login.user \in Users /\ login.pwd \in Pwds
    BY DEF Typed, LoginLocals
  <2>3. HasPwd(login.user, login.pwd)
    BY <2>2 DEF Rows
  <2>4. login' = [login EXCEPT !.pc = "setex"]
    BY <2>1, <2>3 DEF LoginSelect, LoginCompares, HasPwd, HasRow
  <2>5. login'.pc = "setex"
    BY <2>4 DEF Typed, TypeOK, LoginTypeOK
  <2>6. QED
    BY <2>5
<1>2. QED
  BY <1>1, RowsAlways, PTL DEF Spec, RegisteredIsAdmitted

-----------------------------------------------------------------------------
(* Answers *)

LEMMA InitAnswered == Init => Answered
<1> SUFFICES ASSUME Init
             PROVE  Answered
  OBVIOUS
<1>1. \A u \in Users : answers[u] = <<>>
  BY DEF Init
<1>2. login.code = ""
  BY DEF Init, LoginIdle
<1>3. QED
  BY <1>1, <1>2 DEF Answered, LastAnswerIsStored

(* Only a login that stored its token answers with one. *)
LEMMA NextCode ==
  ASSUME Typed, [Next]_vars, login'.code = "000"
  PROVE  \/ UNCHANGED login
         \/ LoginSetex /\ login'.token = <<login.user, now>>
                       /\ login'.user = login.user
<1>1. ASSUME NEW u \in Users, NEW p \in Pwds, LoginAccept(u, p)
      PROVE  FALSE
  BY <1>1 DEF LoginAccept, LoginIdle
<1>2. ~LoginReply /\ ~LoginKilled
  BY IdleRecords DEF LoginReply, LoginKilled
<1>3. ~LoginFails
  BY DEF LoginFails, LoginReplies, Typed, TypeOK, LoginTypeOK
<1>4. ~LoginSelect /\ ~LoginMisreads
  BY LoginCompared DEF LoginReplies, Typed, TypeOK, LoginTypeOK, LoginLocals
<1>5. CASE LoginSetex
  BY <1>5 DEF LoginSetex, Typed, TypeOK, LoginTypeOK
<1>6. QED
  BY <1>1, <1>2, <1>3, <1>4, <1>5, WhoWrites DEF LoginStep

(* What SETEX leaves under the key of each user *)
LEMMA SetexStores ==
  ASSUME Typed, LoginSetex
  PROVE  /\ login.user \in Users
         /\ stored'[login.user] # None
         /\ stored'[login.user].token = <<login.user, now>>
         /\ \A u \in Users : u # login.user => stored'[u] = stored[u]
<1>1. login.user \in Users
  BY DEF LoginSetex, Typed, LoginLocals
<1>2. stored' = [stored EXCEPT ![login.user] =
                   [token |-> <<login.user, now>>, until |-> now + Lifetime]]
  BY DEF LoginSetex
<1>3. [token |-> <<login.user, now>>, until |-> now + Lifetime] \in Keys
  BY <1>1, NewToken DEF Typed, TypeOK
<1>4. [token |-> <<login.user, now>>, until |-> now + Lifetime] # None
  BY <1>3, NoneIsNoRow
<1>5. QED
  BY <1>1, <1>2, <1>4 DEF Typed, TypeOK, StoresTypeOK

LEMMA NextAnswered == Typed /\ Answered /\ [Next]_vars => Answered'
<1> SUFFICES ASSUME Typed, Answered, [Next]_vars, faults' = 0
             PROVE  Answered'
  BY DEF Answered, LastAnswerIsStored
<1>0. faults = 0
  BY NumbersGrow DEF Typed, TypeOK
<1>1. (login.code = "000" => /\ stored[login.user] # None
                             /\ stored[login.user].token = login.token)'
  <2> SUFFICES ASSUME login'.code = "000"
               PROVE  /\ stored'[login'.user] # None
                      /\ stored'[login'.user].token = login'.token
    OBVIOUS
  <2>1. CASE LoginSetex
    <3>1. login.pc = "setex" /\ login'.pc = "reply"
      BY <2>1 DEF LoginSetex, Typed, TypeOK, LoginTypeOK
    <3>2. login'.token = <<login.user, now>> /\ login'.user = login.user
      BY <3>1, NextCode
    <3>3. QED
      BY <2>1, <3>2, SetexStores
  <2>2. CASE ~LoginSetex
    <3>1. UNCHANGED stored /\ UNCHANGED login
      BY <2>2, WhoWrites, NextCode
    <3>2. QED
      BY <1>0, <3>1 DEF Answered
  <2>3. QED
    BY <2>1, <2>2
<1>2. LastAnswerIsStored'
  <2> SUFFICES ASSUME NEW u \in Users, answers'[u] # <<>>,
                      ~(login'.user = u /\ login'.code = "000")
               PROVE  /\ stored'[u] # None
                      /\ stored'[u].token = answers'[u][Len(answers'[u])]
    BY DEF LastAnswerIsStored
  <2>1. CASE LoginReply /\ login.code = "000"
    <3>1. UNCHANGED stored /\ login.user \in Users
          /\ answers' = [answers EXCEPT ![login.user] = Append(@, login.token)]
      BY <2>1 DEF LoginReply, Typed, LoginLocals
    <3>2. CASE u = login.user
      <4>1. answers[u] \in Seq(Tokens)
        BY DEF Typed, TypeOK, ClientsTypeOK
      <4>2. answers'[u] = Append(answers[u], login.token)
        BY <3>1, <3>2 DEF Typed, TypeOK, ClientsTypeOK
      <4>3. answers'[u][Len(answers'[u])] = login.token
        BY <4>1, <4>2
      <4>4. stored[u] # None /\ stored[u].token = login.token
        BY <1>0, <2>1, <3>2 DEF Answered
      <4>5. QED
        BY <3>1, <4>3, <4>4
    <3>3. CASE u # login.user
      <4>1. answers'[u] = answers[u]
        BY <3>1, <3>3 DEF Typed, TypeOK, ClientsTypeOK
      <4>2. QED
        BY <1>0, <3>1, <3>3, <4>1 DEF Answered, LastAnswerIsStored
    <3>4. QED
      BY <3>2, <3>3
  <2>2. CASE LoginSetex
    <3>1. UNCHANGED answers /\ login.code # "000"
      BY <2>2 DEF LoginSetex, clientVars, Typed, LoginLocals
    <3>2. login'.code = "000"
      BY <2>2 DEF LoginSetex, Typed, TypeOK, LoginTypeOK
    <3>3. login'.user = login.user
      BY <2>2, <3>2, NextCode
    <3>4. u # login.user
      BY <3>2, <3>3
    <3>5. stored'[u] = stored[u]
      BY <2>2, <3>4, SetexStores
    <3>6. QED
      BY <1>0, <3>1, <3>5 DEF Answered, LastAnswerIsStored
  <2>3. CASE ~LoginSetex /\ ~(LoginReply /\ login.code = "000")
    <3>1. UNCHANGED stored
      BY <2>3, WhoWrites
    <3>2. UNCHANGED answers
      BY <2>3, WhoWrites DEF LoginReply
    <3>3. login.code = "000" => UNCHANGED login
      <4>1. ~LoginKilled /\ ~LoginFails /\ ~LoginMisreads
        BY <1>0 DEF LoginKilled, LoginFails, LoginMisreads, Faulty
      <4>2. login.code = "000" => login.pc = "reply"
        BY DEF Typed, LoginLocals
      <4>3. login.pc = "reply" =>
              /\ ~LoginSelect /\ ~LoginSetex
              /\ ~(\E v \in Users, p \in Pwds : LoginAccept(v, p))
        BY DEF LoginSelect, LoginSetex, LoginAccept
      <4>4. QED
        BY <2>3, <4>1, <4>2, <4>3, WhoWrites DEF LoginStep
    <3>4. QED
      BY <1>0, <3>1, <3>2, <3>3 DEF Answered, LastAnswerIsStored
  <2>4. QED
    BY <2>1, <2>2, <2>3
<1>3. QED
  BY <1>1, <1>2 DEF Answered

(* As long as no call fails and nothing is killed, set_token and the       *)
(* answer of login agree: the token a user was answered last is the one    *)
(* that verify_token compares with.                                        *)
THEOREM LastAnswerStaysStored == Spec => []LastAnswerIsStored
<1>1. Init => Typed /\ Answered
  BY InitTyped, InitAnswered
<1>2. Typed /\ Answered /\ [Next]_vars => (Typed /\ Answered)'
  BY NextTyped, NextAnswered
<1>3. Typed /\ Answered => LastAnswerIsStored
  BY DEF Answered
<1>4. QED
  BY <1>1, <1>2, <1>3, PTL DEF Spec
=============================================================================
