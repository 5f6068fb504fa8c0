------------------------------- MODULE Session -------------------------------
(***************************************************************************)
(* Registration, login and the token of a user: bin_cgi/register and       *)
(* bin_cgi/login, and verify_token as md5, dealfile and myfiles call it    *)
(* before they serve a request.  They share the table user_info and one    *)
(* Redis key per user, which holds the user's token for a day, and nothing *)
(* of CloudStore.                                                          *)
(*                                                                         *)
(* A token is the digest of the user's name and four random numbers that   *)
(* srand(time(NULL)) determines, so it stands for the user and the second. *)
(***************************************************************************)
EXTENDS Integers, Sequences

CONSTANTS
  Users,        \* user names
  Nicks,        \* nick names
  Pwds,         \* passwords
  Empty,        \* the empty one, which a request without a password gives
  None,         \* no row, no key, no value
  Lifetime,     \* of a token (86400 seconds)
  MaxTime,      \* bound: the time of the run
  MaxRequests,  \* bound: how many requests clients send
  MaxFaults     \* bound: how many calls fail or programs are killed

UserRows == [nick: Nicks, pwd: Pwds]
Tokens   == Users \X Nat
Keys     == [token: Tokens, until: Nat]

ASSUME NoneIsNoRow    == None \notin Users \cup Nicks \cup Pwds
                           \cup UserRows \cup Tokens \cup Keys
ASSUME EmptyIsPwd     == Empty \in Pwds
ASSUME LifetimeIsNat  == Lifetime \in Nat /\ MaxTime \in Nat
ASSUME LimitsAreNat   == MaxRequests \in Nat /\ MaxFaults \in Nat

VARIABLES
  user_info,  \* per user name: its row, or None
  stored,     \* Redis: per user the token and when it expires, or None
  now,        \* time(NULL)
  register,   \* the process bin_cgi/register
  login,      \* the process bin_cgi/login
  verify,     \* a process that verifies the token of a request
  known,      \* users and passwords whose registration was answered 002
  answers,    \* per user: the tokens that logins were answered with
  blank,      \* users let in with the empty password and without a row
  requests,   \* requests so far
  faults      \* failed calls and killed programs so far

clientVars == <<known, answers, blank>>
boundVars  == <<requests, faults>>
vars == <<user_info, stored, now, register, login, verify, clientVars,
          boundVars>>

RegisterIdle == [pc |-> "idle", user |-> None, nick |-> None, pwd |-> None,
                 code |-> ""]
LoginIdle    == [pc |-> "idle", user |-> None, pwd |-> None, token |-> None,
                 code |-> ""]
VerifyIdle   == [pc |-> "idle", user |-> None, token |-> None]

(* The table as JKYi_CloudDisk.sql creates it, and no token. *)
Init ==
  /\ user_info = [u \in Users |-> None]
  /\ stored    = [u \in Users |-> None]
  /\ now       = 0
  /\ register  = RegisterIdle
  /\ login     = LoginIdle
  /\ verify    = VerifyIdle
  /\ known     = {}
  /\ answers   = [u \in Users |-> <<>>]
  /\ blank     = {}
  /\ requests  = 0
  /\ faults    = 0

StoresTypeOK ==
  /\ user_info \in [Users -> UserRows \cup {None}]
  /\ stored    \in [Users -> Keys \cup {None}]
  /\ now       \in Nat

RegisterTypeOK ==
  register \in [pc: {"idle", "select", "insert", "reply"},
                user: Users \cup {None}, nick: Nicks \cup {None},
                pwd: Pwds \cup {None}, code: {"", "002", "004"}]

LoginTypeOK ==
  login \in [pc: {"idle", "select", "setex", "reply"},
             user: Users \cup {None}, pwd: Pwds \cup {None},
             token: Tokens \cup {None}, code: {"", "000", "001"}]

VerifyTypeOK ==
  verify \in [pc: {"idle", "get", "accepted", "refused"},
              user: Users \cup {None}, token: Tokens \cup {None}]

ClientsTypeOK ==
  /\ known    \in SUBSET (Users \X Pwds)
  /\ answers  \in [Users -> Seq(Tokens)]
  /\ blank    \in SUBSET Users
  /\ requests \in Nat
  /\ faults   \in Nat

(* Rows, keys, locals and answers have the types they are declared with;   *)
(* above all a key in Redis holds a token with the second it expires, as   *)
(* SETEX stores it, so that no login leaves a token that is valid forever. *)
TypeOK ==
  /\ StoresTypeOK
  /\ RegisterTypeOK
  /\ LoginTypeOK
  /\ VerifyTypeOK
  /\ ClientsTypeOK

Asked == /\ requests < MaxRequests
         /\ requests' = requests + 1
         /\ UNCHANGED faults

-----------------------------------------------------------------------------
(* user_register *)

RegisterReplies(code) ==
  register' = [register EXCEPT !.pc = "reply", !.code = code]

RegisterAccept(u, n, p) ==
  /\ register.pc = "idle" /\ Asked
  /\ register' = [RegisterIdle EXCEPT !.pc = "select", !.user = u,
                                      !.nick = n, !.pwd = p]
  /\ UNCHANGED <<user_info, stored, now, login, verify, clientVars>>

(* The test is for -2, an answer process_result_one never gives: whether   *)
(* the user exists, or the SELECT fails, makes no difference here.         *)
RegisterSelect ==
  /\ register.pc = "select"
  /\ register' = [register EXCEPT !.pc = "insert"]
  /\ UNCHANGED <<user_info, stored, now, login, verify, clientVars, boundVars>>

(* The unique keys uq_user_name and uq_nick_name *)
Taken(u, n) ==
  \/ user_info[u] # None
  \/ \E v \in Users : user_info[v] # None /\ user_info[v].nick = n

(* Slip: the INSERT is not looked at. *)
RegisterInsertAnyhow ==
  /\ register.pc = "insert"
  /\ user_info' = IF Taken(register.user, register.nick) THEN user_info
                  ELSE [user_info EXCEPT ![register.user] =
                          [nick |-> register.nick, pwd |-> register.pwd]]
  /\ RegisterReplies("002")
  /\ UNCHANGED <<stored, now, login, verify, clientVars, boundVars>>

RegisterInsert ==
  /\ register.pc = "insert"
  /\ IF Taken(register.user, register.nick)
     THEN RegisterReplies("004") /\ UNCHANGED user_info
     ELSE /\ user_info' = [user_info EXCEPT ![register.user] =
                             [nick |-> register.nick, pwd |-> register.pwd]]
          /\ RegisterReplies("002")
  /\ UNCHANGED <<stored, now, login, verify, clientVars, boundVars>>

RegisterReply ==
  /\ register.pc = "reply"
  /\ register' = RegisterIdle
  /\ known' = IF register.code = "002"
              THEN known \cup {<<register.user, register.pwd>>} ELSE known
  /\ UNCHANGED <<user_info, stored, now, login, verify, answers, blank,
                 boundVars>>

-----------------------------------------------------------------------------
(* check_user_pwd and set_token *)

LoginReplies(code) == login' = [login EXCEPT !.pc = "reply", !.code = code]

(* What get_login_info answers is not looked at: a request without a       *)
(* password, or one that is no JSON, is checked with empty strings.        *)
LoginAccept(u, p) ==
  /\ login.pc = "idle" /\ Asked
  /\ login' = [LoginIdle EXCEPT !.pc = "select", !.user = u, !.pwd = p]
  /\ UNCHANGED <<user_info, stored, now, register, verify, clientVars>>

(* strcmp(tmp, pwd), whatever filled tmp: nobody asks whether there was a  *)
(* row, and blank remembers whom that lets in.                             *)
LoginCompares(tmp) ==
  /\ IF tmp = login.pwd
     THEN /\ login' = [login EXCEPT !.pc = "setex"]
          /\ blank' = blank \cup {u \in {login.user} :
                                 login.pwd = Empty /\ user_info[u] = None}
     ELSE LoginReplies("001") /\ UNCHANGED blank
  /\ UNCHANGED <<user_info, stored, now, register, verify, known, answers>>

(* Slip: only a row's password is compared, a missing user is let in. *)
LoginSelectLax ==
  /\ login.pc = "select"
  /\ IF user_info[login.user] # None => user_info[login.user].pwd = login.pwd
     THEN login' = [login EXCEPT !.pc = "setex"]
     ELSE LoginReplies("001")
  /\ UNCHANGED <<user_info, stored, now, register, verify, clientVars,
                 boundVars>>

(* Without a row tmp stays as it is initialised, empty. *)
LoginSelect ==
  /\ login.pc = "select"
  /\ LoginCompares(IF user_info[login.user] = None
                   THEN Empty ELSE user_info[login.user].pwd)
  /\ UNCHANGED boundVars

Expires(key) == key # None /\ now >= key.until

(* Slip: a token that is still valid is left in place. *)
LoginSetexKeep ==
  /\ login.pc = "setex"
  /\ stored' = IF stored[login.user] # None /\ ~Expires(stored[login.user])
               THEN stored
               ELSE [stored EXCEPT ![login.user] =
                       [token |-> <<login.user, now>>,
                        until |-> now + Lifetime]]
  /\ login' = [login EXCEPT !.pc = "reply", !.code = "000",
                            !.token = <<login.user, now>>]
  /\ UNCHANGED <<user_info, now, register, verify, clientVars, boundVars>>

(* Slip: SET, without the lifetime. *)
LoginSetexForever ==
  /\ login.pc = "setex"
  /\ stored' = [stored EXCEPT ![login.user] =
                  [token |-> <<login.user, now>>, until |-> None]]
  /\ login' = [login EXCEPT !.pc = "reply", !.code = "000",
                            !.token = <<login.user, now>>]
  /\ UNCHANGED <<user_info, now, register, verify, clientVars, boundVars>>

LoginSetex ==
  /\ login.pc = "setex"
  /\ stored' = [stored EXCEPT ![login.user] =
                  [token |-> <<login.user, now>>, until |-> now + Lifetime]]
  /\ login' = [login EXCEPT !.pc = "reply", !.code = "000",
                            !.token = <<login.user, now>>]
  /\ UNCHANGED <<user_info, now, register, verify, clientVars, boundVars>>

LoginReply ==
  /\ login.pc = "reply"
  /\ login' = LoginIdle
  /\ answers' = IF login.code = "000"
                THEN [answers EXCEPT ![login.user] = Append(@, login.token)]
                ELSE answers
  /\ UNCHANGED <<user_info, stored, now, register, verify, known, blank,
                 boundVars>>

-----------------------------------------------------------------------------
(* verify_token, in a request of somebody who logged in *)

VerifyAccept(u, token) ==
  /\ verify.pc = "idle" /\ Asked
  /\ verify' = [pc |-> "get", user |-> u, token |-> token]
  /\ UNCHANGED <<user_info, stored, now, register, login, clientVars>>

(* An expired key is no longer there. *)
VerifyGet ==
  /\ verify.pc = "get"
  /\ LET key == stored[verify.user]
     IN verify' = [verify EXCEPT !.pc =
          IF key # None /\ ~Expires(key) /\ key.token = verify.token
          THEN "accepted" ELSE "refused"]
  /\ UNCHANGED <<user_info, stored, now, register, login, clientVars,
                 boundVars>>

(* The request is served, or answered 111. *)
VerifyReturn ==
  /\ verify.pc \in {"accepted", "refused"}
  /\ verify' = VerifyIdle
  /\ UNCHANGED <<user_info, stored, now, register, login, clientVars,
                 boundVars>>

-----------------------------------------------------------------------------
Ask ==
  \/ \E u \in Users, n \in Nicks, p \in Pwds : RegisterAccept(u, n, p)
  \/ \E u \in Users, p \in Pwds : LoginAccept(u, p)
  \/ \E u \in Users : \E i \in DOMAIN answers[u] :
       VerifyAccept(u, answers[u][i])

RegisterStep == RegisterSelect \/ RegisterInsert \/ RegisterReply
LoginStep    == LoginSelect \/ LoginSetex \/ LoginReply
VerifyStep   == VerifyGet \/ VerifyReturn

Tick ==
  /\ now < MaxTime
  /\ now' = now + 1
  /\ UNCHANGED <<user_info, stored, register, login, verify, clientVars,
                 boundVars>>

Faulty == /\ faults < MaxFaults
          /\ faults' = faults + 1
          /\ UNCHANGED <<requests, user_info, stored, now>>

(* A connection cannot be made, or the INSERT fails. *)
RegisterFails ==
  /\ register.pc \in {"select", "insert"} /\ Faulty
  /\ RegisterReplies("004")
  /\ UNCHANGED <<login, verify, clientVars>>
(* A connection cannot be made, or SETEX fails. *)
LoginFails ==
  /\ login.pc \in {"select", "setex"} /\ Faulty
  /\ LoginReplies("001")
  /\ UNCHANGED <<register, verify, clientVars>>
(* The SELECT fails: process_result_one leaves tmp empty. *)
LoginMisreads ==
  /\ login.pc = "select" /\ Faulty
  /\ LoginCompares(Empty)
VerifyFails ==
  /\ verify.pc = "get" /\ Faulty
  /\ verify' = [verify EXCEPT !.pc = "refused"]
  /\ UNCHANGED <<register, login, clientVars>>

(* kill -9, and the program starts afresh; nobody reads an answer. *)
RegisterKilled ==
  /\ register.pc # "idle" /\ Faulty
  /\ register' = RegisterIdle
  /\ UNCHANGED <<login, verify, clientVars>>
LoginKilled ==
  /\ login.pc # "idle" /\ Faulty
  /\ login' = LoginIdle
  /\ UNCHANGED <<register, verify, clientVars>>

Done ==
  /\ requests = MaxRequests /\ now = MaxTime
  /\ register.pc = "idle" /\ login.pc = "idle" /\ verify.pc = "idle"
  /\ UNCHANGED vars

Next ==
  \/ Ask \/ RegisterStep \/ LoginStep \/ VerifyStep \/ Tick
  \/ RegisterFails \/ LoginFails \/ LoginMisreads \/ VerifyFails
  \/ RegisterKilled \/ LoginKilled \/ Done

Spec == Init /\ [][Next]_vars

-----------------------------------------------------------------------------
(* Whoever was told 002 is admitted with that password from then on: of    *)
(* the logins that no call fails, none is refused to somebody whose        *)
(* registration was answered.                                              *)
RegisteredIsAdmitted ==
  [][login.pc = "select" /\ login.pc' = "reply" /\ faults' = faults
       => <<login.user, login.pwd>> \notin known]_vars

(* A request is accepted only for a user who is registered, or whom a      *)
(* login with the empty password let in before: whoever sent a password    *)
(* was let in for the row that holds it, whatever was killed or failed on  *)
(* the way.                                                                *)
AcceptedIsRegistered ==
  verify.pc = "accepted" =>
    user_info[verify.user] # None \/ verify.user \in blank

(* The token a user was answered last is the one in Redis, save for a      *)
(* login that stored its token and has not answered yet (or was killed     *)
(* there), so that a client's newest token is good until it expires.       *)
LastAnswerIsStored ==
  faults = 0 =>
    \A u \in Users :
      answers[u] # <<>> /\ ~(login.user = u /\ login.code = "000") =>
        /\ stored[u] # None
        /\ stored[u].token = answers[u][Len(answers[u])]
=============================================================================
