------------------------------ MODULE Sessions ------------------------------
(***************************************************************************)
(* One person: the row of users, the codes and invitations that Redis      *)
(* keeps for the address, the refresh tokens, and the rows of user_devices *)
(* for one device (auth_service, invite_user_service), while requests      *)
(* overlap and fail.                                                       *)
(*                                                                         *)
(* A code is mailed and then stored, an invitation stored and then mailed; *)
(* either is read, then the database committed, then the key deleted.      *)
(* Nothing ties Redis to the database.                                     *)
(***************************************************************************)
EXTENDS Integers, FiniteSets

CONSTANTS
  Procs,       \* requests that can be open at the same time
  Workloads,   \* what clients may ask for, one choice for a behaviour
  Secrets,     \* codes and invitations: random, so each is generated once
  KindOf,      \* what a secret is for
  Passwords,
  Tokens,      \* ids of refresh_tokens
  Rows,        \* ids of user_devices
  None

Kinds == {"email_verification", "forgot_password", "invite_token"}
Otps == Kinds \ {"invite_token"}
Topics == {"register", "login", "change", "reset", "phone", "device"}

ASSUME ProcsAssumption == IsFiniteSet(Procs) /\ Procs # {}
ASSUME WorkloadsAssumption == Workloads \subseteq SUBSET (Topics \cup Secrets)
ASSUME SecretsAssumption == KindOf \in [Secrets -> Kinds]
ASSUME RowsAssumption == IsFiniteSet(Rows)
ASSUME NoneAssumption == None \notin Secrets \cup Passwords \cup Tokens \cup Rows

VARIABLES
  workload,   \* the topics of this behaviour, and the secrets there are
  user,       \* the row of users
  store,      \* secrets whose key is in Redis
  issued, mailed,
  token,      \* rows of refresh_tokens
  device,     \* rows of user_devices
  job,        \* the open requests
  newest,     \* history: the code of each kind that was mailed last
  overtaken,  \* history: codes with a newer one mailed while they were being stored
  spent,      \* history: secrets some request has been granted with
  excused,    \* history: secrets two requests held at once, or that a failure kept
  opened,     \* history: the password a token was given for
  spared,     \* history: tokens an earlier password left alive, with a reason
  disturbed   \* history: requests that had what they read changed under them

redis == <<store, issued, mailed, newest, overtaken, spent, excused>>
sessions == <<token, opened, spared>>
vars == <<workload, user, redis, sessions, device, job, disturbed>>

User == [present : BOOLEAN, email_verified : BOOLEAN, phone_verified : BOOLEAN,
         password : Passwords \cup {None}]

Absent == [present |-> FALSE, email_verified |-> FALSE, phone_verified |-> FALSE,
           password |-> None]

(* Where a request is. The last ones have read what they need and commit   *)
(* next; "generated" to "stored" issue a secret, "matched" to "accepted"   *)
(* take one.                                                               *)
Holding == {"matched", "revoked", "accepted"}
Loaded == {"register", "login", "change", "phone", "logout", "save"}
PC == {"idle", "generated", "mailed", "stored"} \cup Holding \cup Loaded

Job == [pc : PC, secret : Secrets \cup {None}, user : User, tokens : SUBSET Tokens,
        row : Rows \cup {None}, active : BOOLEAN]

Idle == [pc |-> "idle", secret |-> None, user |-> Absent, tokens |-> {}, row |-> None,
         active |-> FALSE]

Valid == {t \in Tokens : token[t] = "valid"}
Devices == {r \in Rows : device[r] # "absent"}
Active == {r \in Rows : device[r] = "active"}

TypeOK ==
  /\ workload \in Workloads
  /\ user \in User
  /\ store \subseteq issued /\ mailed \subseteq issued /\ issued \subseteq Secrets
  /\ spent \subseteq Secrets /\ excused \subseteq Secrets /\ overtaken \subseteq Secrets
  /\ newest \in [Otps -> Secrets \cup {None}]
  /\ token \in [Tokens -> {"absent", "valid", "invoked", "deleted"}]
  /\ opened \in [Tokens -> Passwords \cup {None}] /\ spared \subseteq Tokens
  /\ \A t \in Valid : opened[t] # None
  /\ device \in [Rows -> {"absent", "active", "inactive"}]
  /\ job \in [Procs -> Job]
  /\ disturbed \subseteq Procs
  /\ \A p \in Procs : job[p].pc \in {"generated", "mailed", "stored"} => job[p].secret \in issued
  /\ \A p \in Procs : job[p].pc \in Holding => job[p].secret \in issued \cup {None}

Init ==
  /\ workload \in Workloads
  /\ user = Absent
  /\ store = {} /\ issued = {} /\ mailed = {}
  /\ token = [t \in Tokens |-> "absent"]
  /\ device = [r \in Rows |-> "absent"]
  /\ job = [p \in Procs |-> Idle]
  /\ newest = [k \in Otps |-> None]
  /\ overtaken = {} /\ spent = {} /\ excused = {}
  /\ opened = [t \in Tokens |-> None]
  /\ spared = {}
  /\ disturbed = {}

-----------------------------------------------------------------------------
(* The other requests that are at one of some places.                      *)
Others(p, places) == {q \in Procs \ {p} : job[q].pc \in places}

(* A request begins, as j.                                                 *)
Begin(p, j) ==
  /\ job[p].pc = "idle"
  /\ job' = [job EXCEPT ![p] = j]
  /\ UNCHANGED disturbed

(* A request ends; some others have read what it has changed.              *)
Finish(p, others) ==
  /\ job' = [job EXCEPT ![p] = Idle]
  /\ disturbed' = (disturbed \cup others) \ {p}

(* What a request uses a secret for. One that goes without resets the      *)
(* password.                                                               *)
Kind(s) == IF s = None THEN "forgot_password" ELSE KindOf[s]

(* Mutant of Key: one key per address, for both kinds of code.             *)
KeyByAddress(s) ==
  IF Kind(s) = "invite_token" THEN {s} ELSE {r \in Secrets : KindOf[r] \in Otps}

(* The secrets under the key of s: an invitation has its own key, a code   *)
(* shares that of its kind and address.                                    *)
Key(s) == IF Kind(s) = "invite_token" THEN {s} ELSE {r \in Secrets : KindOf[r] = Kind(s)}

(* SET, with a life time.                                                  *)
Put(p) ==
  store' = (store \ Key(job[p].secret)) \cup {job[p].secret}

Holders(p) == {q \in Others(p, Holding) : job[p].secret \in Key(job[q].secret)}

(* A life time is over, or Redis has lost the key.                         *)
Expire(s) ==
  /\ s \in store
  /\ store' = store \ {s}
  /\ UNCHANGED <<workload, user, issued, mailed, newest, overtaken, spent, excused, sessions,
                 device, job, disturbed>>

-----------------------------------------------------------------------------
(* The row of users: registered with a workspace, or added by an admin     *)
(* without a password (module PlanQuota).                                  *)
LoadRegister(p) ==
  /\ "register" \in workload /\ ~ user.present
  /\ Begin(p, [Idle EXCEPT !.pc = "register"])
  /\ UNCHANGED <<workload, user, redis, sessions, device>>

(* Workspace, user and owner in one transaction; unique columns refuse a   *)
(* second one.                                                             *)
Register(p) ==
  /\ job[p].pc = "register" /\ ~ user.present
  /\ \E w \in Passwords : user' = [Absent EXCEPT !.present = TRUE, !.password = w]
  /\ Finish(p, {})
  /\ UNCHANGED <<workload, redis, sessions, device>>

AddUser ==
  /\ ~ user.present
  /\ user' = [Absent EXCEPT !.present = TRUE]
  /\ UNCHANGED <<workload, redis, sessions, device, job, disturbed>>

-----------------------------------------------------------------------------
(* verify_email_service, forgot_password_service, invite_user_service: the *)
(* user is looked up and a secret is generated.                            *)
Generate(p) ==
  /\ user.present
  /\ \E s \in (Secrets \cap workload) \ issued :
       /\ Begin(p, [Idle EXCEPT !.pc = "generated", !.secret = s])
       /\ issued' = issued \cup {s}
  /\ UNCHANGED <<workload, user, store, mailed, newest, overtaken, spent, excused, sessions, device>>

IsOtp(p) == Kind(job[p].secret) \in Otps

(* A code is handed to the mailer before it is stored.                     *)
MailCode(p) ==
  LET s == job[p].secret IN
  /\ job[p].pc = "generated" /\ IsOtp(p)
  /\ mailed' = mailed \cup {s}
  /\ newest' = [newest EXCEPT ![KindOf[s]] = s]
  /\ overtaken' = overtaken \cup
       {job[q].secret : q \in {r \in Others(p, {"mailed"}) : KindOf[job[r].secret] = KindOf[s]}}
  /\ job' = [job EXCEPT ![p].pc = "mailed"]
  /\ UNCHANGED <<workload, user, store, issued, spent, excused, sessions, device, disturbed>>

(* Mutant of StoreCode: a code that is still alive is not replaced.        *)
StoreCodeOnce(p) ==
  /\ job[p].pc = "mailed"
  /\ IF store \cap Key(job[p].secret) = {} THEN Put(p) ELSE UNCHANGED store
  /\ Finish(p, Holders(p))
  /\ UNCHANGED <<workload, user, issued, mailed, newest, overtaken, spent, excused, sessions, device>>

StoreCode(p) ==
  /\ job[p].pc = "mailed"
  /\ Put(p)
  /\ Finish(p, Holders(p))
  /\ UNCHANGED <<workload, user, issued, mailed, newest, overtaken, spent, excused, sessions, device>>

(* An invitation is stored before it is mailed.                            *)
StoreInvitation(p) ==
  /\ job[p].pc = "generated" /\ ~ IsOtp(p)
  /\ Put(p)
  /\ job' = [job EXCEPT ![p].pc = "stored"]
  /\ UNCHANGED <<workload, user, issued, mailed, newest, overtaken, spent, excused, sessions, device,
                 disturbed>>

MailInvitation(p) ==
  /\ job[p].pc = "stored"
  /\ mailed' = mailed \cup {job[p].secret}
  /\ Finish(p, {})
  /\ UNCHANGED <<workload, user, store, issued, newest, overtaken, spent, excused, sessions, device>>

-----------------------------------------------------------------------------
(* verify_otp_service, reset_password_service, set_password_service: the   *)
(* key is read and compared. An answer that does not match changes nothing;*)
(* what matches when there is no key is in MatchNone.                      *)
Match(p) ==
  \E s \in store \cap mailed :
    /\ Begin(p, [Idle EXCEPT !.pc = "matched", !.secret = s])
    /\ excused' = IF \E q \in Others(p, Holding) : job[q].secret = s
                  THEN excused \cup {s} ELSE excused
    /\ UNCHANGED <<workload, user, store, issued, mailed, newest, overtaken, spent, sessions, device>>

(* reset_password_service compares what Redis returns as a string and, as  *)
(* nothing asks whether there was a code, None matches the answer "None".  *)
MatchNone(p) ==
  /\ "reset" \in workload /\ user.present /\ store \cap Key(None) = {}
  /\ Begin(p, [Idle EXCEPT !.pc = "matched"])
  /\ UNCHANGED <<workload, user, redis, sessions, device>>

(* Mutant of Revoke: the sessions are left.                                *)
RevokeNone(p) ==
  /\ job[p].pc = "matched" /\ ~ IsOtp(p)
  /\ job' = [job EXCEPT ![p].pc = "revoked"]
  /\ UNCHANGED <<workload, user, redis, sessions, device, disturbed>>

(* set_password_service: the DELETE sees the tokens that are committed.    *)
Revoke(p) ==
  /\ job[p].pc = "matched" /\ ~ IsOtp(p)
  /\ job' = [job EXCEPT ![p].pc = "revoked",
                        ![p].tokens = {t \in Tokens : token[t] \in {"valid", "invoked"}}]
  /\ UNCHANGED <<workload, user, redis, sessions, device, disturbed>>

(* The commit a secret allows; its key is still there.                     *)
Accept(p) ==
  /\ spent' = spent \cup ({job[p].secret} \ {None})
  /\ job' = [job EXCEPT ![p].pc = "accepted"]
  /\ UNCHANGED <<workload, store, issued, mailed, newest, overtaken, excused, device>>

VerifyEmail(p) ==
  /\ job[p].pc = "matched" /\ Kind(job[p].secret) = "email_verification"
  /\ user' = [user EXCEPT !.email_verified = TRUE]
  /\ Accept(p)
  /\ UNCHANGED <<sessions, disturbed>>

(* Logins and changes of password that have read the password before.      *)
Outdated(p) == Others(p, {"login", "change"})

ResetPassword(p) ==
  /\ job[p].pc = "matched" /\ Kind(job[p].secret) = "forgot_password"
  /\ \E w \in Passwords : user' = [user EXCEPT !.password = w]
  /\ spared' = spared \cup Valid
  /\ disturbed' = disturbed \cup Outdated(p)
  /\ Accept(p)
  /\ UNCHANGED <<token, opened>>

(* A row of refresh_tokens is inserted: a DELETE before it has missed it.  *)
SetPassword(p) ==
  \E t \in Tokens, w \in Passwords :
    /\ job[p].pc = "revoked" /\ token[t] = "absent"
    /\ user' = [user EXCEPT !.password = w, !.email_verified = TRUE]
    /\ token' = [i \in Tokens |-> IF i = t THEN "valid"
                                  ELSE IF i \in job[p].tokens THEN "deleted" ELSE token[i]]
    /\ opened' = [i \in Tokens |-> IF i = t THEN w
                                   ELSE IF i \in job[p].tokens THEN None ELSE opened[i]]
    /\ spared' = IF p \in disturbed THEN spared \cup (Valid \ job[p].tokens) ELSE spared
    /\ disturbed' = disturbed \cup Outdated(p) \cup Others(p, {"revoked"})
    /\ Accept(p)

(* Mutant of Discard: an invitation is left to its life time.              *)
DiscardCode(p) ==
  /\ job[p].pc = "accepted"
  /\ store' = IF IsOtp(p) THEN store \ Key(job[p].secret) ELSE store
  /\ Finish(p, {})
  /\ UNCHANGED <<workload, user, issued, mailed, newest, overtaken, spent, excused, sessions, device>>

(* DEL of the key, whatever it holds by now.                               *)
Discard(p) ==
  /\ job[p].pc = "accepted"
  /\ store' = store \ Key(job[p].secret)
  /\ Finish(p, {})
  /\ UNCHANGED <<workload, user, issued, mailed, newest, overtaken, spent, excused, sessions, device>>

-----------------------------------------------------------------------------
(* Mutant of LoadLogin: neither the address nor a password is asked for.   *)
LoadLoginOfAnyone(p) ==
  /\ "login" \in workload /\ user.present
  /\ Begin(p, [Idle EXCEPT !.pc = "login", !.user = user])
  /\ UNCHANGED <<workload, user, redis, sessions, device>>

(* login_service: the address is verified and the password is right.       *)
LoadLogin(p) ==
  /\ "login" \in workload /\ user.email_verified /\ user.password # None
  /\ Begin(p, [Idle EXCEPT !.pc = "login", !.user = user])
  /\ UNCHANGED <<workload, user, redis, sessions, device>>

Login(p) ==
  \E t \in Tokens :
    /\ job[p].pc = "login" /\ token[t] = "absent"
    /\ token' = [token EXCEPT ![t] = "valid"]
    /\ opened' = [opened EXCEPT ![t] = job[p].user.password]
    /\ spared' = IF p \in disturbed THEN spared \cup {t} ELSE spared
    /\ Finish(p, Others(p, {"revoked"}))
    /\ UNCHANGED <<workload, user, redis, device>>

(* get_current_user: an access token was given out with some refresh token.*)
Authenticated == \E t \in Tokens : token[t] # "absent"

(* change_password_service: the old password is right.                     *)
LoadChange(p) ==
  /\ "change" \in workload /\ Authenticated /\ user.password # None
  /\ Begin(p, [Idle EXCEPT !.pc = "change", !.user = user])
  /\ UNCHANGED <<workload, user, redis, sessions, device>>

ChangePassword(p) ==
  /\ job[p].pc = "change"
  /\ \E w \in Passwords : user' = [user EXCEPT !.password = w]
  /\ spared' = spared \cup Valid
  /\ Finish(p, Outdated(p))
  /\ UNCHANGED <<workload, redis, token, opened, device>>

(* verify_phone_Service, after Twilio has approved the code.               *)
LoadPhone(p) ==
  /\ "phone" \in workload /\ user.present
  /\ Begin(p, [Idle EXCEPT !.pc = "phone"])
  /\ UNCHANGED <<workload, user, redis, sessions, device>>

VerifyPhone(p) ==
  /\ job[p].pc = "phone"
  /\ user' = [user EXCEPT !.phone_verified = TRUE]
  /\ Finish(p, {})
  /\ UNCHANGED <<workload, redis, sessions, device>>

-----------------------------------------------------------------------------
(* Mutant of LoadSave: the row that is there is not looked for.            *)
LoadSaveNew(p) ==
  /\ "device" \in workload /\ Authenticated
  /\ Begin(p, [Idle EXCEPT !.pc = "save"])
  /\ UNCHANGED <<workload, user, redis, sessions, device>>

(* save_fcm_token_service: some row of the device, or none. A plan without *)
(* push notifications is refused and changes nothing.                      *)
LoadSave(p) ==
  /\ "device" \in workload /\ Authenticated
  /\ \/ Devices = {} /\ Begin(p, [Idle EXCEPT !.pc = "save"])
     \/ \E r \in Devices :
          Begin(p, [Idle EXCEPT !.pc = "save", !.row = r, !.active = r \in Active])
  /\ UNCHANGED <<workload, user, redis, sessions, device>>

(* Others that have loaded rows of the device.                             *)
OnDevice(p) == Others(p, {"save", "logout"})

InsertDevice(p) ==
  /\ job[p].pc = "save" /\ job[p].row = None
  /\ \E r \in Rows \ Devices : device' = [device EXCEPT ![r] = "active"]
  /\ Finish(p, OnDevice(p))
  /\ UNCHANGED <<workload, user, redis, sessions>>

(* Mutant of UpdateDevice: only the FCM token is written.                  *)
UpdateFcmToken(p) ==
  /\ job[p].pc = "save" /\ job[p].row # None
  /\ Finish(p, OnDevice(p))
  /\ UNCHANGED <<workload, user, redis, sessions, device>>

(* is_active is written only if it was loaded as false.                    *)
UpdateDevice(p) ==
  /\ job[p].pc = "save" /\ job[p].row # None
  /\ device' = IF job[p].active THEN device ELSE [device EXCEPT ![job[p].row] = "active"]
  /\ Finish(p, OnDevice(p))
  /\ UNCHANGED <<workload, user, redis, sessions>>

(* logout_service. Without a row of the device it raises, before a commit. *)
LoadLogout(p) ==
  /\ "device" \in workload
  /\ \E t \in Tokens, r \in Devices :
       /\ token[t] \in {"valid", "invoked"}
       /\ Begin(p, [Idle EXCEPT !.pc = "logout", !.row = r, !.active = r \in Active,
                                !.tokens = IF token[t] = "valid" THEN {t} ELSE {}])
  /\ UNCHANGED <<workload, user, redis, sessions, device>>

(* An UPDATE of a token that has been deleted raises; one that a DELETE    *)
(* has locked waits for its commit.                                        *)
Logout(p) ==
  /\ job[p].pc = "logout"
  /\ \A t \in job[p].tokens : /\ token[t] # "deleted"
                              /\ \A q \in Others(p, {"revoked"}) : t \notin job[q].tokens
  /\ token' = [t \in Tokens |-> IF t \in job[p].tokens THEN "invoked" ELSE token[t]]
  /\ device' = IF job[p].active THEN [device EXCEPT ![job[p].row] = "inactive"] ELSE device
  /\ Finish(p, OnDevice(p))
  /\ UNCHANGED <<workload, user, redis, opened, spared>>

(* An exception, a violated unique column, or the end of the process. What *)
(* is committed, mailed or stored stays.                                   *)
Fail(p) ==
  LET s == job[p].secret IN
  /\ job[p].pc # "idle"
  /\ excused' = IF job[p].pc = "accepted" THEN excused \cup ({s} \ {None}) ELSE excused
  /\ overtaken' = IF job[p].pc = "mailed" THEN overtaken \cup (store \cap Key(s)) ELSE overtaken
  /\ Finish(p, {})
  /\ UNCHANGED <<workload, user, store, issued, mailed, newest, spent, sessions, device>>

Next ==
  \/ AddUser
  \/ \E s \in Secrets : Expire(s)
  \/ \E p \in Procs :
       \/ LoadRegister(p) \/ Register(p)
       \/ Generate(p) \/ MailCode(p) \/ StoreCode(p) \/ StoreInvitation(p) \/ MailInvitation(p)
       \/ Match(p) \/ MatchNone(p) \/ VerifyEmail(p) \/ ResetPassword(p) \/ Revoke(p) \/ SetPassword(p) \/ Discard(p)
       \/ LoadLogin(p) \/ Login(p) \/ LoadChange(p) \/ ChangePassword(p)
       \/ LoadPhone(p) \/ VerifyPhone(p)
       \/ LoadSave(p) \/ InsertDevice(p) \/ UpdateDevice(p) \/ LoadLogout(p) \/ Logout(p)
       \/ Fail(p)

Spec == Init /\ [][Next]_vars

-----------------------------------------------------------------------------
(* A code or an invitation that was stored is granted a second time only   *)
(* if two requests held it at once, or a request ended between its commit  *)
(* and its DEL: used one after the other, each is good for one request     *)
(* (verify_otp_service, reset_password_service, set_password_service). It  *)
(* says nothing of a reset for which no code was stored (MatchNone).       *)
ReuseHasACause ==
  [][\A p \in Procs :
       /\ job[p].pc \in {"matched", "revoked"} /\ job'[p].pc = "accepted"
       /\ job[p].secret \in spent
       => job[p].secret \in excused]_vars

(* A code that is stored goes only when its time is over, when a newer one *)
(* takes its place, or with the request it was given to; a request for     *)
(* another code takes it along only if the key was written since it was    *)
(* read (the DEL of auth_service names the key, not the code).             *)
LostCodeHasACause ==
  [][\A s \in store \ store' :
       \/ UNCHANGED job
       \/ \E p \in Procs : /\ job[p].pc = "mailed"
                           /\ KindOf[job[p].secret] = KindOf[s] /\ job[p].secret \in store'
       \/ \E p \in Procs : /\ job[p].pc = "accepted" /\ job'[p].pc = "idle"
                           /\ job[p].secret = s \/ p \in disturbed]_vars

(* The code in Redis is the one mailed last, unless that one is on its way *)
(* there, or the two were requested at the same time, or the newer request *)
(* failed between mail and SET (verify_email_service,                      *)
(* forgot_password_service).                                               *)
LatestMailWorks ==
  \A s \in store : KindOf[s] \in Otps =>
    \/ s = newest[KindOf[s]] \/ s \in overtaken
    \/ \E p \in Procs : job[p].pc = "mailed" /\ job[p].secret = newest[KindOf[s]]

(* A refresh token that was given for an earlier password is still valid   *)
(* only because the password was changed or reset, which leave tokens      *)
(* alone, or because its login overlapped with the change: an accepted     *)
(* invitation leaves no other session (set_password_service).              *)
OldSessionHasACause == \A t \in Valid : opened[t] = user.password \/ t \in spared

(* Without a unique constraint a device gets several rows, but no more     *)
(* than there are requests at a time (save_fcm_token_service).             *)
RowsPerDevice == Cardinality(Devices) <= Cardinality(Procs)

(* When nothing else touches the device meanwhile, it is active after its  *)
(* token was saved and, if it has one row, silent after a logout           *)
(* (save_fcm_token_service, logout_service).                               *)
DeviceFollowsRequest ==
  [][\A p \in Procs \ disturbed :
       /\ InsertDevice(p) \/ UpdateDevice(p) => Active' # {}
       /\ Logout(p) /\ Cardinality(Devices) = 1 => Active' = {}]_vars
=============================================================================
