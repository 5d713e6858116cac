--------------------------- MODULE SessionsProofs ---------------------------
(***************************************************************************)
(* Proofs about Sessions, for any secrets, passwords, tokens, rows and     *)
(* number of requests.                                                     *)
(***************************************************************************)
EXTENDS Sessions, FiniteSetTheorems, TLAPS

Issuing == {"generated", "mailed", "stored"}
WithSecret == Issuing \cup Holding

(* Redis keeps one secret per key, and the newest code of a kind is of it. *)
OnePerKey ==
  /\ \A r, s \in store : r \in Key(s) => r = s
  /\ \A k \in Otps : newest[k] # None => KindOf[newest[k]] = k

(* A secret that is being issued is with one request, and nobody has used  *)
(* it: it is not stored yet, or not mailed yet.                            *)
IssuedApart ==
  /\ spent \subseteq issued
  /\ \A p \in Procs : job[p].pc \in Issuing =>
       /\ job[p].secret \notin spent
       /\ \A q \in Procs \ {p} : job[q].pc \in WithSecret => job[q].secret # job[p].secret
       /\ job[p].pc = "stored" \/ job[p].secret \notin store
       /\ job[p].pc = "mailed" \/ job[p].secret \notin mailed
       /\ job[p].pc = "mailed" => KindOf[job[p].secret] \in Otps
       /\ job[p].pc = "stored" => KindOf[job[p].secret] \notin Otps

Holds(p, s) == job[p].pc \in Holding /\ job[p].secret = s

(* Unless there is an excuse, a secret is held by one request, and once it *)
(* is used it stays in Redis only until that request discards it.          *)
UsedOnce ==
  \A s \in Secrets \ excused :
    /\ \A p, q \in Procs : Holds(p, s) /\ Holds(q, s) => p = q
    /\ s \in spent =>
         /\ \A p \in Procs : job[p].pc \in {"matched", "revoked"} => job[p].secret # s
         /\ s \in store => \E p \in Procs : job[p].pc = "accepted" /\ job[p].secret = s

(* What is under the key of a request that was not disturbed is its own.   *)
HoldersKnow ==
  \A p \in Procs \ disturbed : job[p].pc \in Holding =>
    \A s \in store : s \in Key(job[p].secret) => s = job[p].secret

MailedLast ==
  /\ LatestMailWorks
  /\ \A p \in Procs : job[p].pc = "mailed" =>
       job[p].secret = newest[KindOf[job[p].secret]] \/ job[p].secret \in overtaken

RedisInv == OnePerKey /\ IssuedApart /\ UsedOnce /\ HoldersKnow /\ MailedLast

(* Before there is a user there is nothing.                                *)
NothingYet ==
  ~ user.present =>
    /\ user = Absent /\ issued = {}
    /\ \A t \in Tokens : token[t] = "absent"
    /\ \A p \in Procs : job[p].pc \in {"idle", "register"}

(* What logins and accepted invitations have read is so, unless they were  *)
(* disturbed.                                                              *)
LoginsKnow ==
  \A p \in Procs :
    /\ job[p].pc = "login" => job[p].user.password # None
    /\ job[p].pc = "login" /\ p \notin disturbed => job[p].user.password = user.password
    /\ job[p].pc = "revoked" /\ p \notin disturbed => Valid \subseteq job[p].tokens

SessionInv == NothingYet /\ LoginsKnow /\ OldSessionHasACause

(* Requests that found no row of the device, and may still insert one.     *)
Inserters == {p \in Procs : job[p].pc = "save" /\ job[p].row = None}

(* The row a request has loaded is there, and as it was read unless the    *)
(* request was disturbed.                                                  *)
RowsKnown ==
  \A p \in Procs : job[p].pc \in {"save", "logout"} =>
    /\ job[p].pc = "logout" => job[p].row # None
    /\ job[p].row # None =>
         /\ job[p].row \in Devices
         /\ p \notin disturbed => (job[p].active <=> job[p].row \in Active)

DeviceInv ==
  /\ RowsKnown
  /\ Cardinality(Devices) + Cardinality(Inserters) <= Cardinality(Procs)

Inv == TypeOK /\ RedisInv /\ SessionInv /\ DeviceInv

-----------------------------------------------------------------------------
(* One request moves: the others stay as they are.                         *)
LEMMA JobStep ==
  ASSUME TypeOK, NEW p \in Procs, NEW j \in Job, job' = [job EXCEPT ![p] = j]
  PROVE  /\ job' \in [Procs -> Job]
         /\ \A q \in Procs : job'[q] = IF q = p THEN j ELSE job[q]
         /\ job \in [Procs -> Job]
BY DEF TypeOK

LEMMA IdleType == Idle \in Job /\ Absent \in User /\ Idle.pc = "idle" /\ Idle.secret = None
BY DEF Idle, Absent, Job, User, PC

(* The kinds of a secret and what is under its key.                        *)
LEMMA Keys ==
  ASSUME NEW s \in Secrets
  PROVE  /\ Kind(s) = KindOf[s] /\ KindOf[s] \in Kinds /\ s \in Key(s) /\ Key(s) \subseteq Secrets
         /\ KindOf[s] \in Otps => Key(s) = {r \in Secrets : KindOf[r] = KindOf[s]}
         /\ KindOf[s] \notin Otps => Key(s) = {s}
         /\ \A r \in Secrets : r \in Key(s) => s \in Key(r) /\ KindOf[r] = KindOf[s] /\ Key(r) = Key(s)
BY SecretsAssumption, NoneAssumption DEF Key, Kind, Kinds, Otps

(* What is under the key of a reset that has found nothing there.          *)
LEMMA KeysOfNone ==
  Kind(None) \in Otps /\ Key(None) = {r \in Secrets : KindOf[r] = "forgot_password"}
BY DEF Key, Kind, Kinds, Otps

(* A step that moves one request keeps the types when the rest has them.   *)
LEMMA MoveType ==
  ASSUME TypeOK, NEW p \in Procs, NEW j \in Job, job' = [job EXCEPT ![p] = j],
         workload' = workload, user' \in User, issued \subseteq issued', issued' \subseteq Secrets,
         store' \subseteq issued', mailed' \subseteq issued',
         newest' \in [Otps -> Secrets \cup {None}],
         overtaken' \subseteq Secrets, spent' \subseteq Secrets, excused' \subseteq Secrets,
         token' \in [Tokens -> {"absent", "valid", "invoked", "deleted"}],
         opened' \in [Tokens -> Passwords \cup {None}], spared' \subseteq Tokens,
         \A t \in Tokens : token'[t] = "valid" => opened'[t] # None,
         device' \in [Rows -> {"absent", "active", "inactive"}],
         disturbed' \subseteq Procs,
         j.pc \in WithSecret => j.secret \in issued' \/ (j.secret = None /\ j.pc \in Holding)
  PROVE  TypeOK'
<1>1. /\ job' \in [Procs -> Job]
      /\ \A q \in Procs : job'[q] = IF q = p THEN j ELSE job[q]
  BY JobStep
<1>2. \A q \in Procs :
        /\ job'[q].pc \in {"generated", "mailed", "stored"} => job'[q].secret \in issued'
        /\ job'[q].pc \in Holding => job'[q].secret \in issued' \cup {None}
  BY <1>1 DEF TypeOK, WithSecret, Issuing, Holding
<1> QED
  BY <1>1, <1>2 DEF TypeOK, Valid

(* The same when only the job and its disturbances change.                 *)
LEMMA QuietType ==
  ASSUME TypeOK, NEW p \in Procs, NEW j \in Job, job' = [job EXCEPT ![p] = j],
         UNCHANGED <<workload, user, redis, sessions, device>>, disturbed' \subseteq Procs,
         j.pc \in WithSecret => j.secret \in issued \/ (j.secret = None /\ j.pc \in Holding)
  PROVE  TypeOK'
<1>1. UNCHANGED <<workload, user, store, issued, mailed, newest, overtaken, spent, excused,
                  token, opened, spared, device>>
  BY DEF redis, sessions
<1>2. /\ user \in User /\ issued \subseteq Secrets /\ store \subseteq issued /\ mailed \subseteq issued
      /\ newest \in [Otps -> Secrets \cup {None}]
      /\ overtaken \subseteq Secrets /\ spent \subseteq Secrets /\ excused \subseteq Secrets
      /\ token \in [Tokens -> {"absent", "valid", "invoked", "deleted"}]
      /\ opened \in [Tokens -> Passwords \cup {None}] /\ spared \subseteq Tokens
      /\ \A t \in Tokens : token[t] = "valid" => opened[t] # None
      /\ device \in [Rows -> {"absent", "active", "inactive"}]
  BY DEF TypeOK, Valid
<1> QED
  BY <1>1, <1>2, MoveType

-----------------------------------------------------------------------------
(* The parts of RedisInv, when nothing comes to Redis and no request comes *)
(* to a secret.                                                            *)
LEMMA OneKept ==
  ASSUME OnePerKey, store' \subseteq store, newest' = newest
  PROVE  OnePerKey'
BY DEF OnePerKey, Key, Kind

LEMMA IssuedKept ==
  ASSUME IssuedApart, store' \subseteq store, mailed' = mailed, spent' = spent,
         issued \subseteq issued',
         \A q \in Procs : job'[q].pc \in Issuing => job'[q] = job[q],
         \A q \in Procs : job'[q].pc \in WithSecret =>
           job[q].pc \in WithSecret /\ job'[q].secret = job[q].secret
  PROVE  IssuedApart'
BY DEF IssuedApart

LEMMA UsedKept ==
  ASSUME UsedOnce, store' \subseteq store, spent' = spent, excused \subseteq excused',
         \A q \in Procs : job'[q].pc \in Holding =>
           job[q].pc \in Holding /\ job'[q].secret = job[q].secret,
         \A q \in Procs : job'[q].pc \in {"matched", "revoked"} => job[q].pc \in {"matched", "revoked"},
         \A q \in Procs : job[q].pc = "accepted" => job'[q] = job[q] \/ job[q].secret \in excused' \cup {None}
  PROVE  UsedOnce'
<1>1. \A q \in Procs, s \in Secrets : Holds(q, s)' => Holds(q, s)
  BY DEF Holds
<1> SUFFICES ASSUME NEW s \in Secrets \ excused'
             PROVE  /\ \A p, q \in Procs : Holds(p, s)' /\ Holds(q, s)' => p = q
                    /\ s \in spent =>
                         /\ \A p \in Procs : job'[p].pc \in {"matched", "revoked"} => job'[p].secret # s
                         /\ s \in store' => \E p \in Procs : job'[p].pc = "accepted" /\ job'[p].secret = s
  BY DEF UsedOnce
<1>2. \A q \in Procs : job'[q].pc \in {"matched", "revoked"} =>
        job[q].pc \in {"matched", "revoked"} /\ job'[q].secret = job[q].secret
  BY DEF Holding
<1>3. s \in spent /\ s \in store' => \E p \in Procs : job[p].pc = "accepted" /\ job[p].secret = s
  BY DEF UsedOnce
<1> QED
  BY <1>1, <1>2, <1>3, NoneAssumption DEF UsedOnce

LEMMA KnowKept ==
  ASSUME HoldersKnow, store' \subseteq store,
         \A q \in Procs : job'[q].pc \in Holding =>
           /\ job[q].pc \in Holding /\ job'[q].secret = job[q].secret
           /\ q \in disturbed => q \in disturbed'
  PROVE  HoldersKnow'
<1> SUFFICES ASSUME NEW q \in Procs \ disturbed', job'[q].pc \in Holding,
                    NEW s \in store', s \in Key(job'[q].secret)
             PROVE  s = job'[q].secret
  BY DEF HoldersKnow, Key, Kind
<1> QED
  BY DEF HoldersKnow

LEMMA MailKept ==
  ASSUME MailedLast, store' \subseteq store, newest' = newest, overtaken \subseteq overtaken',
         \A q \in Procs : job'[q].pc = "mailed" => job'[q] = job[q],
         \A q \in Procs : job[q].pc = "mailed" => job'[q] = job[q]
  PROVE  MailedLast'
BY DEF MailedLast, LatestMailWorks

(* No request with a secret moves.                                         *)
LEMMA RedisQuiet ==
  ASSUME TypeOK, RedisInv, NEW p \in Procs, NEW j \in Job, job' = [job EXCEPT ![p] = j],
         job[p].pc \notin WithSecret, j.pc \notin WithSecret,
         UNCHANGED redis, disturbed \subseteq disturbed' \cup {p}
  PROVE  RedisInv'
<1>1. \A q \in Procs : job'[q] = IF q = p THEN j ELSE job[q]
  BY JobStep
<1>2. UNCHANGED <<store, issued, mailed, newest, overtaken, spent, excused>>
  BY DEF redis
<1>3. \A q \in Procs : /\ job'[q].pc \in WithSecret => job'[q] = job[q] /\ q # p
                       /\ job[q].pc \in WithSecret => job'[q] = job[q]
  BY <1>1
<1>4. \A q \in Procs : job'[q].pc \in Issuing \cup Holding \cup {"mailed", "matched", "revoked"} =>
                         job'[q] = job[q] /\ q # p
  BY <1>3 DEF WithSecret, Issuing, Holding
<1>5. \A q \in Procs : job[q].pc \in {"mailed", "accepted"} => job'[q] = job[q]
  BY <1>3 DEF WithSecret, Issuing, Holding
<1>6. OnePerKey' /\ IssuedApart'
  BY <1>2, <1>3, <1>4, OneKept, IssuedKept DEF RedisInv
<1>7. UsedOnce'
  BY <1>2, <1>4, <1>5, UsedKept DEF RedisInv
<1>8. HoldersKnow'
  BY <1>2, <1>4, KnowKept DEF RedisInv
<1>9. MailedLast'
  BY <1>2, <1>4, <1>5, MailKept DEF RedisInv
<1> QED
  BY <1>6, <1>7, <1>8, <1>9 DEF RedisInv

LEMMA ExpireRedis ==
  ASSUME RedisInv, NEW s \in Secrets, Expire(s)
  PROVE  RedisInv'
<1>1. store' \subseteq store
      /\ UNCHANGED <<issued, mailed, newest, overtaken, spent, excused, job, disturbed>>
  BY DEF Expire
<1> QED
  BY <1>1, OneKept, IssuedKept, UsedKept, KnowKept, MailKept DEF RedisInv

LEMMA GenerateRedis ==
  ASSUME TypeOK, RedisInv, NEW p \in Procs, Generate(p)
  PROVE  RedisInv'
<1>1. PICK s \in (Secrets \cap workload) \ issued :
        /\ Begin(p, [Idle EXCEPT !.pc = "generated", !.secret = s])
        /\ issued' = issued \cup {s}
  BY DEF Generate
<1> DEFINE j == [Idle EXCEPT !.pc = "generated", !.secret = s]
<1>2. j \in Job /\ j.pc = "generated" /\ j.secret = s
  BY IdleType DEF Idle, Job, PC
<1>3. UNCHANGED <<store, mailed, newest, overtaken, spent, excused, disturbed>> /\ job[p].pc = "idle"
  BY <1>1 DEF Generate, Begin
<1>4. job' = [job EXCEPT ![p] = j]
  BY <1>1 DEF Begin
<1> HIDE DEF j
<1>5. \A q \in Procs : job'[q] = IF q = p THEN j ELSE job[q]
  BY <1>2, <1>4, JobStep
<1>6. \A q \in Procs : job'[q].pc \in Holding \cup {"mailed", "matched", "revoked"} => job'[q] = job[q]
  BY <1>2, <1>5 DEF Holding
<1>7. \A q \in Procs : job[q].pc \in {"mailed", "accepted"} => job'[q] = job[q]
  BY <1>3, <1>5
<1>8. IssuedApart'
  <2>1. s \notin spent /\ s \notin store /\ s \notin mailed /\ spent' \subseteq issued'
    BY <1>1, <1>3 DEF RedisInv, IssuedApart, TypeOK
  <2>2. \A q \in Procs \ {p} : job[q].pc \in WithSecret => job[q].secret # s
    BY NoneAssumption DEF TypeOK, WithSecret, Issuing
  <2>3. \A q \in Procs \ {p} : job'[q] = job[q]
    BY <1>5
  <2>4. job'[p].pc = "generated" /\ job'[p].secret = s
    BY <1>2, <1>5
  <2> QED
    BY <1>3, <2>1, <2>2, <2>3, <2>4 DEF RedisInv, IssuedApart, WithSecret
<1> QED
  BY <1>3, <1>6, <1>7, <1>8, OneKept, UsedKept, KnowKept, MailKept DEF RedisInv

LEMMA MailCodeRedis ==
  ASSUME TypeOK, RedisInv, NEW p \in Procs, MailCode(p)
  PROVE  RedisInv'
<1>1. PICK s \in Secrets : s = job[p].secret /\ KindOf[s] \in Otps
  BY Keys DEF MailCode, IsOtp, TypeOK
<1>2. /\ job[p].pc = "generated" /\ job' = [job EXCEPT ![p].pc = "mailed"]
      /\ mailed' = mailed \cup {s} /\ newest' = [newest EXCEPT ![KindOf[s]] = s]
      /\ overtaken' = overtaken \cup
           {job[q].secret : q \in {r \in Others(p, {"mailed"}) : KindOf[job[r].secret] = KindOf[s]}}
      /\ UNCHANGED <<store, issued, spent, excused, disturbed>>
  BY <1>1 DEF MailCode
<1>3. /\ job'[p].pc = "mailed" /\ job'[p].secret = s
      /\ \A q \in Procs \ {p} : job'[q] = job[q]
  BY <1>1, <1>2 DEF TypeOK, Job
<1>4. OnePerKey'
  BY <1>1, <1>2 DEF RedisInv, OnePerKey, Key, TypeOK
<1>5. IssuedApart'
  <2>1. /\ s \notin spent /\ s \notin store
        /\ \A q \in Procs \ {p} : job[q].pc \in WithSecret => job[q].secret # s
    BY <1>1, <1>2 DEF RedisInv, IssuedApart, Issuing
  <2> SUFFICES ASSUME NEW q \in Procs, job'[q].pc \in Issuing
               PROVE  /\ job'[q].secret \notin spent
                      /\ \A r \in Procs \ {q} : job'[r].pc \in WithSecret => job'[r].secret # job'[q].secret
                      /\ job'[q].pc = "stored" \/ job'[q].secret \notin store
                      /\ job'[q].pc = "mailed" \/ job'[q].secret \notin mailed'
                      /\ job'[q].pc = "mailed" => KindOf[job'[q].secret] \in Otps
                      /\ job'[q].pc = "stored" => KindOf[job'[q].secret] \notin Otps
    BY <1>2 DEF RedisInv, IssuedApart
  <2>2. CASE q = p
    BY <1>1, <1>3, <2>1, <2>2
  <2>3. CASE q # p
    BY <1>2, <1>3, <2>1, <2>3 DEF RedisInv, IssuedApart, WithSecret
  <2> QED
    BY <2>2, <2>3
<1>6. /\ \A q \in Procs : job'[q].pc \in Holding \cup {"matched", "revoked"} => job'[q] = job[q]
      /\ \A q \in Procs : job[q].pc = "accepted" => job'[q] = job[q]
  BY <1>2, <1>3 DEF Holding
<1>7. UsedOnce' /\ HoldersKnow'
  BY <1>2, <1>6, UsedKept, KnowKept DEF RedisInv
<1>8. MailedLast'
  <2>1. newest'[KindOf[s]] = s /\ \A k \in Otps \ {KindOf[s]} : newest'[k] = newest[k]
    BY <1>1, <1>2 DEF TypeOK
  <2>2. LatestMailWorks'
    <3> SUFFICES ASSUME NEW r \in store, KindOf[r] \in Otps
                 PROVE  \/ r = newest'[KindOf[r]] \/ r \in overtaken'
                        \/ \E q \in Procs : job'[q].pc = "mailed" /\ job'[q].secret = newest'[KindOf[r]]
      BY <1>2 DEF LatestMailWorks
    <3>1. CASE KindOf[r] = KindOf[s]
      BY <1>3, <2>1, <3>1
    <3>2. CASE KindOf[r] # KindOf[s]
      <4>1. \/ r = newest[KindOf[r]] \/ r \in overtaken
            \/ \E q \in Procs : job[q].pc = "mailed" /\ job[q].secret = newest[KindOf[r]]
        BY DEF RedisInv, MailedLast, LatestMailWorks
      <4>2. \A q \in Procs : job[q].pc = "mailed" => job'[q] = job[q]
        BY <1>2, <1>3
      <4> QED
        BY <1>2, <2>1, <3>2, <4>1, <4>2
    <3> QED
      BY <3>1, <3>2
  <2>3. ASSUME NEW q \in Procs, job'[q].pc = "mailed"
        PROVE  job'[q].secret = newest'[KindOf[job'[q].secret]] \/ job'[q].secret \in overtaken'
    <3>1. CASE q = p
      BY <1>3, <2>1, <3>1
    <3>2. CASE q # p
      <4>1. job'[q] = job[q] /\ KindOf[job[q].secret] \in Otps
        BY <1>3, <2>3, <3>2 DEF RedisInv, IssuedApart, Issuing
      <4>2. job[q].secret = newest[KindOf[job[q].secret]] \/ job[q].secret \in overtaken
        BY <2>3, <4>1 DEF RedisInv, MailedLast
      <4>3. KindOf[job[q].secret] = KindOf[s] => job[q].secret \in overtaken'
        BY <1>2, <2>3, <3>2, <4>1 DEF Others
      <4> QED
        BY <1>2, <2>1, <4>1, <4>2, <4>3
    <3> QED
      BY <3>1, <3>2
  <2> QED
    BY <2>2, <2>3 DEF MailedLast
<1> QED
  BY <1>4, <1>5, <1>7, <1>8 DEF RedisInv

(* SET: what is new in Redis, and what is gone.                            *)
LEMMA PutStores ==
  ASSUME TypeOK, RedisInv, NEW p \in Procs, NEW s \in Secrets, s = job[p].secret, Put(p),
         newest' = newest
  PROVE  /\ store' = (store \ Key(s)) \cup {s} /\ store' \subseteq Secrets
         /\ OnePerKey'
<1>1. store' = (store \ Key(s)) \cup {s} /\ store \subseteq Secrets
  BY DEF Put, TypeOK
<1>2. ASSUME NEW a \in store', NEW b \in store', a \in Key(b)
      PROVE  a = b
  <2>1. a \in Secrets /\ b \in Secrets /\ b \in Key(a)
    BY <1>1, <1>2, Keys
  <2>2. CASE a = s \/ b = s
    BY <1>1, <1>2, <2>1, <2>2
  <2>3. CASE a # s /\ b # s
    BY <1>1, <1>2, <2>3 DEF RedisInv, OnePerKey
  <2> QED
    BY <2>2, <2>3
<1>3. \A a, b \in store' : a \in Key(b)' => a = b
  BY <1>2 DEF Key, Kind
<1> QED
  BY <1>1, <1>3 DEF RedisInv, OnePerKey

LEMMA StoreCodeRedis ==
  ASSUME TypeOK, RedisInv, NEW p \in Procs, StoreCode(p)
  PROVE  RedisInv'
<1>1. PICK s \in Secrets : s = job[p].secret /\ KindOf[s] \in Otps
  BY DEF StoreCode, TypeOK, RedisInv, IssuedApart, Issuing
<1>2. /\ job[p].pc = "mailed" /\ Put(p) /\ Finish(p, Holders(p))
      /\ UNCHANGED <<issued, mailed, newest, overtaken, spent, excused>>
  BY DEF StoreCode
<1>3. store' = (store \ Key(s)) \cup {s} /\ store' \subseteq Secrets /\ OnePerKey'
  BY <1>1, <1>2, PutStores
<1>4. \A q \in Procs : job'[q] = IF q = p THEN Idle ELSE job[q]
  BY <1>2, IdleType, JobStep DEF Finish
<1>5. /\ s \notin spent
      /\ \A q \in Procs \ {p} : job[q].pc \in WithSecret => job[q].secret # s
  BY <1>1, <1>2 DEF RedisInv, IssuedApart, Issuing
<1>6. IssuedApart'
  <2>1. \A q \in Procs : job'[q].pc \in WithSecret => job'[q] = job[q] /\ q # p
    BY <1>4, IdleType DEF WithSecret, Issuing, Holding
  <2>2. \A q \in Procs : job'[q].pc \in Issuing => job'[q].secret # s
    BY <1>5, <2>1 DEF WithSecret
  <2> QED
    BY <1>2, <1>3, <2>1, <2>2 DEF RedisInv, IssuedApart, WithSecret
<1>7. UsedOnce'
  <2>1. \A q \in Procs : /\ job'[q].pc \in Holding => job'[q] = job[q]
                         /\ job'[q].pc \in {"matched", "revoked"} => job'[q] = job[q]
                         /\ job[q].pc = "accepted" => job'[q] = job[q]
    BY <1>2, <1>4, IdleType DEF Holding
  <2>2. \A q \in Procs, r \in Secrets : Holds(q, r)' => Holds(q, r)
    BY <2>1 DEF Holds
  <2>3. \A r \in spent : r \in store' => r \in store
    BY <1>3, <1>5
  <2> QED
    BY <1>2, <2>1, <2>2, <2>3 DEF RedisInv, UsedOnce
<1>8. HoldersKnow'
  <2> SUFFICES ASSUME NEW q \in Procs \ disturbed', job'[q].pc \in Holding,
                      NEW r \in store', r \in Key(job'[q].secret)
               PROVE  r = job'[q].secret
    BY DEF HoldersKnow, Key, Kind
  <2>1. q # p /\ job'[q] = job[q] /\ job[q].pc \in Holding
    BY <1>4, IdleType DEF Holding
  <2>2. q \notin disturbed /\ q \notin Holders(p)
    BY <1>2, <2>1 DEF Finish
  <2>3. s \notin Key(job[q].secret)
    BY <1>1, <2>1, <2>2 DEF Holders, Others
  <2>4. r \in store
    BY <1>3, <2>1, <2>3
  <2> QED
    BY <2>1, <2>2, <2>4 DEF RedisInv, HoldersKnow
<1>9. MailedLast'
  <2>1. s = newest[KindOf[s]] \/ s \in overtaken
    BY <1>1, <1>2 DEF RedisInv, MailedLast
  <2>2. ASSUME NEW r \in store', KindOf[r] \in Otps
        PROVE  \/ r = newest[KindOf[r]] \/ r \in overtaken
               \/ \E q \in Procs : job'[q].pc = "mailed" /\ job'[q].secret = newest[KindOf[r]]
    <3>1. CASE r = s
      BY <2>1, <3>1
    <3>2. CASE r # s
      <4>1. r \in store /\ KindOf[r] # KindOf[s]
        BY <1>1, <1>3, <2>2, <3>2, Keys
      <4>2. \/ r = newest[KindOf[r]] \/ r \in overtaken
            \/ \E q \in Procs : job[q].pc = "mailed" /\ job[q].secret = newest[KindOf[r]]
        BY <2>2, <4>1 DEF RedisInv, MailedLast, LatestMailWorks
      <4>3. newest[KindOf[r]] # s
        BY <1>1, <2>2, <4>1, NoneAssumption DEF RedisInv, OnePerKey
      <4> QED
        BY <1>1, <1>4, <4>2, <4>3
    <3> QED
      BY <3>1, <3>2
  <2>3. \A q \in Procs : job'[q].pc = "mailed" => job'[q] = job[q]
    BY <1>4, IdleType
  <2> QED
    BY <1>2, <2>2, <2>3 DEF RedisInv, MailedLast, LatestMailWorks
<1> QED
  BY <1>3, <1>6, <1>7, <1>8, <1>9 DEF RedisInv

LEMMA StoreInvitationRedis ==
  ASSUME TypeOK, RedisInv, NEW p \in Procs, StoreInvitation(p)
  PROVE  RedisInv'
<1>1. PICK s \in Secrets : s = job[p].secret /\ KindOf[s] \notin Otps
  BY Keys DEF StoreInvitation, IsOtp, TypeOK
<1>2. /\ job[p].pc = "generated" /\ Put(p) /\ job' = [job EXCEPT ![p].pc = "stored"]
      /\ UNCHANGED <<issued, mailed, newest, overtaken, spent, excused, disturbed>>
  BY DEF StoreInvitation
<1>3. /\ store' = store \cup {s} /\ store' \subseteq Secrets /\ OnePerKey'
  <2>1. store' = (store \ Key(s)) \cup {s} /\ store' \subseteq Secrets /\ OnePerKey'
    BY <1>1, <1>2, PutStores
  <2> QED
    BY <1>1, <2>1, Keys
<1>4. /\ job'[p].pc = "stored" /\ job'[p].secret = s
      /\ \A q \in Procs \ {p} : job'[q] = job[q]
  BY <1>1, <1>2 DEF TypeOK, Job
<1>5. /\ s \notin spent /\ s \notin mailed
      /\ \A q \in Procs \ {p} : job[q].pc \in WithSecret => job[q].secret # s
  BY <1>1, <1>2 DEF RedisInv, IssuedApart, Issuing
<1>6. IssuedApart'
  <2> SUFFICES ASSUME NEW q \in Procs, job'[q].pc \in Issuing
               PROVE  /\ job'[q].secret \notin spent
                      /\ \A r \in Procs \ {q} : job'[r].pc \in WithSecret => job'[r].secret # job'[q].secret
                      /\ job'[q].pc = "stored" \/ job'[q].secret \notin store'
                      /\ job'[q].pc = "mailed" \/ job'[q].secret \notin mailed
                      /\ job'[q].pc = "mailed" => KindOf[job'[q].secret] \in Otps
                      /\ job'[q].pc = "stored" => KindOf[job'[q].secret] \notin Otps
    BY <1>2 DEF RedisInv, IssuedApart
  <2>1. CASE q = p
    BY <1>1, <1>4, <1>5, <2>1
  <2>2. CASE q # p
    BY <1>3, <1>4, <1>5, <2>2 DEF RedisInv, IssuedApart, WithSecret
  <2> QED
    BY <2>1, <2>2
<1>7. UsedOnce'
  <2>1. \A q \in Procs : /\ job'[q].pc \in Holding => job'[q] = job[q]
                         /\ job'[q].pc \in {"matched", "revoked"} => job'[q] = job[q]
                         /\ job[q].pc = "accepted" => job'[q] = job[q]
    BY <1>2, <1>4 DEF Holding
  <2>2. \A q \in Procs, r \in Secrets : Holds(q, r)' => Holds(q, r)
    BY <2>1 DEF Holds
  <2>3. \A r \in spent : r \in store' => r \in store
    BY <1>3, <1>5
  <2> QED
    BY <1>2, <2>1, <2>2, <2>3 DEF RedisInv, UsedOnce
<1>8. HoldersKnow'
  <2> SUFFICES ASSUME NEW q \in Procs \ disturbed', job'[q].pc \in Holding,
                      NEW r \in store', r \in Key(job'[q].secret)
               PROVE  r = job'[q].secret
    BY DEF HoldersKnow, Key, Kind
  <2>1. q # p /\ job'[q] = job[q] /\ job[q].pc \in Holding
    BY <1>4 DEF Holding
  <2>2. job[q].secret \in Secrets \cup {None} /\ job[q].secret # s
    BY <1>5, <2>1 DEF TypeOK, WithSecret
  <2>3. r # s
    <3>1. s \notin Key(None)
      BY <1>1, KeysOfNone DEF Otps, Kinds
    <3> QED
      BY <1>1, <2>1, <2>2, <3>1, Keys
  <2> QED
    BY <1>2, <1>3, <2>1, <2>3 DEF RedisInv, HoldersKnow
<1>9. MailedLast'
  <2>1. \A q \in Procs : /\ job'[q].pc = "mailed" => job'[q] = job[q]
                         /\ job[q].pc = "mailed" => job'[q] = job[q]
    BY <1>2, <1>4
  <2> QED
    BY <1>1, <1>2, <1>3, <2>1 DEF RedisInv, MailedLast, LatestMailWorks
<1> QED
  BY <1>3, <1>6, <1>7, <1>8, <1>9 DEF RedisInv

LEMMA MailInvitationRedis ==
  ASSUME TypeOK, RedisInv, NEW p \in Procs, MailInvitation(p)
  PROVE  RedisInv'
<1>1. /\ job[p].pc = "stored" /\ mailed' = mailed \cup {job[p].secret}
      /\ job' = [job EXCEPT ![p] = Idle] /\ disturbed' = disturbed \ {p}
      /\ UNCHANGED <<store, issued, newest, overtaken, spent, excused>>
  BY DEF MailInvitation, Finish
<1>2. \A q \in Procs : job'[q] = IF q = p THEN Idle ELSE job[q]
  BY <1>1, IdleType, JobStep
<1>3. \A q \in Procs : job'[q].pc \in WithSecret \cup {"mailed", "matched", "revoked"} =>
                         job'[q] = job[q] /\ q # p
  BY <1>2, IdleType DEF WithSecret, Issuing, Holding
<1>4. \A q \in Procs : job[q].pc \in {"mailed", "accepted"} => job'[q] = job[q]
  BY <1>1, <1>2
<1>5. IssuedApart'
  <2>1. \A q \in Procs \ {p} : job[q].pc \in WithSecret => job[q].secret # job[p].secret
    BY <1>1 DEF RedisInv, IssuedApart, Issuing
  <2>2. \A q \in Procs : job'[q].pc \in Issuing =>
          job'[q] = job[q] /\ (job[q].secret \in mailed' => job[q].secret \in mailed)
    BY <1>1, <1>3, <2>1 DEF WithSecret
  <2> QED
    BY <1>1, <1>3, <2>2 DEF RedisInv, IssuedApart
<1>6. \A q \in Procs : job'[q].pc \in Holding => job'[q] = job[q] /\ q # p
  BY <1>3 DEF WithSecret
<1> QED
  BY <1>1, <1>3, <1>4, <1>5, <1>6, OneKept, UsedKept, KnowKept, MailKept DEF RedisInv

LEMMA MatchRedis ==
  ASSUME TypeOK, RedisInv, NEW p \in Procs, Match(p)
  PROVE  RedisInv'
<1>1. PICK s \in store \cap mailed :
        /\ Begin(p, [Idle EXCEPT !.pc = "matched", !.secret = s])
        /\ excused' = IF \E q \in Others(p, Holding) : job[q].secret = s
                      THEN excused \cup {s} ELSE excused
        /\ UNCHANGED <<store, issued, mailed, newest, overtaken, spent>>
  BY DEF Match
<1> DEFINE j == [Idle EXCEPT !.pc = "matched", !.secret = s]
<1>2. s \in Secrets /\ j \in Job /\ j.pc = "matched" /\ j.secret = s
  BY IdleType DEF Idle, Job, PC, Holding, TypeOK
<1>3. job[p].pc = "idle" /\ job' = [job EXCEPT ![p] = j] /\ UNCHANGED disturbed
  BY <1>1 DEF Begin
<1> HIDE DEF j
<1>4. \A q \in Procs : job'[q] = IF q = p THEN j ELSE job[q]
  BY <1>2, <1>3, JobStep
<1>5. \A q \in Procs : job[q].pc \in Issuing => job[q].secret # s
  BY <1>1 DEF RedisInv, IssuedApart, Issuing
<1>6. OnePerKey'
  BY <1>1, OneKept DEF RedisInv
<1>7. IssuedApart'
  <2>1. /\ \A q \in Procs : job'[q].pc \in Issuing => job'[q] = job[q] /\ job[q].secret # s
        /\ job'[p].secret = s /\ \A q \in Procs \ {p} : job'[q] = job[q]
    BY <1>2, <1>4, <1>5 DEF Issuing
  <2> QED
    BY <1>1, <2>1 DEF RedisInv, IssuedApart
<1>8. UsedOnce'
  <2> SUFFICES ASSUME NEW r \in Secrets \ excused'
               PROVE  /\ \A a, b \in Procs : Holds(a, r)' /\ Holds(b, r)' => a = b
                      /\ r \in spent =>
                           /\ \A q \in Procs : job'[q].pc \in {"matched", "revoked"} => job'[q].secret # r
                           /\ r \in store => \E q \in Procs : job'[q].pc = "accepted" /\ job'[q].secret = r
    BY <1>1 DEF UsedOnce
  <2>1. r \notin excused
    BY <1>1
  <2>2. \A q \in Procs : job[q].pc = "accepted" => job'[q] = job[q]
    BY <1>3, <1>4
  <2>3. CASE r # s
    <3>1. \A q \in Procs : Holds(q, r)' => Holds(q, r)
      BY <1>2, <1>4, <2>3 DEF Holds
    <3>2. \A q \in Procs : job'[q].pc \in {"matched", "revoked"} /\ job'[q].secret = r =>
            job'[q] = job[q]
      BY <1>2, <1>4, <2>3
    <3> QED
      BY <2>1, <2>2, <3>1, <3>2 DEF RedisInv, UsedOnce
  <2>4. CASE r = s
    <3>1. \A q \in Procs \ {p} : ~ (job[q].pc \in Holding /\ job[q].secret = s)
      BY <1>1, <2>4 DEF Others
    <3>2. \A q \in Procs : ~ (job[q].pc = "accepted" /\ job[q].secret = s)
      BY <1>3, <3>1 DEF Holding
    <3>3. s \notin spent
      BY <1>1, <1>2, <2>1, <2>4, <3>2 DEF RedisInv, UsedOnce
    <3>4. \A q \in Procs : Holds(q, r)' => q = p
      BY <1>4, <2>4, <3>1 DEF Holds
    <3> QED
      BY <2>4, <3>3, <3>4
  <2> QED
    BY <2>3, <2>4
<1>9. HoldersKnow'
  <2> SUFFICES ASSUME NEW q \in Procs \ disturbed', job'[q].pc \in Holding,
                      NEW r \in store', r \in Key(job'[q].secret)
               PROVE  r = job'[q].secret
    BY DEF HoldersKnow, Key, Kind
  <2>1. CASE q = p
    BY <1>1, <1>2, <1>4, <2>1 DEF RedisInv, OnePerKey
  <2>2. CASE q # p
    BY <1>1, <1>3, <1>4, <2>2 DEF RedisInv, HoldersKnow
  <2> QED
    BY <2>1, <2>2
<1>10. MailedLast'
  <2>1. \A q \in Procs : /\ job'[q].pc = "mailed" => job'[q] = job[q]
                         /\ job[q].pc = "mailed" => job'[q] = job[q]
    BY <1>2, <1>3, <1>4
  <2> QED
    BY <1>1, <2>1, MailKept DEF RedisInv
<1> QED
  BY <1>6, <1>7, <1>8, <1>9, <1>10 DEF RedisInv

LEMMA MatchNoneRedis ==
  ASSUME TypeOK, RedisInv, NEW p \in Procs, MatchNone(p)
  PROVE  RedisInv'
<1> DEFINE j == [Idle EXCEPT !.pc = "matched"]
<1>1. j \in Job /\ j.pc = "matched" /\ j.secret = None
  BY IdleType DEF Idle, Job, PC, Holding
<1>2. /\ job[p].pc = "idle" /\ job' = [job EXCEPT ![p] = j] /\ store \cap Key(None) = {}
      /\ UNCHANGED <<store, issued, mailed, newest, overtaken, spent, excused, disturbed>>
  BY DEF MatchNone, Begin, redis
<1> HIDE DEF j
<1>3. \A q \in Procs : job'[q] = IF q = p THEN j ELSE job[q]
  BY <1>1, <1>2, JobStep
<1>4. \A q \in Procs : /\ job[q].pc \in {"mailed", "accepted"} => job'[q] = job[q]
                       /\ job'[q].pc = "mailed" => job'[q] = job[q]
  BY <1>1, <1>2, <1>3
<1>5. IssuedApart'
  <2>1. /\ \A q \in Procs : job'[q].pc \in Issuing => job'[q] = job[q] /\ job[q].secret # None
        /\ job'[p].secret = None /\ \A q \in Procs \ {p} : job'[q] = job[q]
    BY <1>1, <1>3, NoneAssumption DEF Issuing, TypeOK
  <2> QED
    BY <1>2, <2>1 DEF RedisInv, IssuedApart
<1>6. UsedOnce'
  <2>1. \A q \in Procs, s \in Secrets : Holds(q, s)' => Holds(q, s)
    BY <1>1, <1>3, NoneAssumption DEF Holds
  <2>2. \A q \in Procs : job'[q].pc \in {"matched", "revoked"} /\ job'[q].secret # None =>
          job'[q] = job[q]
    BY <1>1, <1>3
  <2> QED
    BY <1>2, <1>4, <2>1, <2>2, NoneAssumption DEF RedisInv, UsedOnce
<1>7. HoldersKnow'
  <2> SUFFICES ASSUME NEW q \in Procs \ disturbed', job'[q].pc \in Holding,
                      NEW r \in store', r \in Key(job'[q].secret)
               PROVE  r = job'[q].secret
    BY DEF HoldersKnow, Key, Kind
  <2> QED
    BY <1>1, <1>2, <1>3 DEF RedisInv, HoldersKnow
<1> QED
  BY <1>2, <1>4, <1>5, <1>6, <1>7, OneKept, MailKept DEF RedisInv

LEMMA RevokeRedis ==
  ASSUME TypeOK, RedisInv, NEW p \in Procs, Revoke(p)
  PROVE  RedisInv'
<1>1. /\ job[p].pc = "matched" /\ UNCHANGED <<redis, disturbed>>
      /\ job' = [job EXCEPT ![p].pc = "revoked",
                            ![p].tokens = {t \in Tokens : token[t] \in {"valid", "invoked"}}]
  BY DEF Revoke
<1>2. /\ job'[p].pc = "revoked" /\ job'[p].secret = job[p].secret
      /\ \A q \in Procs \ {p} : job'[q] = job[q]
  BY <1>1 DEF TypeOK, Job
<1>3. \A q \in Procs : /\ job'[q].pc \in Issuing \cup {"mailed"} => job'[q] = job[q]
                       /\ job[q].pc \in {"mailed", "accepted"} => job'[q] = job[q]
                       /\ job'[q].secret = job[q].secret
                       /\ job'[q].pc \in {"matched", "revoked"} => job[q].pc \in {"matched", "revoked"}
                       /\ job'[q].pc \in Holding => job[q].pc \in Holding
                       /\ job'[q].pc \in WithSecret => job[q].pc \in WithSecret
  BY <1>1, <1>2 DEF Issuing, Holding, WithSecret
<1>4. UNCHANGED <<store, issued, mailed, newest, overtaken, spent, excused>>
  BY <1>1 DEF redis
<1> QED
  BY <1>1, <1>3, <1>4, OneKept, IssuedKept, UsedKept, KnowKept, MailKept DEF RedisInv

(* VerifyEmail, ResetPassword and SetPassword.                             *)
LEMMA AcceptRedis ==
  ASSUME TypeOK, RedisInv, NEW p \in Procs, Accept(p), job[p].pc \in {"matched", "revoked"},
         disturbed \subseteq disturbed'
  PROVE  RedisInv'
<1>0. CASE job[p].secret = None
  <2>1. /\ job' = [job EXCEPT ![p].pc = "accepted"] /\ spent' = spent
        /\ UNCHANGED <<store, issued, mailed, newest, overtaken, excused>>
    BY <1>0 DEF Accept, TypeOK
  <2>2. /\ job'[p].pc = "accepted" /\ job'[p].secret = job[p].secret
        /\ \A q \in Procs \ {p} : job'[q] = job[q]
    BY <2>1 DEF TypeOK, Job
  <2>3. \A q \in Procs : /\ job'[q].pc \in Issuing \cup {"mailed", "matched", "revoked"} => job'[q] = job[q]
                         /\ job[q].pc \in {"mailed", "accepted"} => job'[q] = job[q]
                         /\ job'[q].secret = job[q].secret
                         /\ job'[q].pc \in Holding => job[q].pc \in Holding
                         /\ job'[q].pc \in WithSecret => job[q].pc \in WithSecret
    BY <2>2 DEF Issuing, Holding, WithSecret
  <2>4. \A q \in Procs : job'[q].pc \in {"matched", "revoked"} => job[q].pc \in {"matched", "revoked"}
    BY <2>3
  <2> QED
    BY <2>1, <2>3, <2>4, OneKept, IssuedKept, UsedKept, KnowKept, MailKept DEF RedisInv
<1> SUFFICES ASSUME job[p].secret # None
             PROVE  RedisInv'
  BY <1>0
<1>1. PICK s \in Secrets : s = job[p].secret /\ s \in issued
  BY DEF TypeOK, Holding
<1>2. /\ spent' = spent \cup {s} /\ job' = [job EXCEPT ![p].pc = "accepted"]
      /\ UNCHANGED <<store, issued, mailed, newest, overtaken, excused>>
  BY <1>1 DEF Accept
<1>3. /\ job'[p].pc = "accepted" /\ job'[p].secret = s
      /\ \A q \in Procs \ {p} : job'[q] = job[q]
  BY <1>1, <1>2 DEF TypeOK, Job
<1>4. \A q \in Procs : /\ job'[q].pc \in Issuing \cup {"mailed"} => job'[q] = job[q] /\ q # p
                       /\ job[q].pc = "mailed" => job'[q] = job[q]
                       /\ job'[q].secret = job[q].secret
                       /\ job'[q].pc \in Holding => job[q].pc \in Holding
                       /\ job'[q].pc \in WithSecret => job[q].pc \in WithSecret
  BY <1>1, <1>3 DEF Issuing, Holding, WithSecret
<1>5. IssuedApart'
  <2>1. \A q \in Procs : job'[q].pc \in Issuing => job'[q] = job[q] /\ job[q].secret # s
    <3>1. job[p].pc \in WithSecret
      BY DEF WithSecret, Holding
    <3> QED
      BY <1>1, <1>4, <3>1 DEF RedisInv, IssuedApart
  <2> QED
    BY <1>1, <1>2, <1>4, <2>1 DEF RedisInv, IssuedApart
<1>6. UsedOnce'
  <2> SUFFICES ASSUME NEW r \in Secrets \ excused
               PROVE  /\ \A a, b \in Procs : Holds(a, r)' /\ Holds(b, r)' => a = b
                      /\ r \in spent' =>
                           /\ \A q \in Procs : job'[q].pc \in {"matched", "revoked"} => job'[q].secret # r
                           /\ r \in store => \E q \in Procs : job'[q].pc = "accepted" /\ job'[q].secret = r
    BY <1>2 DEF UsedOnce
  <2>1. \A q \in Procs : Holds(q, r)' => Holds(q, r)
    BY <1>4 DEF Holds
  <2>2. \A a, b \in Procs : Holds(a, r) /\ Holds(b, r) => a = b
    BY DEF RedisInv, UsedOnce
  <2>3. CASE r = s
    <3>1. \A q \in Procs : job'[q].pc \in {"matched", "revoked"} => job'[q].secret # r
      <4>1. Holds(p, r)
        BY <1>1, <2>3 DEF Holds, Holding
      <4>2. \A q \in Procs \ {p} : ~ Holds(q, r)
        BY <2>2, <4>1
      <4> QED
        BY <1>3, <4>2 DEF Holds, Holding
    <3> QED
      BY <1>3, <2>1, <2>2, <2>3, <3>1
  <2>4. CASE r # s
    <3>1. \A q \in Procs : /\ job'[q].pc \in {"matched", "revoked"} => job'[q] = job[q]
                           /\ job[q].pc = "accepted" => job'[q] = job[q]
      BY <1>3
    <3> QED
      BY <1>2, <2>1, <2>2, <2>4, <3>1 DEF RedisInv, UsedOnce
  <2> QED
    BY <2>3, <2>4
<1> QED
  BY <1>2, <1>4, <1>5, <1>6, OneKept, KnowKept, MailKept DEF RedisInv

LEMMA DiscardRedis ==
  ASSUME TypeOK, RedisInv, NEW p \in Procs, Discard(p)
  PROVE  RedisInv'
<1>1. PICK s \in Secrets \cup {None} : s = job[p].secret
  BY DEF Discard, TypeOK, Holding
<1>2. /\ job[p].pc = "accepted" /\ store' = store \ Key(s)
      /\ job' = [job EXCEPT ![p] = Idle] /\ disturbed' = disturbed \ {p}
      /\ UNCHANGED <<issued, mailed, newest, overtaken, spent, excused>>
  BY <1>1 DEF Discard, Finish
<1>3. \A q \in Procs : job'[q] = IF q = p THEN Idle ELSE job[q]
  BY <1>2, IdleType, JobStep
<1>4. \A q \in Procs : /\ job'[q].pc \in WithSecret => job'[q] = job[q] /\ q # p
                       /\ job'[q].pc \in Issuing => job'[q] = job[q]
                       /\ job'[q].pc \in Holding => job'[q] = job[q] /\ q # p
                       /\ job'[q].pc \in {"mailed", "matched", "revoked"} => job'[q] = job[q]
                       /\ job[q].pc = "mailed" => job'[q] = job[q]
  BY <1>2, <1>3, IdleType DEF WithSecret, Issuing, Holding
<1>5. UsedOnce'
  <2>1. \A q \in Procs, r \in Secrets : Holds(q, r)' => Holds(q, r)
    BY <1>4 DEF Holds
  <2>2. s \notin store' /\ store' \subseteq store
    BY <1>2, Keys, NoneAssumption DEF TypeOK
  <2>3. \A q \in Procs : job[q].pc = "accepted" /\ job[q].secret # s => job'[q] = job[q]
    BY <1>1, <1>3
  <2> SUFFICES ASSUME NEW r \in Secrets \ excused
               PROVE  /\ \A a, b \in Procs : Holds(a, r)' /\ Holds(b, r)' => a = b
                      /\ r \in spent =>
                           /\ \A q \in Procs : job'[q].pc \in {"matched", "revoked"} => job'[q].secret # r
                           /\ r \in store' => \E q \in Procs : job'[q].pc = "accepted" /\ job'[q].secret = r
    BY <1>2 DEF UsedOnce
  <2>4. \A a, b \in Procs : Holds(a, r)' /\ Holds(b, r)' => a = b
    BY <2>1 DEF RedisInv, UsedOnce
  <2>5. r \in spent => \A q \in Procs : job'[q].pc \in {"matched", "revoked"} => job'[q].secret # r
    BY <1>4 DEF RedisInv, UsedOnce
  <2>6. r \in spent /\ r \in store' => \E q \in Procs : job'[q].pc = "accepted" /\ job'[q].secret = r
    BY <2>2, <2>3 DEF RedisInv, UsedOnce
  <2> QED
    BY <2>4, <2>5, <2>6
<1>6. store' \subseteq store
  BY <1>2
<1>7. \A q \in Procs : job'[q].pc \in Holding => (q \in disturbed => q \in disturbed')
  BY <1>2, <1>4
<1> QED
  BY <1>2, <1>4, <1>5, <1>6, <1>7, OneKept, IssuedKept, KnowKept, MailKept DEF RedisInv

LEMMA FailRedis ==
  ASSUME TypeOK, RedisInv, NEW p \in Procs, Fail(p)
  PROVE  RedisInv'
<1>1. /\ excused' = IF job[p].pc = "accepted" THEN excused \cup ({job[p].secret} \ {None})
                    ELSE excused
      /\ overtaken' = IF job[p].pc = "mailed" THEN overtaken \cup (store \cap Key(job[p].secret))
                      ELSE overtaken
      /\ job' = [job EXCEPT ![p] = Idle] /\ disturbed' = disturbed \ {p}
      /\ UNCHANGED <<store, issued, mailed, newest, spent>>
  BY DEF Fail, Finish
<1>2. \A q \in Procs : job'[q] = IF q = p THEN Idle ELSE job[q]
  BY <1>1, IdleType, JobStep
<1>3. \A q \in Procs : /\ job'[q].pc \in WithSecret => job'[q] = job[q] /\ q # p
                       /\ job'[q].pc \in Issuing => job'[q] = job[q]
                       /\ job'[q].pc \in Holding => job'[q] = job[q] /\ q # p
                       /\ job'[q].pc \in {"mailed", "matched", "revoked"} => job'[q] = job[q]
  BY <1>2, IdleType DEF WithSecret, Issuing, Holding
<1>4. UsedOnce'
  <2>1. \A q \in Procs : job[q].pc = "accepted" =>
          job'[q] = job[q] \/ job[q].secret \in excused' \cup {None}
    BY <1>1, <1>2
  <2> QED
    BY <1>1, <1>3, <2>1, UsedKept DEF RedisInv
<1>5. MailedLast'
  <2>1. CASE job[p].pc # "mailed"
    <3>1. \A q \in Procs : job[q].pc = "mailed" => job'[q] = job[q]
      BY <1>2, <2>1
    <3> QED
      BY <1>1, <1>3, <3>1, MailKept DEF RedisInv
  <2>2. CASE job[p].pc = "mailed"
    <3>1. job[p].secret \in Secrets /\ KindOf[job[p].secret] \in Otps
      BY <2>2 DEF TypeOK, RedisInv, IssuedApart, Issuing
    <3>2. ASSUME NEW r \in store, KindOf[r] \in Otps
          PROVE  \/ r = newest[KindOf[r]] \/ r \in overtaken'
                 \/ \E q \in Procs : job'[q].pc = "mailed" /\ job'[q].secret = newest[KindOf[r]]
      <4>1. \/ r = newest[KindOf[r]] \/ r \in overtaken
            \/ \E q \in Procs : job[q].pc = "mailed" /\ job[q].secret = newest[KindOf[r]]
        BY <3>2 DEF RedisInv, MailedLast, LatestMailWorks
      <4>2. job[p].secret = newest[KindOf[r]] => r \in overtaken'
        <5> SUFFICES ASSUME job[p].secret = newest[KindOf[r]]
                     PROVE  r \in overtaken'
          OBVIOUS
        <5>1. KindOf[job[p].secret] = KindOf[r]
          BY <3>1, <3>2, NoneAssumption DEF RedisInv, OnePerKey
        <5>2. r \in Key(job[p].secret)
          BY <3>1, <5>1, Keys DEF TypeOK
        <5> QED
          BY <1>1, <2>2, <5>2
      <4> QED
        BY <1>1, <1>2, <4>1, <4>2
    <3> QED
      BY <1>1, <1>3, <3>2 DEF RedisInv, MailedLast, LatestMailWorks
  <2> QED
    BY <2>1, <2>2
<1>6. \A q \in Procs : job'[q].pc \in Holding => (q \in disturbed => q \in disturbed')
  BY <1>1, <1>3
<1> QED
  BY <1>1, <1>3, <1>4, <1>5, <1>6, OneKept, IssuedKept, KnowKept DEF RedisInv

-----------------------------------------------------------------------------
(* The steps that issue, take and drop secrets, except Revoke.             *)
SecretStep(p) ==
  \/ Generate(p) \/ MailCode(p) \/ StoreCode(p) \/ StoreInvitation(p) \/ MailInvitation(p)
  \/ Match(p) \/ MatchNone(p) \/ VerifyEmail(p) \/ ResetPassword(p) \/ SetPassword(p)
  \/ Discard(p) \/ Fail(p)

LEMMA SecretRedis ==
  ASSUME TypeOK, RedisInv, NEW p \in Procs, SecretStep(p)
  PROVE  RedisInv'
<1>1. CASE VerifyEmail(p) \/ ResetPassword(p) \/ SetPassword(p)
  <2>1. Accept(p) /\ job[p].pc \in {"matched", "revoked"} /\ disturbed \subseteq disturbed'
    BY <1>1 DEF VerifyEmail, ResetPassword, SetPassword
  <2> QED
    BY <2>1, AcceptRedis
<1> QED
  BY <1>1, GenerateRedis, MailCodeRedis, StoreCodeRedis, StoreInvitationRedis, MailInvitationRedis,
     MatchRedis, MatchNoneRedis, DiscardRedis, FailRedis DEF SecretStep

(* What such a step makes of the request.                                  *)
LEMMA SecretJob ==
  ASSUME TypeOK, NEW p \in Procs, SecretStep(p)
  PROVE  \E j \in Job :
           /\ job' = [job EXCEPT ![p] = j]
           /\ j.pc \in {"idle", "generated", "mailed", "stored", "matched", "accepted"}
           /\ j.pc \in WithSecret => j.secret \in issued' \/ (j.secret = None /\ j.pc \in Holding)
           /\ disturbed \subseteq disturbed' \cup {p} /\ disturbed' \subseteq Procs
           /\ issued \subseteq issued' /\ issued' \subseteq Secrets
           /\ UNCHANGED <<device, workload>>
<1> USE DEF TypeOK
<1>1. job[p] \in Job /\ disturbed \subseteq Procs /\ \A places : Others(p, places) \subseteq Procs
  BY DEF Others
<1>2. CASE Generate(p) \/ Match(p)
  <2>1. PICK s \in Secrets, c \in {"generated", "matched"} :
          job' = [job EXCEPT ![p] = [Idle EXCEPT !.pc = c, !.secret = s]] /\ s \in issued'
    BY <1>2 DEF Generate, Match, Begin
  <2>2. /\ [Idle EXCEPT !.pc = c, !.secret = s] \in Job
        /\ [Idle EXCEPT !.pc = c, !.secret = s].pc = c
        /\ [Idle EXCEPT !.pc = c, !.secret = s].secret = s
    BY IdleType DEF Idle, Job, PC, Holding
  <2>3. /\ disturbed' = disturbed /\ issued \subseteq issued' /\ issued' \subseteq Secrets
        /\ UNCHANGED <<device, workload>>
    BY <1>2 DEF Generate, Match, Begin
  <2> QED
    BY <1>1, <2>1, <2>2, <2>3
<1>3. CASE StoreCode(p) \/ MailInvitation(p) \/ Discard(p) \/ Fail(p)
  <2>1. /\ job' = [job EXCEPT ![p] = Idle] /\ disturbed \subseteq disturbed' \cup {p}
        /\ disturbed' \subseteq Procs /\ UNCHANGED <<device, workload, issued>>
    BY <1>1, <1>3 DEF StoreCode, MailInvitation, Discard, Fail, Finish, Holders
  <2> QED
    BY <2>1, IdleType DEF WithSecret, Issuing, Holding
<1>4. CASE MailCode(p) \/ StoreInvitation(p) \/ VerifyEmail(p) \/ ResetPassword(p) \/ SetPassword(p)
  <2>1. PICK c \in {"mailed", "stored", "accepted"} :
          job' = [job EXCEPT ![p].pc = c] /\ (c = "accepted" \/ job[p].pc \in Issuing)
    BY <1>4 DEF MailCode, StoreInvitation, VerifyEmail, ResetPassword, SetPassword, Accept, Issuing
  <2>2. /\ disturbed \subseteq disturbed' /\ disturbed' \subseteq Procs
        /\ UNCHANGED <<device, workload, issued>> /\ job[p].pc \in WithSecret
    BY <1>1, <1>4
       DEF MailCode, StoreInvitation, VerifyEmail, ResetPassword, SetPassword, Accept, Outdated,
           WithSecret, Issuing, Holding
  <2> DEFINE j == [job[p] EXCEPT !.pc = c]
  <2>3. j \in Job /\ j.pc = c /\ j.secret = job[p].secret /\ job' = [job EXCEPT ![p] = j]
    BY <1>1, <2>1 DEF Job, PC, Holding
  <2>4. /\ issued \subseteq Secrets
        /\ j.pc \in WithSecret => j.secret \in issued' \/ (j.secret = None /\ j.pc \in Holding)
    BY <2>1, <2>2, <2>3 DEF WithSecret, Issuing, Holding
  <2> HIDE DEF j
  <2> QED
    BY <2>2, <2>3, <2>4
<1>5. CASE MatchNone(p)
  <2>1. /\ [Idle EXCEPT !.pc = "matched"] \in Job /\ [Idle EXCEPT !.pc = "matched"].pc = "matched"
        /\ [Idle EXCEPT !.pc = "matched"].secret = None /\ "matched" \in Holding
    BY IdleType DEF Idle, Job, PC, Holding
  <2>2. /\ job' = [job EXCEPT ![p] = [Idle EXCEPT !.pc = "matched"]]
        /\ disturbed' = disturbed /\ issued' = issued /\ UNCHANGED <<device, workload>>
    BY <1>5 DEF MatchNone, Begin, redis
  <2> QED
    BY <1>1, <2>1, <2>2
<1> QED
  BY <1>2, <1>3, <1>4, <1>5 DEF SecretStep

-----------------------------------------------------------------------------
(* Finite sets of rows and requests.                                       *)
LEMMA Finite ==
  /\ IsFiniteSet(Devices) /\ Cardinality(Devices) \in Nat
  /\ IsFiniteSet(Inserters) /\ Cardinality(Inserters) \in Nat
  /\ Cardinality(Inserters) <= Cardinality(Procs) /\ Cardinality(Procs) \in Nat
<1>1. IsFiniteSet(Devices) /\ IsFiniteSet(Inserters) /\ Cardinality(Inserters) <= Cardinality(Procs)
  BY ProcsAssumption, RowsAssumption, FS_Subset DEF Devices, Inserters
<1> QED
  BY <1>1, ProcsAssumption, FS_CardinalityType

(* The device, when no request about it moves or only ends.                *)
LEMMA DeviceQuiet ==
  ASSUME DeviceInv, device' = device,
         \A q \in Procs : job'[q].pc \in {"save", "logout"} =>
           job'[q] = job[q] /\ (q \in disturbed => q \in disturbed')
  PROVE  DeviceInv'
<1>1. RowsKnown'
  BY DEF DeviceInv, RowsKnown, Devices, Active
<1>2. Devices' = Devices /\ Inserters' \subseteq Inserters
  BY DEF Devices, Inserters
<1>3. Cardinality(Inserters') <= Cardinality(Inserters) /\ Cardinality(Inserters') \in Nat
  <2>1. IsFiniteSet(Inserters') /\ Cardinality(Inserters') <= Cardinality(Inserters)
    BY <1>2, Finite, FS_Subset
  <2> QED
    BY <2>1, FS_CardinalityType
<1> QED
  BY <1>1, <1>2, <1>3, Finite DEF DeviceInv

LEMMA LoadSaveDevice ==
  ASSUME TypeOK, DeviceInv, NEW p \in Procs, LoadSave(p)
  PROVE  /\ DeviceInv' /\ TypeOK'
         /\ \E j \in Job : job' = [job EXCEPT ![p] = j] /\ j.pc \in {"save", "logout"}
<1>1. PICK j \in Job :
        /\ job' = [job EXCEPT ![p] = j] /\ j.pc = "save"
        /\ \/ Devices = {} /\ j.row = None
           \/ j.row \in Devices /\ (j.active <=> j.row \in Active)
  <2>1. CASE Devices = {} /\ Begin(p, [Idle EXCEPT !.pc = "save"])
    <3>1. /\ [Idle EXCEPT !.pc = "save"] \in Job /\ [Idle EXCEPT !.pc = "save"].pc = "save"
          /\ [Idle EXCEPT !.pc = "save"].row = None
      BY IdleType DEF Idle, Job, PC, Loaded
    <3> QED
      BY <2>1, <3>1 DEF Begin
  <2>2. CASE \E r \in Devices :
               Begin(p, [Idle EXCEPT !.pc = "save", !.row = r, !.active = r \in Active])
    <3>1. PICK r \in Devices :
            job' = [job EXCEPT ![p] = [Idle EXCEPT !.pc = "save", !.row = r, !.active = r \in Active]]
      BY <2>2 DEF Begin
    <3>2. PICK b \in BOOLEAN : b = (r \in Active)
      <4>1. CASE r \in Active
        <5>1. (r \in Active) = TRUE
          BY <4>1
        <5> QED
          BY <5>1
      <4>2. CASE r \notin Active
        <5>1. (r \in Active) = FALSE
          BY <4>2
        <5> QED
          BY <5>1
      <4> QED
        BY <4>1, <4>2
    <3> DEFINE i == [Idle EXCEPT !.pc = "save", !.row = r, !.active = b]
    <3>3. i \in Job /\ i.pc = "save" /\ i.row = r /\ i.active = b
      BY IdleType DEF Idle, Job, PC, Loaded, Devices
    <3>4. job' = [job EXCEPT ![p] = i]
      BY <3>1, <3>2
    <3> HIDE DEF i
    <3> QED
      BY <3>2, <3>3, <3>4
  <2> QED
    BY <2>1, <2>2 DEF LoadSave
<1>2. job[p].pc = "idle" /\ UNCHANGED <<workload, user, redis, sessions, device, disturbed>>
  BY DEF LoadSave, Begin
<1>3. \A q \in Procs : job'[q] = IF q = p THEN j ELSE job[q]
  BY <1>1, JobStep
<1>4. Devices' = Devices /\ Active' = Active /\ None \notin Devices
  BY <1>2, NoneAssumption DEF Devices, Active
<1>5. RowsKnown'
  BY <1>1, <1>2, <1>3, <1>4 DEF DeviceInv, RowsKnown
<1>6. Cardinality(Devices') + Cardinality(Inserters') <= Cardinality(Procs)
  <2>1. CASE Devices = {}
    <3>1. Inserters' \subseteq Procs /\ Cardinality(Devices') = 0
      BY <1>4, <2>1, FS_EmptySet DEF Inserters
    <3>2. Cardinality(Inserters') <= Cardinality(Procs) /\ Cardinality(Inserters') \in Nat
      BY <3>1, ProcsAssumption, FS_Subset, FS_CardinalityType
    <3> QED
      BY <3>1, <3>2, Finite
  <2>2. CASE Devices # {}
    <3>1. Inserters' \subseteq Inserters
      BY <1>1, <1>2, <1>3, <1>4, <2>2 DEF Inserters
    <3>2. Cardinality(Inserters') <= Cardinality(Inserters) /\ Cardinality(Inserters') \in Nat
      BY <3>1, Finite, FS_Subset, FS_CardinalityType
    <3> QED
      BY <1>4, <3>2, Finite DEF DeviceInv
  <2> QED
    BY <2>1, <2>2
<1>7. TypeOK'
  <2>1. j.pc \notin WithSecret /\ disturbed' \subseteq Procs
    BY <1>1, <1>2 DEF WithSecret, Issuing, Holding, TypeOK
  <2> QED
    BY <1>1, <1>2, <2>1, QuietType
<1> QED
  BY <1>1, <1>5, <1>6, <1>7 DEF DeviceInv

LEMMA LoadLogoutDevice ==
  ASSUME TypeOK, DeviceInv, NEW p \in Procs, LoadLogout(p)
  PROVE  /\ DeviceInv' /\ TypeOK'
         /\ \E j \in Job : job' = [job EXCEPT ![p] = j] /\ j.pc \in {"save", "logout"}
<1>1. PICK j \in Job :
        /\ job' = [job EXCEPT ![p] = j] /\ j.pc = "logout"
        /\ j.row \in Devices /\ (j.active <=> j.row \in Active)
  <2>1. PICK t \in Tokens, r \in Devices :
          Begin(p, [Idle EXCEPT !.pc = "logout", !.row = r, !.active = r \in Active,
                                !.tokens = IF token[t] = "valid" THEN {t} ELSE {}])
    BY DEF LoadLogout
  <2>2. PICK b \in BOOLEAN, ts \in SUBSET Tokens :
          b = (r \in Active) /\ ts = IF token[t] = "valid" THEN {t} ELSE {}
    <3>1. PICK ts \in SUBSET Tokens : ts = IF token[t] = "valid" THEN {t} ELSE {}
      OBVIOUS
    <3>2. CASE r \in Active
      <4>1. (r \in Active) = TRUE
        BY <3>2
      <4> QED
        BY <3>1, <4>1
    <3>3. CASE r \notin Active
      <4>1. (r \in Active) = FALSE
        BY <3>3
      <4> QED
        BY <3>1, <4>1
    <3> QED
      BY <3>2, <3>3
  <2> DEFINE i == [Idle EXCEPT !.pc = "logout", !.row = r, !.active = b, !.tokens = ts]
  <2>3. i \in Job /\ i.pc = "logout" /\ i.row = r /\ i.active = b
    BY IdleType DEF Idle, Job, PC, Loaded, Devices
  <2>4. job' = [job EXCEPT ![p] = i]
    BY <2>1, <2>2 DEF Begin
  <2> HIDE DEF i
  <2> QED
    BY <2>2, <2>3, <2>4
<1>2. job[p].pc = "idle" /\ UNCHANGED <<workload, user, redis, sessions, device, disturbed>>
  BY DEF LoadLogout, Begin
<1>3. \A q \in Procs : job'[q] = IF q = p THEN j ELSE job[q]
  BY <1>1, JobStep
<1>4. Devices' = Devices /\ Active' = Active /\ None \notin Devices
  BY <1>2, NoneAssumption DEF Devices, Active
<1>5. RowsKnown'
  BY <1>1, <1>2, <1>3, <1>4 DEF DeviceInv, RowsKnown
<1>6. Inserters' = Inserters
  BY <1>1, <1>2, <1>3 DEF Inserters
<1>7. TypeOK'
  <2>1. j.pc \notin WithSecret /\ disturbed' \subseteq Procs
    BY <1>1, <1>2 DEF WithSecret, Issuing, Holding, TypeOK
  <2> QED
    BY <1>1, <1>2, <2>1, QuietType
<1> QED
  BY <1>1, <1>4, <1>5, <1>6, <1>7 DEF DeviceInv

(* A request about the device ends; those that overlap are disturbed.      *)
LEMMA DeviceFinish ==
  ASSUME TypeOK, DeviceInv, NEW p \in Procs, Finish(p, OnDevice(p)), Devices \subseteq Devices'
  PROVE  RowsKnown' /\ Inserters' = Inserters \ {p}
<1>1. \A q \in Procs : job'[q] = IF q = p THEN Idle ELSE job[q]
  BY IdleType, JobStep DEF Finish
<1>2. \A q \in Procs : job'[q].pc \in {"save", "logout"} =>
        q # p /\ job'[q] = job[q] /\ q \in disturbed'
  BY <1>1, IdleType DEF Finish, OnDevice, Others
<1>3. RowsKnown'
  BY <1>2 DEF DeviceInv, RowsKnown
<1>4. Inserters' = Inserters \ {p}
  BY <1>1, IdleType DEF Inserters
<1> QED
  BY <1>3, <1>4

LEMMA InsertDeviceDevice ==
  ASSUME TypeOK, DeviceInv, NEW p \in Procs, InsertDevice(p)
  PROVE  DeviceInv'
<1>1. PICK r \in Rows \ Devices : device' = [device EXCEPT ![r] = "active"]
  BY DEF InsertDevice
<1>2. Devices' = Devices \cup {r} /\ Finish(p, OnDevice(p)) /\ p \in Inserters
  BY <1>1 DEF InsertDevice, Devices, Inserters, TypeOK
<1>3. RowsKnown' /\ Inserters' = Inserters \ {p}
  BY <1>2, DeviceFinish
<1>4. /\ Cardinality(Devices') = Cardinality(Devices) + 1
      /\ Cardinality(Inserters') = Cardinality(Inserters) - 1
  BY <1>1, <1>2, <1>3, Finite, FS_AddElement, FS_RemoveElement
<1> QED
  BY <1>3, <1>4, Finite DEF DeviceInv

LEMMA UpdateDeviceDevice ==
  ASSUME TypeOK, DeviceInv, NEW p \in Procs, UpdateDevice(p) \/ Logout(p)
  PROVE  DeviceInv'
<1>1. job[p].row \in Devices
  BY DEF UpdateDevice, Logout, DeviceInv, RowsKnown
<1>2. Devices' = Devices /\ Finish(p, OnDevice(p))
  BY <1>1 DEF UpdateDevice, Logout, Devices, TypeOK
<1>3. RowsKnown' /\ Inserters' = Inserters \ {p}
  BY <1>2, DeviceFinish
<1>4. Cardinality(Inserters') <= Cardinality(Inserters) /\ Cardinality(Inserters') \in Nat
  BY <1>3, Finite, FS_Subset, FS_CardinalityType
<1> QED
  BY <1>2, <1>3, <1>4, Finite DEF DeviceInv

-----------------------------------------------------------------------------
(* The sessions, when neither tokens nor the row of the user change.       *)
LEMMA SessionQuiet ==
  ASSUME SessionInv, UNCHANGED <<user, sessions>>,
         \A q \in Procs : job'[q].pc = "login" => job'[q] = job[q] /\ (q \in disturbed => q \in disturbed'),
         \A q \in Procs : job'[q].pc = "revoked" => job'[q] = job[q] /\ (q \in disturbed => q \in disturbed'),
         \/ user.present
         \/ issued' = {} /\ \A q \in Procs : job'[q].pc \in {"idle", "register"}
  PROVE  SessionInv'
<1>1. UNCHANGED <<user, token, opened, spared>> /\ Valid' = Valid
  BY DEF sessions, Valid
<1>2. NothingYet'
  BY <1>1 DEF SessionInv, NothingYet
<1>3. LoginsKnow'
  BY <1>1 DEF SessionInv, LoginsKnow
<1>4. OldSessionHasACause'
  BY <1>1 DEF SessionInv, OldSessionHasACause
<1> QED
  BY <1>2, <1>3, <1>4 DEF SessionInv

(* Steps that need a user.                                                 *)
LEMMA UserPresent ==
  ASSUME TypeOK, SessionInv, NEW p \in Procs,
         \/ job[p].pc \notin {"idle", "register"} \/ Generate(p) \/ Match(p) \/ MatchNone(p)
         \/ user.email_verified \/ user.password # None \/ Authenticated
  PROVE  user.present
<1> SUFFICES ASSUME ~ user.present
             PROVE  FALSE
  OBVIOUS
<1>1. /\ user.email_verified = FALSE /\ user.password = None /\ issued = {} /\ ~ Authenticated
      /\ job[p].pc \in {"idle", "register"}
  BY DEF SessionInv, NothingYet, Absent, Authenticated
<1>2. ~ Generate(p) /\ ~ Match(p) /\ ~ MatchNone(p)
  BY <1>1 DEF Generate, Match, MatchNone, TypeOK
<1> QED
  BY <1>1, <1>2

(* A step that changes passwords or tokens: what is to be shown.           *)
LEMMA SessionMoves ==
  ASSUME SessionInv, user'.present, OldSessionHasACause',
         \A q \in Procs : job'[q].pc = "login" =>
           /\ job'[q] = job[q] /\ (q \in disturbed => q \in disturbed')
           /\ user'.password = user.password \/ q \in disturbed',
         \A q \in Procs : job'[q].pc = "revoked" =>
           /\ job'[q] = job[q] /\ (q \in disturbed => q \in disturbed')
           /\ Valid' \subseteq Valid \/ q \in disturbed'
  PROVE  SessionInv'
<1>1. LoginsKnow'
  BY DEF SessionInv, LoginsKnow
<1> QED
  BY <1>1 DEF SessionInv, NothingYet

LEMMA AddUserSession ==
  ASSUME TypeOK, SessionInv, AddUser
  PROVE  SessionInv'
<1>1. /\ user' = [user EXCEPT !.present = TRUE] \/ user' = [Absent EXCEPT !.present = TRUE]
      /\ user = Absent /\ user'.present /\ user'.password = user.password
      /\ UNCHANGED <<job, disturbed, token, opened, spared>>
  BY DEF AddUser, sessions, Absent, SessionInv, NothingYet
<1>2. OldSessionHasACause' /\ Valid' = Valid
  BY <1>1 DEF SessionInv, OldSessionHasACause, Valid
<1> QED
  BY <1>1, <1>2, SessionMoves

LEMMA RegisterSession ==
  ASSUME TypeOK, SessionInv, NEW p \in Procs, Register(p)
  PROVE  SessionInv'
<1>1. /\ ~ user.present /\ user'.present /\ job' = [job EXCEPT ![p] = Idle]
      /\ UNCHANGED <<token, opened, spared>>
  BY DEF Register, sessions, Absent, Finish
<1>2. \A q \in Procs : job'[q].pc \notin {"login", "revoked"}
  BY <1>1, IdleType, JobStep DEF SessionInv, NothingYet
<1>3. Valid' = {}
  BY <1>1 DEF SessionInv, NothingYet, Valid
<1> QED
  BY <1>1, <1>2, <1>3, SessionMoves DEF OldSessionHasACause

LEMMA VerifySession ==
  ASSUME TypeOK, SessionInv, NEW p \in Procs, VerifyEmail(p) \/ VerifyPhone(p)
  PROVE  SessionInv'
<1>1. PICK c \in {"accepted", "idle"}, j \in Job : job' = [job EXCEPT ![p] = j] /\ j.pc = c
  <2>1. CASE VerifyEmail(p)
    <3>1. job' = [job EXCEPT ![p] = [job[p] EXCEPT !.pc = "accepted"]]
      BY <2>1 DEF VerifyEmail, Accept
    <3>2. [job[p] EXCEPT !.pc = "accepted"] \in Job /\ [job[p] EXCEPT !.pc = "accepted"].pc = "accepted"
      BY DEF TypeOK, Job, PC, Holding
    <3> QED
      BY <3>1, <3>2
  <2>2. CASE VerifyPhone(p)
    BY <2>2, IdleType DEF VerifyPhone, Finish
  <2> QED
    BY <2>1, <2>2
<1>2. /\ job[p].pc \notin {"idle", "register"}
      /\ user' = [user EXCEPT !.email_verified = TRUE] \/ user' = [user EXCEPT !.phone_verified = TRUE]
      /\ UNCHANGED <<token, opened, spared>> /\ disturbed \subseteq disturbed' \cup {p}
  BY DEF VerifyEmail, VerifyPhone, sessions, Finish
<1>3. user'.present /\ user'.password = user.password
  BY <1>2, UserPresent DEF TypeOK, User
<1>4. \A q \in Procs : job'[q].pc \in {"login", "revoked"} => job'[q] = job[q] /\ q # p
  BY <1>1, JobStep
<1>5. OldSessionHasACause' /\ Valid' = Valid
  BY <1>2, <1>3 DEF SessionInv, OldSessionHasACause, Valid
<1> QED
  BY <1>2, <1>3, <1>4, <1>5, SessionMoves

LEMMA PasswordSession ==
  ASSUME TypeOK, SessionInv, NEW p \in Procs, ResetPassword(p) \/ ChangePassword(p)
  PROVE  SessionInv'
<1>1. PICK j \in Job : job' = [job EXCEPT ![p] = j] /\ j.pc \in {"accepted", "idle"}
  <2>1. CASE ResetPassword(p)
    <3>1. job' = [job EXCEPT ![p] = [job[p] EXCEPT !.pc = "accepted"]]
      BY <2>1 DEF ResetPassword, Accept
    <3>2. [job[p] EXCEPT !.pc = "accepted"] \in Job /\ [job[p] EXCEPT !.pc = "accepted"].pc = "accepted"
      BY DEF TypeOK, Job, PC, Holding
    <3> QED
      BY <3>1, <3>2
  <2>2. CASE ChangePassword(p)
    BY <2>2, IdleType DEF ChangePassword, Finish
  <2> QED
    BY <2>1, <2>2
<1>2. /\ job[p].pc \notin {"idle", "register"}
      /\ \E w \in Passwords : user' = [user EXCEPT !.password = w]
      /\ UNCHANGED <<token, opened>> /\ spared' = spared \cup Valid
      /\ disturbed' \cup {p} = disturbed \cup Outdated(p) \cup {p}
  BY DEF ResetPassword, ChangePassword, Finish
<1>3. user'.present
  BY <1>2, UserPresent DEF TypeOK, User
<1>4. \A q \in Procs : job'[q].pc \in {"login", "revoked"} => job'[q] = job[q] /\ q # p
  BY <1>1, JobStep
<1>5. \A q \in Procs : job'[q].pc = "login" => q \in disturbed'
  BY <1>2, <1>4 DEF Outdated, Others
<1>6. \A q \in Procs : job'[q].pc \in {"login", "revoked"} => (q \in disturbed => q \in disturbed')
  BY <1>2, <1>4
<1>7. OldSessionHasACause' /\ Valid' = Valid
  BY <1>2 DEF OldSessionHasACause, Valid
<1> QED
  BY <1>3, <1>4, <1>5, <1>6, <1>7, SessionMoves

LEMMA SetPasswordSession ==
  ASSUME TypeOK, SessionInv, NEW p \in Procs, SetPassword(p)
  PROVE  SessionInv'
<1>1. PICK t \in Tokens, w \in Passwords :
        /\ job[p].pc = "revoked" /\ token[t] = "absent"
        /\ user' = [user EXCEPT !.password = w, !.email_verified = TRUE]
        /\ token' = [i \in Tokens |-> IF i = t THEN "valid"
                                      ELSE IF i \in job[p].tokens THEN "deleted" ELSE token[i]]
        /\ opened' = [i \in Tokens |-> IF i = t THEN w
                                       ELSE IF i \in job[p].tokens THEN None ELSE opened[i]]
        /\ spared' = IF p \in disturbed THEN spared \cup (Valid \ job[p].tokens) ELSE spared
        /\ disturbed' = disturbed \cup Outdated(p) \cup Others(p, {"revoked"})
        /\ job' = [job EXCEPT ![p].pc = "accepted"]
  BY DEF SetPassword, Accept
<1>2. user'.present /\ user'.password = w
  BY <1>1, UserPresent DEF TypeOK, User
<1>3. \A q \in Procs : job'[q].pc \in {"login", "revoked"} => job'[q] = job[q] /\ q # p
  BY <1>1 DEF TypeOK, Job
<1>4. \A q \in Procs : job'[q].pc \in {"login", "revoked"} => q \in disturbed'
  BY <1>1, <1>3 DEF Outdated, Others
<1>5. OldSessionHasACause'
  <2> SUFFICES ASSUME NEW i \in Valid'
               PROVE  opened'[i] = user'.password \/ i \in spared'
    BY DEF OldSessionHasACause
  <2>1. i \in Tokens /\ token'[i] = "valid"
    BY DEF Valid
  <2>2. CASE i = t
    BY <1>1, <1>2, <2>2
  <2>3. CASE i # t
    <3>1. i \in Valid \ job[p].tokens
      BY <1>1, <2>1, <2>3 DEF Valid
    <3>2. p \in disturbed
      BY <1>1, <3>1 DEF SessionInv, LoginsKnow
    <3> QED
      BY <1>1, <3>1, <3>2
  <2> QED
    BY <2>2, <2>3
<1> QED
  BY <1>2, <1>3, <1>4, <1>5, SessionMoves

LEMMA RevokeStep ==
  ASSUME TypeOK, SessionInv, NEW p \in Procs, Revoke(p)
  PROVE  /\ SessionInv' /\ TypeOK'
         /\ \A q \in Procs : job'[q].pc \in {"save", "logout"} => job'[q] = job[q]
<1> DEFINE ts == {t \in Tokens : token[t] \in {"valid", "invoked"}}
           j == [job[p] EXCEPT !.pc = "revoked", !.tokens = ts]
<1>1. job[p] \in Job /\ ts \subseteq Tokens /\ Valid \subseteq ts
  BY DEF TypeOK, Valid
<1>2. /\ job[p].pc = "matched" /\ job' = [job EXCEPT ![p].pc = "revoked", ![p].tokens = ts]
      /\ UNCHANGED <<workload, user, redis, sessions, device, disturbed>>
  BY DEF Revoke
<1> HIDE DEF ts
<1>3. j \in Job /\ j.pc = "revoked" /\ j.tokens = ts /\ j.secret = job[p].secret
  BY <1>1 DEF Job, PC, Holding
<1>4. job' = [job EXCEPT ![p] = j]
  BY <1>1, <1>2 DEF TypeOK, Job
<1> HIDE DEF j
<1>5. \A q \in Procs : job'[q] = IF q = p THEN j ELSE job[q]
  BY <1>3, <1>4, JobStep
<1>6. UNCHANGED <<user, token, opened, spared>> /\ Valid' = Valid /\ user.present
  BY <1>2, UserPresent DEF sessions, Valid
<1>7. LoginsKnow'
  BY <1>1, <1>2, <1>3, <1>5, <1>6 DEF SessionInv, LoginsKnow
<1>8. SessionInv'
  BY <1>6, <1>7 DEF SessionInv, NothingYet, OldSessionHasACause
<1>9. TypeOK'
  <2>1. job[p].secret \in issued \cup {None} /\ disturbed' \subseteq Procs /\ "revoked" \in Holding
    BY <1>2 DEF TypeOK, Holding
  <2> QED
    BY <1>2, <1>3, <1>4, <2>1, QuietType
<1> QED
  BY <1>3, <1>5, <1>8, <1>9

LEMMA LoadLoginStep ==
  ASSUME TypeOK, SessionInv, NEW p \in Procs, LoadLogin(p) \/ LoadChange(p)
  PROVE  /\ SessionInv' /\ TypeOK' /\ disturbed' = disturbed
         /\ \E j \in Job : job' = [job EXCEPT ![p] = j] /\ j.pc \in {"login", "change"}
<1>1. PICK c \in {"login", "change"} :
        /\ job[p].pc = "idle" /\ job' = [job EXCEPT ![p] = [Idle EXCEPT !.pc = c, !.user = user]]
        /\ UNCHANGED <<workload, user, redis, sessions, device, disturbed>> /\ user.password # None
  BY DEF LoadLogin, LoadChange, Begin
<1> DEFINE j == [Idle EXCEPT !.pc = c, !.user = user]
<1>2. j \in Job /\ j.pc = c /\ j.user = user /\ job' = [job EXCEPT ![p] = j]
  BY <1>1, IdleType DEF Idle, Job, PC, Loaded, TypeOK
<1> HIDE DEF j
<1>3. \A q \in Procs : job'[q] = IF q = p THEN j ELSE job[q]
  BY <1>2, JobStep
<1>4. UNCHANGED <<user, token, opened, spared>> /\ Valid' = Valid /\ user.present
  BY <1>1, UserPresent DEF sessions, Valid
<1>5. LoginsKnow'
  BY <1>1, <1>2, <1>3, <1>4 DEF SessionInv, LoginsKnow
<1>6. SessionInv'
  BY <1>4, <1>5 DEF SessionInv, NothingYet, OldSessionHasACause
<1>7. TypeOK'
  <2>1. j.pc \notin WithSecret /\ disturbed' \subseteq Procs
    BY <1>1, <1>2 DEF WithSecret, Issuing, Holding, TypeOK
  <2> QED
    BY <1>1, <1>2, <2>1, QuietType
<1> QED
  BY <1>1, <1>2, <1>6, <1>7

LEMMA LoginSession ==
  ASSUME TypeOK, SessionInv, NEW p \in Procs, Login(p)
  PROVE  SessionInv'
<1>1. PICK t \in Tokens :
        /\ job[p].pc = "login" /\ token[t] = "absent"
        /\ token' = [token EXCEPT ![t] = "valid"]
        /\ opened' = [opened EXCEPT ![t] = job[p].user.password]
        /\ spared' = IF p \in disturbed THEN spared \cup {t} ELSE spared
        /\ job' = [job EXCEPT ![p] = Idle]
        /\ disturbed' = (disturbed \cup Others(p, {"revoked"})) \ {p}
        /\ user' = user
  BY DEF Login, Finish
<1>2. user.present
  BY <1>1, UserPresent
<1>3. \A q \in Procs : job'[q].pc \in {"login", "revoked"} => job'[q] = job[q] /\ q # p
  BY <1>1, IdleType, JobStep
<1>4. \A q \in Procs : job'[q].pc \in {"login", "revoked"} => (q \in disturbed => q \in disturbed')
  BY <1>1, <1>3
<1>5. \A q \in Procs : job'[q].pc = "revoked" => q \in disturbed'
  BY <1>1, <1>3 DEF Others
<1>6. OldSessionHasACause'
  <2> SUFFICES ASSUME NEW i \in Valid'
               PROVE  opened'[i] = user.password \/ i \in spared'
    BY <1>1 DEF OldSessionHasACause
  <2>1. CASE i = t
    BY <1>1, <2>1 DEF SessionInv, LoginsKnow, TypeOK
  <2>2. CASE i # t
    BY <1>1, <2>2 DEF SessionInv, OldSessionHasACause, Valid, TypeOK
  <2> QED
    BY <2>1, <2>2
<1> QED
  BY <1>1, <1>2, <1>3, <1>4, <1>5, <1>6, SessionMoves

LEMMA LogoutSession ==
  ASSUME TypeOK, SessionInv, NEW p \in Procs, Logout(p)
  PROVE  SessionInv'
<1>1. /\ job[p].pc = "logout" /\ job' = [job EXCEPT ![p] = Idle]
      /\ token' = [t \in Tokens |-> IF t \in job[p].tokens THEN "invoked" ELSE token[t]]
      /\ disturbed' = (disturbed \cup OnDevice(p)) \ {p} /\ UNCHANGED <<user, opened, spared>>
  BY DEF Logout, Finish
<1>2. user.present
  BY <1>1, UserPresent
<1>3. \A q \in Procs : job'[q].pc \in {"login", "revoked"} => job'[q] = job[q] /\ q # p
  BY <1>1, IdleType, JobStep
<1>4. \A q \in Procs : job'[q].pc \in {"login", "revoked"} => (q \in disturbed => q \in disturbed')
  BY <1>1, <1>3
<1>5. Valid' \subseteq Valid
  BY <1>1 DEF Valid
<1>6. OldSessionHasACause'
  BY <1>1, <1>5 DEF SessionInv, OldSessionHasACause
<1> QED
  BY <1>1, <1>2, <1>3, <1>4, <1>5, <1>6, SessionMoves

-----------------------------------------------------------------------------
(* Requests that begin with nothing but their place.                       *)
LEMMA LoadStep ==
  ASSUME TypeOK, SessionInv, DeviceInv, NEW p \in Procs, LoadRegister(p) \/ LoadPhone(p)
  PROVE  /\ SessionInv' /\ TypeOK' /\ DeviceInv' /\ disturbed' = disturbed
         /\ \E j \in Job : job' = [job EXCEPT ![p] = j] /\ j.pc \in {"register", "phone"}
<1>1. PICK c \in {"register", "phone"} :
        /\ job[p].pc = "idle" /\ job' = [job EXCEPT ![p] = [Idle EXCEPT !.pc = c]]
        /\ UNCHANGED <<workload, user, redis, sessions, device, disturbed>>
        /\ user.present \/ c = "register"
  BY DEF LoadRegister, LoadPhone, Begin
<1> DEFINE j == [Idle EXCEPT !.pc = c]
<1>2. j \in Job /\ j.pc = c /\ job' = [job EXCEPT ![p] = j]
  BY <1>1, IdleType DEF Idle, Job, PC, Loaded
<1> HIDE DEF j
<1>3. \A q \in Procs : job'[q] = IF q = p THEN j ELSE job[q]
  BY <1>2, JobStep
<1>4. SessionInv'
  <2>1. /\ \A q \in Procs : job'[q].pc = "login" => job'[q] = job[q]
        /\ \A q \in Procs : job'[q].pc = "revoked" => job'[q] = job[q]
    BY <1>2, <1>3
  <2>2. user.present \/ (issued' = {} /\ \A q \in Procs : job'[q].pc \in {"idle", "register"})
    BY <1>1, <1>2, <1>3 DEF SessionInv, NothingYet, redis
  <2> QED
    BY <1>1, <2>1, <2>2, SessionQuiet
<1>5. DeviceInv'
  <2>1. \A q \in Procs : job'[q].pc \in {"save", "logout"} => job'[q] = job[q]
    BY <1>2, <1>3
  <2> QED
    BY <1>1, <2>1, DeviceQuiet
<1>6. TypeOK'
  <2>1. j.pc \notin WithSecret /\ disturbed' \subseteq Procs
    BY <1>1, <1>2 DEF WithSecret, Issuing, Holding, TypeOK
  <2> QED
    BY <1>1, <1>2, <2>1, QuietType
<1> QED
  BY <1>1, <1>2, <1>4, <1>5, <1>6

-----------------------------------------------------------------------------
(* The types of what is not a request.                                     *)
RedisType ==
  /\ store \subseteq issued /\ mailed \subseteq issued /\ issued \subseteq Secrets
  /\ spent \subseteq Secrets /\ excused \subseteq Secrets /\ overtaken \subseteq Secrets
  /\ newest \in [Otps -> Secrets \cup {None}]

TokenType ==
  /\ token \in [Tokens -> {"absent", "valid", "invoked", "deleted"}]
  /\ opened \in [Tokens -> Passwords \cup {None}] /\ spared \subseteq Tokens
  /\ \A t \in Tokens : token[t] = "valid" => opened[t] # None

DataType == user \in User /\ RedisType /\ TokenType /\ device \in [Rows -> {"absent", "active", "inactive"}]

LEMMA Data == TypeOK => DataType
BY DEF TypeOK, DataType, RedisType, TokenType, Valid

LEMMA DataMove ==
  ASSUME TypeOK, NEW p \in Procs, NEW j \in Job, job' = [job EXCEPT ![p] = j], DataType',
         workload' = workload, issued \subseteq issued', disturbed' \subseteq Procs,
         j.pc \in WithSecret => j.secret \in issued' \/ (j.secret = None /\ j.pc \in Holding)
  PROVE  TypeOK'
BY MoveType DEF DataType, RedisType, TokenType

LEMMA SecretType ==
  ASSUME TypeOK, SessionInv, RedisInv, NEW p \in Procs, SecretStep(p)
  PROVE  TypeOK'
<1>1. PICK j \in Job :
        /\ job' = [job EXCEPT ![p] = j]
        /\ j.pc \in WithSecret => j.secret \in issued' \/ (j.secret = None /\ j.pc \in Holding)
        /\ disturbed' \subseteq Procs
        /\ issued \subseteq issued' /\ issued' \subseteq Secrets
        /\ UNCHANGED <<device, workload>>
  BY SecretJob
<1>2. DataType
  BY Data
<1>3. /\ job[p].pc \in Issuing => job[p].secret \in issued
      /\ job[p].pc \in Holding => job[p].secret \in issued \cup {None}
  BY DEF TypeOK, Issuing
<1>4. user' \in User
  BY <1>2 DEF SecretStep, Generate, MailCode, StoreCode, StoreInvitation, MailInvitation, Match,
              MatchNone, VerifyEmail, ResetPassword, SetPassword, Discard, Fail, DataType, User
<1>5. RedisType'
  <2>1. CASE Generate(p) \/ Match(p)
    BY <1>1, <1>2, <2>1 DEF Generate, Match, DataType, RedisType
  <2>2. CASE MailCode(p)
    <3>1. /\ job[p].secret \in issued /\ issued \subseteq Secrets
          /\ Kind(job[p].secret) = KindOf[job[p].secret]
      BY <1>2, <1>3, <2>2, Keys DEF MailCode, Issuing, DataType, RedisType
    <3>2. overtaken' \subseteq Secrets
      <4>1. \A q \in Others(p, {"mailed"}) : job[q].secret \in Secrets
        BY DEF Others, TypeOK
      <4> QED
        BY <1>2, <2>2, <4>1 DEF MailCode, DataType, RedisType
    <3> QED
      BY <1>2, <2>2, <3>1, <3>2 DEF MailCode, IsOtp, DataType, RedisType
  <2>3. CASE StoreCode(p) \/ StoreInvitation(p)
    BY <1>2, <1>3, <2>3 DEF StoreCode, StoreInvitation, Put, Issuing, DataType, RedisType
  <2>4. CASE MailInvitation(p) \/ Discard(p)
    BY <1>2, <1>3, <2>4
       DEF MailInvitation, Discard, Issuing, Holding, DataType, RedisType
  <2>5. CASE VerifyEmail(p) \/ ResetPassword(p) \/ SetPassword(p)
    <3>1. Accept(p) /\ job[p].secret \in issued \cup {None}
      BY <1>3, <2>5 DEF VerifyEmail, ResetPassword, SetPassword, Holding
    <3> QED
      BY <1>2, <3>1 DEF Accept, DataType, RedisType
  <2>6. CASE Fail(p)
    <3>1. job[p].pc = "accepted" => job[p].secret \in Secrets \cup {None}
      BY DEF TypeOK, Holding
    <3> QED
      BY <1>2, <2>6, <3>1 DEF Fail, DataType, RedisType
  <2>7. CASE MatchNone(p)
    BY <1>2, <2>7 DEF MatchNone, redis, DataType, RedisType
  <2> QED
    BY <2>1, <2>2, <2>3, <2>4, <2>5, <2>6, <2>7 DEF SecretStep
<1>6. TokenType'
  <2>1. CASE UNCHANGED <<token, opened>> /\ spared' \subseteq spared \cup Valid
    BY <1>2, <2>1 DEF DataType, TokenType, Valid
  <2>2. CASE SetPassword(p)
    <3>1. PICK t \in Tokens, w \in Passwords :
            /\ token' = [i \in Tokens |-> IF i = t THEN "valid"
                                          ELSE IF i \in job[p].tokens THEN "deleted" ELSE token[i]]
            /\ opened' = [i \in Tokens |-> IF i = t THEN w
                                           ELSE IF i \in job[p].tokens THEN None ELSE opened[i]]
            /\ spared' \subseteq spared \cup Valid
      BY <2>2 DEF SetPassword
    <3> QED
      BY <1>2, <3>1, NoneAssumption DEF DataType, TokenType, Valid
  <2>3. SetPassword(p) \/ (UNCHANGED <<token, opened>> /\ spared' \subseteq spared \cup Valid)
    BY DEF SecretStep, Generate, MailCode, StoreCode, StoreInvitation, MailInvitation, Match,
           MatchNone, VerifyEmail, ResetPassword, Discard, Fail, sessions
  <2> QED
    BY <2>1, <2>2, <2>3
<1>7. DataType'
  BY <1>1, <1>2, <1>4, <1>5, <1>6 DEF DataType
<1> QED
  BY <1>1, <1>7, DataMove

(* Sessions and device, while a secret is issued, taken or dropped.        *)
LEMMA SecretOthers ==
  ASSUME TypeOK, SessionInv, DeviceInv, NEW p \in Procs, SecretStep(p)
  PROVE  SessionInv' /\ DeviceInv'
<1>1. PICK j \in Job :
        /\ job' = [job EXCEPT ![p] = j]
        /\ j.pc \in {"idle", "generated", "mailed", "stored", "matched", "accepted"}
        /\ disturbed \subseteq disturbed' \cup {p}
        /\ UNCHANGED device
  BY SecretJob
<1>2. \A q \in Procs : job'[q] = IF q = p THEN j ELSE job[q]
  BY <1>1, JobStep
<1>3. \A q \in Procs : job'[q].pc \in {"save", "logout", "login", "revoked"} =>
        job'[q] = job[q] /\ (q \in disturbed => q \in disturbed')
  BY <1>1, <1>2
<1>4. DeviceInv'
  BY <1>1, <1>3, DeviceQuiet
<1>5. SessionInv'
  <2>1. CASE VerifyEmail(p) \/ ResetPassword(p) \/ SetPassword(p)
    BY <2>1, VerifySession, PasswordSession, SetPasswordSession
  <2>2. CASE ~ (VerifyEmail(p) \/ ResetPassword(p) \/ SetPassword(p))
    <3>1. UNCHANGED <<user, sessions>>
      BY <2>2 DEF SecretStep, Generate, MailCode, StoreCode, StoreInvitation, MailInvitation, Match,
                  MatchNone, Discard, Fail
    <3>2. user.present \/ (issued' = {} /\ \A q \in Procs : job'[q].pc \in {"idle", "register"})
      <4>1. CASE Fail(p) /\ ~ user.present
        <5>1. issued' = issued /\ job' = [job EXCEPT ![p] = Idle]
          BY <4>1 DEF Fail, Finish
        <5>2. \A q \in Procs : job'[q] = IF q = p THEN Idle ELSE job[q]
          BY <5>1, IdleType, JobStep
        <5> QED
          BY <4>1, <5>1, <5>2, IdleType DEF SessionInv, NothingYet
      <4>2. CASE ~ Fail(p)
        <5>1. job[p].pc \notin {"idle", "register"} \/ Generate(p) \/ Match(p) \/ MatchNone(p)
          BY <2>2, <4>2 DEF SecretStep, MailCode, StoreCode, StoreInvitation, MailInvitation, Discard
        <5> QED
          BY <5>1, UserPresent
      <4> QED
        BY <4>1, <4>2
    <3> QED
      BY <1>3, <3>1, <3>2, SessionQuiet
  <2> QED
    BY <2>1, <2>2
<1> QED
  BY <1>4, <1>5

-----------------------------------------------------------------------------
(* The steps that commit what a request without a secret has to write.     *)
CommitStep(p) ==
  \/ Register(p) \/ Login(p) \/ ChangePassword(p) \/ VerifyPhone(p)
  \/ InsertDevice(p) \/ UpdateDevice(p) \/ Logout(p)

LEMMA CommitJob ==
  ASSUME TypeOK, NEW p \in Procs, CommitStep(p)
  PROVE  /\ job' = [job EXCEPT ![p] = Idle] /\ job[p].pc \notin WithSecret
         /\ disturbed \subseteq disturbed' \cup {p} /\ disturbed' \subseteq Procs
         /\ UNCHANGED <<workload, redis>>
BY DEF CommitStep, Register, Login, ChangePassword, VerifyPhone, InsertDevice, UpdateDevice, Logout,
       Finish, Outdated, OnDevice, Others, WithSecret, Issuing, Holding, TypeOK

LEMMA CommitType ==
  ASSUME TypeOK, SessionInv, DeviceInv, NEW p \in Procs, CommitStep(p)
  PROVE  TypeOK'
<1>1. /\ job' = [job EXCEPT ![p] = Idle] /\ disturbed' \subseteq Procs
      /\ UNCHANGED <<workload, redis>>
  BY CommitJob
<1>2. DataType /\ job[p] \in Job
  BY Data DEF TypeOK
<1>3. RedisType'
  BY <1>1, <1>2 DEF redis, DataType, RedisType
<1>4. user' \in User
  BY <1>2 DEF CommitStep, Register, Login, ChangePassword, VerifyPhone, InsertDevice, UpdateDevice,
              Logout, DataType, User, Absent
<1>5. TokenType'
  <2>1. CASE Login(p)
    <3>1. job[p].user.password \in Passwords
      BY <1>2, <2>1 DEF Login, SessionInv, LoginsKnow, Job, User
    <3> QED
      BY <1>2, <2>1, <3>1, NoneAssumption DEF Login, DataType, TokenType
  <2>2. CASE Logout(p)
    BY <1>2, <2>2 DEF Logout, DataType, TokenType
  <2>3. CASE UNCHANGED <<token, opened>> /\ spared' \subseteq spared \cup Valid
    BY <1>2, <2>3 DEF DataType, TokenType, Valid
  <2> QED
    BY <2>1, <2>2, <2>3
       DEF CommitStep, Register, ChangePassword, VerifyPhone, InsertDevice, UpdateDevice, sessions
<1>6. device' \in [Rows -> {"absent", "active", "inactive"}]
  <2>1. /\ device' = device \/ \E r \in Rows, a \in {"active", "inactive"} :
                                 device' = [device EXCEPT ![r] = a]
    <3>1. CASE InsertDevice(p)
      BY <3>1 DEF InsertDevice
    <3>2. CASE UpdateDevice(p) \/ Logout(p)
      <4>1. job[p].row \in Rows
        BY <3>2 DEF UpdateDevice, Logout, DeviceInv, RowsKnown, Devices
      <4> QED
        BY <3>2, <4>1 DEF UpdateDevice, Logout
    <3> QED
      BY <3>1, <3>2 DEF CommitStep, Register, Login, ChangePassword, VerifyPhone
  <2> QED
    BY <1>2, <2>1 DEF DataType
<1>7. DataType' /\ issued \subseteq issued'
  BY <1>1, <1>3, <1>4, <1>5, <1>6 DEF DataType, redis
<1> QED
  BY <1>1, <1>7, IdleType, DataMove DEF WithSecret, Issuing, Holding

LEMMA CommitOthers ==
  ASSUME TypeOK, RedisInv, SessionInv, DeviceInv, NEW p \in Procs, CommitStep(p)
  PROVE  RedisInv' /\ SessionInv' /\ DeviceInv'
<1>1. /\ job' = [job EXCEPT ![p] = Idle] /\ job[p].pc \notin WithSecret
      /\ disturbed \subseteq disturbed' \cup {p} /\ UNCHANGED <<workload, redis>>
  BY CommitJob
<1>2. \A q \in Procs : job'[q] = IF q = p THEN Idle ELSE job[q]
  BY <1>1, IdleType, JobStep
<1>3. \A q \in Procs : job'[q].pc \in {"save", "logout", "login", "revoked"} =>
        job'[q] = job[q] /\ (q \in disturbed => q \in disturbed')
  BY <1>1, <1>2, IdleType
<1>4. RedisInv'
  BY <1>1, IdleType, RedisQuiet DEF WithSecret, Issuing, Holding
<1>5. DeviceInv'
  <2>1. CASE InsertDevice(p) \/ UpdateDevice(p) \/ Logout(p)
    BY <2>1, InsertDeviceDevice, UpdateDeviceDevice
  <2>2. CASE Register(p) \/ Login(p) \/ ChangePassword(p) \/ VerifyPhone(p)
    <3>1. UNCHANGED device
      BY <2>2 DEF Register, Login, ChangePassword, VerifyPhone
    <3> QED
      BY <1>3, <3>1, DeviceQuiet
  <2> QED
    BY <2>1, <2>2 DEF CommitStep
<1>6. SessionInv'
  <2>1. CASE InsertDevice(p) \/ UpdateDevice(p)
    <3>1. UNCHANGED <<user, sessions>> /\ job[p].pc = "save"
      BY <2>1 DEF InsertDevice, UpdateDevice
    <3>2. user.present
      BY <3>1, UserPresent
    <3> QED
      BY <1>3, <3>1, <3>2, SessionQuiet
  <2> QED
    BY <2>1, RegisterSession, LoginSession, PasswordSession, VerifySession, LogoutSession
       DEF CommitStep
<1> QED
  BY <1>4, <1>5, <1>6

-----------------------------------------------------------------------------
LEMMA InitInv == Init => Inv
<1> SUFFICES ASSUME Init
             PROVE  Inv
  OBVIOUS
<1>1. \A p \in Procs : job[p] = Idle /\ job[p].pc = "idle"
  BY IdleType DEF Init
<1>2. Devices = {} /\ Inserters = {} /\ Valid = {}
  BY <1>1 DEF Init, Devices, Inserters, Valid
<1>3. TypeOK
  BY <1>2, IdleType, WorkloadsAssumption DEF Init, TypeOK, Holding
<1>4. RedisInv
  BY <1>1 DEF Init, RedisInv, OnePerKey, IssuedApart, UsedOnce, Holds, HoldersKnow, MailedLast,
              LatestMailWorks, WithSecret, Issuing, Holding
<1>5. SessionInv
  BY <1>1, <1>2 DEF Init, SessionInv, NothingYet, LoginsKnow, OldSessionHasACause
<1>6. DeviceInv
  <2>1. Cardinality(Devices) = 0 /\ Cardinality(Inserters) = 0
    BY <1>2, FS_EmptySet
  <2> QED
    BY <1>1, <2>1, Finite DEF DeviceInv, RowsKnown
<1> QED
  BY <1>3, <1>4, <1>5, <1>6 DEF Inv

LEMMA InvStep == Inv /\ [Next]_vars => Inv'
<1> SUFFICES ASSUME TypeOK, RedisInv, SessionInv, DeviceInv, [Next]_vars
             PROVE  TypeOK' /\ RedisInv' /\ SessionInv' /\ DeviceInv'
  BY DEF Inv
<1>1. CASE AddUser
  <2>1. UNCHANGED <<workload, redis, sessions, device, job, disturbed>>
    BY <1>1 DEF AddUser
  <2>2. TypeOK'
    <3>1. user' \in User
      BY <1>1 DEF AddUser, User, Absent
    <3> QED
      BY <2>1, <3>1 DEF TypeOK, redis, sessions, Valid
  <2>3. RedisInv'
    BY <2>1 DEF redis, RedisInv, OnePerKey, Key, IssuedApart, UsedOnce, Holds, HoldersKnow,
                MailedLast, LatestMailWorks, Kind
  <2>4. DeviceInv'
    BY <2>1, DeviceQuiet
  <2> QED
    BY <1>1, <2>2, <2>3, <2>4, AddUserSession
<1>2. ASSUME NEW s \in Secrets, Expire(s)
      PROVE  TypeOK' /\ RedisInv' /\ SessionInv' /\ DeviceInv'
  <2>1. /\ UNCHANGED <<workload, user, issued, mailed, newest, overtaken, spent, excused, sessions,
                       device, job, disturbed>>
        /\ store' \subseteq store
    BY <1>2 DEF Expire
  <2>2. TypeOK'
    BY <2>1 DEF TypeOK, sessions, Valid
  <2>3. SessionInv'
    <3>1. user.present \/ (issued' = {} /\ \A q \in Procs : job'[q].pc \in {"idle", "register"})
      BY <2>1 DEF SessionInv, NothingYet
    <3> QED
      BY <2>1, <3>1, SessionQuiet
  <2>4. DeviceInv'
    BY <2>1, DeviceQuiet
  <2> QED
    BY <1>2, <2>2, <2>3, <2>4, ExpireRedis
<1>3. ASSUME NEW p \in Procs, SecretStep(p)
      PROVE  TypeOK' /\ RedisInv' /\ SessionInv' /\ DeviceInv'
  BY <1>3, SecretType, SecretRedis, SecretOthers
<1>4. ASSUME NEW p \in Procs, CommitStep(p)
      PROVE  TypeOK' /\ RedisInv' /\ SessionInv' /\ DeviceInv'
  BY <1>4, CommitType, CommitOthers
<1>5. ASSUME NEW p \in Procs, Revoke(p)
      PROVE  TypeOK' /\ RedisInv' /\ SessionInv' /\ DeviceInv'
  <2>1. UNCHANGED <<device, disturbed>>
    BY <1>5 DEF Revoke
  <2>2. DeviceInv'
    BY <1>5, <2>1, RevokeStep, DeviceQuiet
  <2> QED
    BY <1>5, <2>2, RevokeRedis, RevokeStep
<1>6. ASSUME NEW p \in Procs,
             LoadRegister(p) \/ LoadPhone(p) \/ LoadLogin(p) \/ LoadChange(p)
      PROVE  TypeOK' /\ RedisInv' /\ SessionInv' /\ DeviceInv'
  <2>1. /\ job[p].pc = "idle" /\ UNCHANGED <<redis, device, disturbed>>
    BY <1>6 DEF LoadRegister, LoadPhone, LoadLogin, LoadChange, Begin
  <2>2. PICK j \in Job :
          job' = [job EXCEPT ![p] = j] /\ j.pc \in {"register", "phone", "login", "change"}
    BY <1>6, LoadStep, LoadLoginStep
  <2>3. RedisInv'
    BY <2>1, <2>2, RedisQuiet DEF WithSecret, Issuing, Holding
  <2>4. DeviceInv'
    <3>1. \A q \in Procs : job'[q].pc \in {"save", "logout"} => job'[q] = job[q]
      BY <2>2, JobStep
    <3> QED
      BY <2>1, <3>1, DeviceQuiet
  <2> QED
    BY <1>6, <2>3, <2>4, LoadStep, LoadLoginStep
<1>7. ASSUME NEW p \in Procs, LoadSave(p) \/ LoadLogout(p)
      PROVE  TypeOK' /\ RedisInv' /\ SessionInv' /\ DeviceInv'
  <2>1. DeviceInv' /\ TypeOK'
    BY <1>7, LoadSaveDevice, LoadLogoutDevice
  <2>2. /\ job[p].pc = "idle" /\ UNCHANGED <<user, redis, sessions, disturbed>> /\ Authenticated
    BY <1>7 DEF LoadSave, LoadLogout, Begin, Authenticated
  <2>3. PICK j \in Job : job' = [job EXCEPT ![p] = j] /\ j.pc \in {"save", "logout"}
    BY <1>7, LoadSaveDevice, LoadLogoutDevice
  <2>4. RedisInv'
    BY <2>2, <2>3, RedisQuiet DEF WithSecret, Issuing, Holding
  <2>5. SessionInv'
    <3>1. \A q \in Procs : job'[q].pc \in {"login", "revoked"} => job'[q] = job[q]
      BY <2>3, JobStep
    <3> QED
      BY <2>2, <3>1, UserPresent, SessionQuiet
  <2> QED
    BY <2>1, <2>4, <2>5
<1>8. CASE UNCHANGED vars
  <2>1. UNCHANGED <<workload, user, redis, sessions, device, job, disturbed>>
    BY <1>8 DEF vars
  <2>2. TypeOK'
    BY <2>1 DEF TypeOK, redis, sessions, Valid
  <2>3. RedisInv'
    BY <2>1 DEF redis, RedisInv, OnePerKey, Key, IssuedApart, UsedOnce, Holds, HoldersKnow,
                MailedLast, LatestMailWorks, Kind
  <2>4. SessionInv'
    BY <2>1 DEF redis, sessions, SessionInv, NothingYet, LoginsKnow, OldSessionHasACause, Valid
  <2>5. DeviceInv'
    BY <2>1, DeviceQuiet
  <2> QED
    BY <2>2, <2>3, <2>4, <2>5
<1> QED
  BY <1>1, <1>2, <1>3, <1>4, <1>5, <1>6, <1>7, <1>8 DEF Next, SecretStep, CommitStep

(* The invariant that the theorems rest on.                                *)
THEOREM InvHolds == Spec => []Inv
<1> QED
  BY InitInv, InvStep, PTL DEF Spec

(* Every variable keeps its type; what a request issues or takes has been  *)
(* issued, and a valid token was given for a password (auth_service).      *)
THEOREM TypeCorrect == Spec => []TypeOK
<1>1. Inv => TypeOK
  BY DEF Inv
<1> QED
  BY <1>1, InvHolds, PTL

(* Only requests that overlap, or one that failed, keep an older code      *)
(* alive (verify_email_service, forgot_password_service).                  *)
THEOREM LatestCode == Spec => []LatestMailWorks
<1>1. Inv => LatestMailWorks
  BY DEF Inv, RedisInv, MailedLast
<1> QED
  BY <1>1, InvHolds, PTL

(* An accepted invitation ends every earlier session, and so does no other *)
(* change of the password (set_password_service).                          *)
THEOREM OldSession == Spec => []OldSessionHasACause
<1>1. Inv => OldSessionHasACause
  BY DEF Inv, SessionInv
<1> QED
  BY <1>1, InvHolds, PTL

(* A device has at most as many rows as requests can be open at a time     *)
(* (save_fcm_token_service).                                               *)
THEOREM DeviceRows == Spec => []RowsPerDevice
<1>1. Inv => RowsPerDevice
  BY Finite DEF Inv, DeviceInv, RowsPerDevice
<1> QED
  BY <1>1, InvHolds, PTL

-----------------------------------------------------------------------------
(* A code or an invitation that was stored is not good for two requests,   *)
(* one after the other (verify_otp_service, reset_password_service,                      *)
(* set_password_service).                                                  *)
THEOREM Reuse == Spec => ReuseHasACause
<1>1. ASSUME Inv, NEW p \in Procs, job[p].pc \in {"matched", "revoked"}, job[p].secret \in spent
      PROVE  job[p].secret \in excused
  <2>1. job[p].secret \in Secrets
    BY <1>1 DEF Inv, TypeOK
  <2> QED
    BY <1>1, <2>1 DEF Inv, RedisInv, UsedOnce
<1>2. Inv /\ [Next]_vars =>
        [\A p \in Procs :
           /\ job[p].pc \in {"matched", "revoked"} /\ job'[p].pc = "accepted"
           /\ job[p].secret \in spent
           => job[p].secret \in excused]_vars
  BY <1>1
<1> QED
  BY <1>2, InvHolds, PTL DEF Spec, ReuseHasACause

(* Whose step takes a secret from Redis: of its kind, or of its holder     *)
(* (auth_service).                                                         *)
THEOREM LostCode == Spec => LostCodeHasACause
<1> DEFINE Explained(s) ==
             \/ UNCHANGED job
             \/ \E p \in Procs : /\ job[p].pc = "mailed"
                                 /\ KindOf[job[p].secret] = KindOf[s] /\ job[p].secret \in store'
             \/ \E p \in Procs : /\ job[p].pc = "accepted" /\ job'[p].pc = "idle"
                                 /\ job[p].secret = s \/ p \in disturbed
<1>1. ASSUME Inv, [Next]_vars, NEW s \in store \ store'
      PROVE  Explained(s)
  <2>1. s \in Secrets /\ store' # store
    BY <1>1 DEF Inv, TypeOK
  <2>2. ASSUME NEW r \in Secrets, Expire(r)
        PROVE  Explained(s)
    BY <2>2 DEF Expire
  <2>3. ASSUME NEW p \in Procs, StoreCode(p)
        PROVE  Explained(s)
    <3>1. job[p].secret \in Secrets /\ s \in Key(job[p].secret) /\ job[p].secret \in store'
      BY <1>1, <2>3 DEF StoreCode, Put, Inv, TypeOK
    <3> QED
      BY <2>1, <2>3, <3>1, Keys DEF StoreCode
  <2>4. ASSUME NEW p \in Procs, StoreInvitation(p)
        PROVE  FALSE
    <3>1. job[p].secret \in Secrets /\ KindOf[job[p].secret] \notin Otps
      BY <1>1, <2>4, Keys DEF StoreInvitation, IsOtp, Inv, TypeOK
    <3>2. Key(job[p].secret) = {job[p].secret}
      BY <3>1, Keys
    <3> QED
      BY <1>1, <2>4, <3>2 DEF StoreInvitation, Put
  <2>5. ASSUME NEW p \in Procs, Discard(p)
        PROVE  Explained(s)
    <3>1. job[p].pc = "accepted" /\ s \in Key(job[p].secret)
      BY <1>1, <2>5 DEF Discard
    <3>2. job'[p].pc = "idle"
      BY <1>1, <2>5, IdleType, JobStep DEF Discard, Finish, Inv
    <3>3. p \notin disturbed => s = job[p].secret
      BY <1>1, <3>1 DEF Inv, RedisInv, HoldersKnow, Holding
    <3> QED
      BY <3>1, <3>2, <3>3
  <2>6. ASSUME NEW p \in Procs, CommitStep(p)
        PROVE  FALSE
    BY <2>1, <2>6, CommitJob, <1>1 DEF redis, Inv
  <2>7. AddUser \/ UNCHANGED vars => FALSE
    BY <2>1 DEF AddUser, vars, redis
  <2>8. ASSUME NEW p \in Procs,
               \/ LoadRegister(p) \/ Generate(p) \/ MailCode(p) \/ MailInvitation(p) \/ Match(p)
               \/ MatchNone(p) \/ VerifyEmail(p) \/ ResetPassword(p) \/ Revoke(p) \/ SetPassword(p)
               \/ LoadLogin(p) \/ LoadChange(p) \/ LoadPhone(p) \/ LoadSave(p) \/ LoadLogout(p)
               \/ Fail(p)
        PROVE  FALSE
    BY <2>1, <2>8
       DEF LoadRegister, Generate, MailCode, MailInvitation, Match, MatchNone, VerifyEmail, ResetPassword, Revoke,
           SetPassword, LoadLogin, LoadChange, LoadPhone, LoadSave, LoadLogout, Fail, Accept, redis
  <2> QED
    BY <1>1, <2>2, <2>3, <2>4, <2>5, <2>6, <2>7, <2>8 DEF Next, CommitStep
<1>2. Inv /\ [Next]_vars => [\A s \in store \ store' : Explained(s)]_vars
  BY <1>1
<1> QED
  BY <1>2, InvHolds, PTL DEF Spec, LostCodeHasACause

(* Requests about a device that nothing overlaps with do what they say     *)
(* (save_fcm_token_service, logout_service).                               *)
THEOREM DeviceFollows == Spec => DeviceFollowsRequest
<1>1. ASSUME Inv, NEW p \in Procs \ disturbed, InsertDevice(p) \/ UpdateDevice(p)
      PROVE  Active' # {}
  <2>1. device \in [Rows -> {"absent", "active", "inactive"}]
    BY <1>1 DEF Inv, TypeOK
  <2>2. CASE InsertDevice(p)
    BY <2>1, <2>2 DEF InsertDevice, Active
  <2>3. CASE UpdateDevice(p)
    <3>1. job[p].row \in Rows /\ (job[p].active => device[job[p].row] = "active")
      BY <1>1, <2>3 DEF UpdateDevice, Inv, DeviceInv, RowsKnown, Devices, Active
    <3> QED
      BY <2>1, <2>3, <3>1 DEF UpdateDevice, Active
  <2> QED
    BY <1>1, <2>2, <2>3
<1>2. ASSUME Inv, NEW p \in Procs \ disturbed, Logout(p), Cardinality(Devices) = 1
      PROVE  Active' = {}
  <2>1. device \in [Rows -> {"absent", "active", "inactive"}]
    BY <1>2 DEF Inv, TypeOK
  <2>2. job[p].row \in Devices /\ (job[p].active <=> job[p].row \in Active)
    BY <1>2 DEF Logout, Inv, DeviceInv, RowsKnown
  <2>3. Devices = {job[p].row}
    <3>1. IsFiniteSet(Devices) /\ IsFiniteSet(Devices \ {job[p].row})
      BY Finite, FS_RemoveElement
    <3>2. Cardinality(Devices \ {job[p].row}) = 0
      BY <1>2, <2>2, <3>1, FS_RemoveElement
    <3>3. Devices \ {job[p].row} = {}
      BY <3>1, <3>2, FS_EmptySet
    <3> QED
      BY <2>2, <3>3
  <2>4. Active \subseteq {job[p].row}
    BY <2>3 DEF Active, Devices
  <2> QED
    BY <1>2, <2>1, <2>2, <2>4 DEF Logout, Active
<1>3. Inv /\ [Next]_vars =>
        [\A p \in Procs \ disturbed :
           /\ InsertDevice(p) \/ UpdateDevice(p) => Active' # {}
           /\ Logout(p) /\ Cardinality(Devices) = 1 => Active' = {}]_vars
  BY <1>1, <1>2
<1> QED
  BY <1>3, InvHolds, PTL DEF Spec, DeviceFollowsRequest
=============================================================================
