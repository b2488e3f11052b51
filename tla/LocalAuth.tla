------------------------------ MODULE LocalAuth ------------------------------
(* The local authentication helper (PlugIns/Local/CDSLocalAuthHelper.cpp): one
   user record of the local node, its hash file and its state file, and threads
   that log in, change the password or set policy.  No lock is held over a
   request: each reads the two files, decides, writes the hashes, and writes
   the state file when it ends.  The network directory that a cached user
   belongs to, the local KDC and the plug-in that chooses the handler for the
   user's authentication authority are outside. *)
EXTENDS Naturals

CONSTANTS
  AuthThreads,  \* threads of the daemon
  Passwords,    \* what a user may type
  Short,        \* the passwords of fewer than eight characters
  Weak,         \* the passwords the policy refuses
  MaxFailed,    \* maxFailedLoginAttempts of the global policy
  Mixes,        \* bound: the methods of a behaviour, how many requests, and
                \* whether the policy has rules besides that of failures
  None,         \* a hash of zeros, or no password
  Foreign,      \* a hash handed over by root, of no known password
  Marker        \* kDSValueNonCryptPasswordMarker

\* What the constants must be; a module that gives them values assumes it.
LocalAuthAssumption ==
  /\ Short \subseteq Passwords /\ Weak \subseteq Passwords
  /\ MaxFailed \in Nat \ {0, 1}
  /\ {None, Foreign, Marker} \cap Passwords = {}
  /\ None # Foreign /\ None # Marker

VARIABLES
  aa,           \* the tag of the user's first authentication authority
  ntOn,         \* NT hashes are on the user's hash list
  crypt,        \* the password attribute of the record
  hash,         \* the hash file
  state,        \* the state file
  admin,        \* the user is a member of the group admin
  job,          \* what each thread is doing
  mix, begun,   \* the methods of this behaviour, and its requests so far
  failures,     \* history: failed requests that were counted
  causes        \* history: what else disabled the account, the network directory or the policy

authVars == <<aa, ntOn, crypt, hash, state, admin, job, mix, begun, failures, causes>>

-----------------------------------------------------------------------------
(* The hash file: the salted hash, the plain SHA-1 hash of old files, the NT
   hash.  Each slot is the password it was made from. *)

HashFile == [salted : Passwords \cup {None, Foreign},
             sha1 : Passwords \cup {None},
             nt : Passwords \cup {None, Foreign}]
Zeros == [salted |-> None, sha1 |-> None, nt |-> None]
NoFile == Zeros  \* a file that exists is never all zeros
Legacy(h) == h.salted = None /\ h.sha1 # None
Generate(pw, nt) == [salted |-> pw, sha1 |-> None, nt |-> IF nt THEN pw ELSE None]
GenerateLegacy(pw) == [salted |-> None, sha1 |-> pw, nt |-> pw]

\* Only the best hash the user has is compared.
HashesEqual(user, made) ==
  CASE user.salted # None -> user.salted = made.salted
    [] user.salted = None /\ user.sha1 # None -> user.sha1 = made.sha1
    [] user.salted = None /\ user.sha1 = None -> user.nt # None /\ user.nt = made.nt

StateFile == [failed : Nat, newPw : BOOLEAN, dated : BOOLEAN]
Fresh == [failed |-> 0, newPw |-> FALSE, dated |-> FALSE]

Logins == {"Clear", "Windows", "Secure"}
Changes == {"SetPasswd", "SetPasswdAsRoot", "ChangePasswd"}
Digests == {"SetNTHash", "SetWorkstationPasswd", "WriteSecureHash"}
Methods == Logins \cup Changes \cup Digests \cup {"SetPolicyAsRoot"}
NoFetch == {"SetNTHash", "WriteSecureHash", "SetPolicyAsRoot"}
\* by: the user, or an administrator; second: another authority changed the
\* password before this handler was called
Requests == [method : Methods, old : Passwords, new : Passwords,
             by : {"user", "admin"}, second : BOOLEAN]
UsesOld(m) == m \in Logins \cup {"SetPasswd", "ChangePasswd"}
UsesNew(m) == m \in Changes

\* What a method does not use is fixed.
Asked ==
  {r \in Requests :
     /\ UsesOld(r.method) \/ r.old = CHOOSE p \in Passwords : TRUE
     /\ UsesNew(r.method) \/ r.new = CHOOSE p \in Passwords : TRUE
     /\ r.second => r.method = "ChangePasswd"
     /\ r.method \in Logins \cup {"SetPasswd", "ChangePasswd"} => r.by = "user"}

Idle == [pc |-> "idle"]
Enabled(tag) == CASE tag = "dshadow" -> "shadow" [] tag = "dcached" -> "cached" [] OTHER -> tag
ListNT(via) == Enabled(via) = "shadow" /\ ntOn

AuthInit ==
  /\ admin \in BOOLEAN /\ mix \in Mixes /\ begun = 0
  /\ aa \in {"basic", "shadow", "cached", "dshadow", "dcached"} 
  /\ ntOn \in IF Enabled(aa) = "shadow" THEN BOOLEAN ELSE {FALSE}
  /\ failures = IF aa = "dshadow" THEN MaxFailed ELSE 0
  /\ causes = IF aa = "dcached" THEN {"network"} ELSE {}
  /\ state = [Fresh EXCEPT !.failed = failures]
  /\ job = [t \in AuthThreads |-> Idle]
  /\ crypt \in IF aa = "basic" THEN Passwords ELSE {Marker}
  /\ hash \in
       CASE aa = "basic" -> {NoFile}
         [] Enabled(aa) = "shadow" -> UNION {{Generate(pw, ntOn), GenerateLegacy(pw)} : pw \in Passwords}
         [] Enabled(aa) = "cached" -> {NoFile} \cup {Generate(pw, FALSE) : pw \in Passwords}

-----------------------------------------------------------------------------
(* A request is given to the handler of the user's authority.              *)

Begin(t, r) ==
  /\ job[t] = Idle /\ begun < mix.requests /\ r.method \in mix.methods
  /\ aa = "basic" => r.method \in {"Clear"} \cup Changes
  /\ Enabled(aa) = "cached" => r.method \in {"Clear", "SetPolicyAsRoot"} \cup Changes
  /\ aa = "dshadow" => r.method \in {"SetPolicyAsRoot", "SetPasswdAsRoot"}
  /\ begun' = begun + 1
  /\ job' = [job EXCEPT ![t] =
       [pc |-> CASE aa = "basic" -> "crypt" [] Enabled(aa) = "cached" -> "policy" [] OTHER -> "read",
        req |-> r, via |-> aa, net |-> "none", file |-> FALSE, hash |-> Zeros,
        state |-> Fresh, crypt |-> IF aa = "basic" THEN crypt ELSE None,
        status |-> "none", counted |-> TRUE]]
  /\ UNCHANGED <<aa, ntOn, crypt, hash, state, admin, mix, failures, causes>>

Go(t, pc) == job' = [job EXCEPT ![t].pc = pc]
Stay == UNCHANGED <<admin, mix, begun>>

\* Is the node a cached user comes from on the search policy, or one of Active
\* Directory?  If not, only a user that is not disabled goes on, by the local file.
Alone(r) == r.method = "SetPolicyAsRoot"
AwayRefuses(r) == r.method \in Changes \/ (Alone(r) /\ r.by # "admin")
Hear(t, answer) == job' = [job EXCEPT ![t] = [@ EXCEPT !.pc = "read", !.net = answer]]
LocalCachedUserReachable(t, found) ==
  LET j == job[t] IN
  /\ j.pc = "policy"
  /\ \/ found /\ Go(t, "net")
     \/ ~found /\ IF j.via = "dcached" \/ AwayRefuses(j.req)
                  THEN job' = [job EXCEPT ![t] = Idle] ELSE Hear(t, "away")
  /\ Stay /\ UNCHANGED <<aa, ntOn, crypt, hash, state, failures, causes>>

\* The node answers first; a setting of policy does not ask it.  When it is
\* away, passwords are not changed.
Network(t, answer) ==
  LET j == job[t] IN
  /\ j.pc = "net"
  /\ answer = "away" \/ ~Alone(j.req)
  /\ IF answer \in {"disabled", "failed"} \/ (answer = "away" /\ AwayRefuses(j.req))
     THEN job' = [job EXCEPT ![t] = Idle] ELSE Hear(t, answer)
  /\ causes' = causes \cup IF answer = "disabled" THEN {"network"} ELSE {}
  /\ aa' = IF answer = "disabled" /\ j.via = "cached" THEN "dcached" ELSE aa
  /\ Stay /\ UNCHANGED <<ntOn, crypt, hash, state, failures>>

-----------------------------------------------------------------------------
(* The handler of hash files.                                              *)

\* Without a hash file only the methods that make one go on.
NeedsFile(r) == 
  \/ r.method \in {"Clear", "SetPolicyAsRoot"}
  \/ r.method = "ChangePasswd" /\ ~r.second
AfterHandler(j) == IF Enabled(j.via) = "cached" THEN "after" ELSE "idle"
Read(t) ==
  LET j == job[t]
      fetch == j.req.method \notin NoFetch
      refused == NeedsFile(j.req) /\ hash = NoFile IN
  /\ j.pc = "read"
  /\ job' = [job EXCEPT ![t] =
       IF refused /\ AfterHandler(j) = "idle" THEN Idle
       ELSE [j EXCEPT !.pc = IF refused THEN "after" ELSE "act",
                      !.status = IF refused THEN "AuthFailed" ELSE "none",
                      !.file = fetch /\ hash # NoFile,
                      !.hash = IF fetch THEN hash ELSE Zeros,
                      !.state = IF (fetch /\ hash # NoFile) \/ j.req.method = "SetPolicyAsRoot"
                                THEN state ELSE Fresh]]
  /\ Stay /\ UNCHANGED <<aa, ntOn, crypt, hash, state, failures, causes>>

WriteShadowHash(h, ok) == hash' = IF ok THEN h ELSE hash
Becomes(t, status, counted, s) ==
  job' = [job EXCEPT ![t] = [@ EXCEPT !.pc = "finish", !.status = status, !.counted = counted, !.state = s, !.hash = Zeros]]
Refuse(t, status, counted) ==
  /\ Becomes(t, status, counted, job[t].state)
  /\ UNCHANGED <<hash, ntOn, state>>

\* A clear-text password; a matching one brings the file up to date.
NewList(j) == CASE j.req.method = "Windows" -> TRUE [] j.req.method = "Secure" -> FALSE [] OTHER -> ListNT(j.via)
Verifies(j, pw) ==
  HashesEqual(j.hash, IF Legacy(j.hash) THEN GenerateLegacy(pw) ELSE Generate(pw, ListNT(j.via)))
Login(t, ok) ==
  LET j == job[t]
      right == Verifies(j, j.req.old)
      made == Generate(j.req.old, NewList(j)) IN
  /\ j.pc = "act" /\ j.req.method \in Logins
  /\ \/ ~right /\ Refuse(t, "AuthFailed", TRUE)
     \/ /\ right
        /\ IF made = j.hash THEN UNCHANGED hash /\ ok ELSE WriteShadowHash(made, ok)
        /\ \E s \in (IF ok THEN {"ok"} ELSE {"ok", "AuthFailed"}) : Becomes(t, s, TRUE, j.state)
        /\ ntOn' = NewList(j)
        /\ UNCHANGED state
  /\ Stay /\ UNCHANGED <<aa, crypt, failures, causes>>

\* The old password must be right where it is asked for, the caller allowed to
\* change this one, and the new password good.  SetPasswd reads the file again,
\* and makes the hash to compare with the salt it has read before.
WrongOld(j) ==
  \/ j.req.method = "SetPasswd"
     /\ (j.hash.salted # hash.salted \/ ~Verifies([j EXCEPT !.hash = hash], j.req.old))
  \/ j.req.method = "ChangePasswd" /\ ~j.req.second
     /\ ~HashesEqual(j.hash, Generate(j.req.old, ListNT(j.via)))
TooWeak(j) ==
  /\ j.req.new \in Weak
  /\ CASE j.req.method = "SetPasswd" -> TRUE
       [] j.req.method = "SetPasswdAsRoot" -> j.req.by # "admin"
       [] j.req.method = "ChangePasswd" -> ~admin
\* The Kerberos handler that follows a new password reads both files again
\* into the same parameters, and may refuse.
KerberosReads(t) ==
  \E s \in {"ok", "PermissionError"} :
    job' = [job EXCEPT ![t] = [@ EXCEPT !.pc = "finish", !.status = s, !.file = TRUE,
                                     !.state = state, !.hash = Zeros]]
Change(t, ok) ==
  LET j == job[t] IN
  /\ j.pc = "act" /\ j.req.method \in Changes
  /\ \/ WrongOld(j) /\ Refuse(t, "AuthFailed", j.req.method = "ChangePasswd")
     \/ ~WrongOld(j) /\ TooWeak(j) /\ Refuse(t, "TooShort", TRUE)
     \/ /\ ~WrongOld(j) /\ ~TooWeak(j)
        /\ WriteShadowHash(Generate(j.req.new, ListNT(j.via)), ok)
        /\ IF j.req.method = "ChangePasswd"
           THEN Becomes(t, IF ok THEN "ok" ELSE "AuthFailed", TRUE, [j.state EXCEPT !.newPw = FALSE])
           ELSE \/ ok /\ KerberosReads(t)
                \/ ~ok /\ Becomes(t, "AuthFailed", TRUE, [j.state EXCEPT !.newPw = FALSE])
        /\ UNCHANGED <<ntOn, state>>
  /\ Stay /\ UNCHANGED <<aa, crypt, failures, causes>>

\* A hash handed over by an administrator.
SetDigest(t, ok) ==
  LET j == job[t]
      h == CASE j.req.method = "WriteSecureHash" -> [Zeros EXCEPT !.salted = Foreign]
             [] OTHER -> [j.hash EXCEPT !.nt = Foreign] IN
  /\ j.pc = "act" /\ j.req.method \in Digests
  /\ \/ j.req.by # "admin" /\ Refuse(t, "PermissionError", FALSE)
     \/ /\ j.req.by = "admin" /\ WriteShadowHash(h, ok)
        /\ Becomes(t, IF ok THEN "ok" ELSE "AuthFailed", TRUE, j.state)
        /\ UNCHANGED <<ntOn, state>>
  /\ Stay /\ UNCHANGED <<aa, crypt, failures, causes>>

\* A new password is asked for, or no longer; the state read before is written.
SetPolicy(t) ==
  LET j == job[t] IN
  /\ j.pc = "act" /\ j.req.method = "SetPolicyAsRoot"
  /\ \/ j.req.by # "admin" /\ Refuse(t, "PermissionError", TRUE)
     \/ /\ j.req.by = "admin"
        /\ \E new \in BOOLEAN : state' = [j.state EXCEPT !.newPw = new]
        /\ Becomes(t, "ok", TRUE, Fresh)
        /\ UNCHANGED <<hash, ntOn>>
  /\ Stay /\ UNCHANGED <<aa, crypt, failures, causes>>

\* The tail of the handler: policy for users that are not administrators, and
\* the state file.
Tested_AnyError(j) == [j.state EXCEPT !.failed = IF j.counted /\ j.status # "ok" THEN @ + 1 ELSE @]
Tested(j) == [j.state EXCEPT !.failed = IF j.counted /\ j.status = "AuthFailed" THEN @ + 1 ELSE @]
\* Other rules, about dates or set by an administrator, disable an account too.
OtherRules(j) == mix.rules /\ ~admin /\ j.req.method \notin NoFetch
Disables(j, rule) ==
  j.counted /\ j.status \in {"ok", "AuthFailed"} /\ (rule \/ Tested(j).failed >= MaxFailed)
Result(j, rule) ==
  CASE admin -> j.status
    [] ~admin /\ Disables(j, rule) -> "AccountDisabled"
    [] ~admin /\ ~Disables(j, rule) /\ j.status = "ok" /\ j.state.newPw -> "NewPasswordRequired"
    [] OTHER -> j.status
Ended(j, rule, count) ==
  [j.state EXCEPT !.failed = count, !.dated = @ \/ Result(j, rule) \in {"ok", "NewPasswordRequired"}]
\* The record may have another authority by now than when the request began.
AAtoDisabled == CASE aa = "shadow" -> "dshadow" [] aa = "cached" -> "dcached" [] OTHER -> aa
Finish(t, rule, reset) ==
  LET j == job[t]
      count == CASE admin -> j.state.failed
                 [] ~admin /\ ((Disables(j, rule) /\ reset) \/ Result(j, rule) = "ok") -> 0
                 [] OTHER -> Tested(j).failed
      ended == Ended(j, rule, count) IN
  /\ j.pc = "finish"
  /\ rule => OtherRules(j) /\ Disables(j, rule)
  /\ reset => ~admin /\ Disables(j, rule)
  /\ state' = IF j.file /\ ended # Fresh THEN ended ELSE state
  /\ failures' = IF ~admin /\ j.counted /\ j.status = "AuthFailed" THEN failures + 1 ELSE failures
  /\ causes' = causes \cup IF rule THEN {"policy"} ELSE {}
  /\ aa' = IF Result(j, rule) = "AccountDisabled" /\ Enabled(j.via) = "shadow" THEN AAtoDisabled ELSE aa
  /\ job' = [job EXCEPT ![t] = IF AfterHandler(j) = "idle" THEN Idle
                               ELSE [j EXCEPT !.pc = "after", !.status = Result(j, rule)]]
  /\ Stay /\ UNCHANGED <<ntOn, crypt, hash>>

\* A cached user: what the network accepted and the local file did not is
\* written to the file, from the second item of the caller's buffer.
Second(r) == IF UsesOld(r.method) /\ r.method # "SetPasswd" THEN r.old ELSE r.new
Final(j, ok) == CASE j.net = "ok" -> IF j.status = "ok" \/ ok THEN "ok" ELSE "AuthFailed"
                  [] j.net = "away" -> j.status
                  [] OTHER -> "denied"
After(t, ok) ==
  LET j == job[t]
      fix == j.net = "ok" /\ j.status # "ok" IN
  /\ j.pc = "after"
  /\ IF fix THEN WriteShadowHash(Generate(Second(j.req), ListNT(j.via)), ok) ELSE UNCHANGED hash /\ ok
  /\ aa' = CASE j.via = "cached" /\ Final(j, ok) = "AccountDisabled" -> "dcached"
             [] j.via = "dcached" /\ j.net = "ok" /\ Final(j, ok) = "ok" /\ j.req.method = "Clear" -> "cached"
             [] OTHER -> aa
  /\ job' = [job EXCEPT ![t] = Idle]
  /\ Stay /\ UNCHANGED <<ntOn, crypt, state, failures, causes>>

-----------------------------------------------------------------------------
(* The handler of crypt passwords, and the migration to a hash file.       *)

Migrates(r) == IF r.method = "Clear" THEN r.old ELSE r.new
\* Who gets as far as the migration: a login with a short password, an
\* administrator that gives its own one, anyone that sets a password as root,
\* or the user with the old one.
UnixCryptAuth(j) == j.req.method = "Clear" /\ j.req.old = j.crypt /\ j.req.old \in Short
SetPassword(j) == j.req.method = "SetPasswd"
SetPasswordAsRoot(j) == j.req.method = "SetPasswdAsRoot"
ChangePassword(j) == j.req.method = "ChangePasswd" /\ (j.req.second \/ j.req.old = j.crypt)
BasicAuth(t) ==
  LET j == job[t] IN
  /\ j.pc = "crypt"
  /\ \/ UnixCryptAuth(j) /\ Go(t, "write")
     \/ SetPassword(j) /\ Go(t, "write")
     \/ SetPasswordAsRoot(j) /\ Go(t, "write")
     \/ ChangePassword(j) /\ Go(t, "write")
     \/ ~UnixCryptAuth(j) /\ ~SetPasswordAsRoot(j) /\ ~ChangePassword(j) /\ job' = [job EXCEPT ![t] = Idle]
  /\ Stay /\ UNCHANGED <<aa, ntOn, crypt, hash, state, failures, causes>>

\* The hash file first, then the authority, then the old password goes.
AfterWrite_Anyway(ok) == "tag"
AfterWrite(ok) == IF ok THEN "tag" ELSE "idle"
MigrateWrite(t, ok) ==
  /\ job[t].pc = "write"
  /\ WriteShadowHash(Generate(Migrates(job[t].req), FALSE), ok)
  /\ IF AfterWrite(ok) = "idle" THEN job' = [job EXCEPT ![t] = Idle] ELSE Go(t, AfterWrite(ok))
  /\ Stay /\ UNCHANGED <<aa, ntOn, crypt, state, failures, causes>>
MigrateTag(t) ==
  /\ job[t].pc = "tag" /\ Go(t, "strip")
  /\ aa' = "shadow" /\ ntOn' = FALSE
  /\ Stay /\ UNCHANGED <<crypt, hash, state, failures, causes>>
MigrateStrip(t) ==
  /\ job[t].pc = "strip" /\ Go(t, "mark") /\ crypt' = None
  /\ Stay /\ UNCHANGED <<aa, ntOn, hash, state, failures, causes>>
MigrateMark(t) ==
  /\ job[t].pc = "mark" /\ job' = [job EXCEPT ![t] = Idle] /\ crypt' = Marker
  /\ Stay /\ UNCHANGED <<aa, ntOn, hash, state, failures, causes>>

\* The daemon stops; the record and the files stay as they are.
Stop ==
  /\ \E t \in AuthThreads : job[t] # Idle
  /\ job' = [t \in AuthThreads |-> Idle]
  /\ Stay /\ UNCHANGED <<aa, ntOn, crypt, hash, state, failures, causes>>

AuthNext ==
  \/ \E t \in AuthThreads, r \in Asked : Begin(t, r)
  \/ \E t \in AuthThreads, found \in BOOLEAN : LocalCachedUserReachable(t, found)
  \/ \E t \in AuthThreads, a \in {"ok", "denied", "away", "disabled", "failed"} : Network(t, a)
  \/ \E t \in AuthThreads : Read(t)
  \/ \E t \in AuthThreads, ok \in BOOLEAN : Login(t, ok)
  \/ \E t \in AuthThreads, ok \in BOOLEAN : Change(t, ok)
  \/ \E t \in AuthThreads, ok \in BOOLEAN : SetDigest(t, ok)
  \/ \E t \in AuthThreads : SetPolicy(t)
  \/ \E t \in AuthThreads, rule, reset \in BOOLEAN : Finish(t, rule, reset)
  \/ \E t \in AuthThreads, ok \in BOOLEAN : After(t, ok)
  \/ \E t \in AuthThreads : BasicAuth(t)
  \/ \E t \in AuthThreads, ok \in BOOLEAN : MigrateWrite(t, ok)
  \/ \E t \in AuthThreads : MigrateTag(t)
  \/ \E t \in AuthThreads : MigrateStrip(t)
  \/ \E t \in AuthThreads : MigrateMark(t)
  \/ Stop
AuthSpec == AuthInit /\ [][AuthNext]_authVars

-----------------------------------------------------------------------------
AuthTypeOK ==
  /\ aa \in {"basic", "shadow", "cached", "dshadow", "dcached"}
  /\ crypt \in Passwords \cup {None, Marker}
  /\ hash \in HashFile /\ state \in StateFile

(* Threads that read, count and write one state file may lose failures of each
   other but never invent one: an account is disabled only after as many
   failures as the policy allows, by another rule of the policy, or when its
   own directory said so. *)
DisabledForACause ==
  /\ state.failed <= failures
  /\ aa = "dshadow" => "policy" \in causes \/ failures >= MaxFailed
  /\ aa = "dcached" => causes # {} \/ failures >= MaxFailed

(* At every point where the daemon may stop, and whatever writes failed, a
   user that is not on the network has something to verify a password with:
   the crypt password goes, and the authority changes, only after the hash
   file is there. *)
VerifierKept ==
  aa \in {"shadow", "dshadow"} \/ (aa = "basic" /\ crypt \notin Passwords) => hash # NoFile
=============================================================================
