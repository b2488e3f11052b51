--------------------------- MODULE LocalAuth_proofs ---------------------------
(* Proofs about the local authentication helper: an account is disabled only  *)
(* for a cause, and a password can be verified at every point where the       *)
(* daemon may stop, for any number of threads and any passwords.              *)
EXTENDS LocalAuth, TLAPS

-----------------------------------------------------------------------------
\* The state is well formed.

Tags == {"basic", "shadow", "cached", "dshadow", "dcached"}
Statuses == {"ok", "AuthFailed", "TooShort", "PermissionError"}
Busy == [pc : {"crypt", "policy", "net", "read", "act", "finish", "after", "write", "tag", "strip", "mark"},
         req : Requests, via : Tags, net : {"none", "ok", "denied", "away"}, file : BOOLEAN,
         hash : HashFile, state : StateFile, crypt : Passwords \cup {None, Marker},
         status : Statuses \cup {"none", "AccountDisabled", "NewPasswordRequired"}, counted : BOOLEAN]

\* The causes for which a login disables an account.
ForACause == "policy" \in causes \/ failures >= MaxFailed

\* What a thread has read of the state file was counted; policy has not been
\* tested before the end; an account that was found disabled has its cause;
\* and the authority changes when the hash file is written.
JobOK(j, fails, others, file) ==
  \/ j = Idle
  \/ /\ j \in Busy
     /\ j.state.failed <= fails
     /\ j.pc = "finish" => j.status \in Statuses
     /\ j.status = "AccountDisabled" => "policy" \in others \/ fails >= MaxFailed
     /\ j.pc \in {"tag", "strip", "mark"} => file # NoFile

StateOK ==
  /\ AuthTypeOK
  /\ failures \in Nat /\ causes \subseteq {"network", "policy"} /\ admin \in BOOLEAN
  /\ DOMAIN job = AuthThreads
Jobs == \A t \in AuthThreads : JobOK(job[t], failures, causes, hash)
Inv == StateOK /\ Jobs /\ DisabledForACause /\ VerifierKept

-----------------------------------------------------------------------------
\* The hashes that are written are never all zeros.

LEMMA MadeOfPassword ==
  ASSUME LocalAuthAssumption, NEW pw \in Passwords, NEW nt \in BOOLEAN
  PROVE  /\ Generate(pw, nt) \in HashFile /\ Generate(pw, nt) # NoFile
         /\ GenerateLegacy(pw) \in HashFile /\ GenerateLegacy(pw) # NoFile
<1>1. pw # None  BY DEF LocalAuthAssumption
<1>2. Generate(pw, nt).salted = pw /\ GenerateLegacy(pw).sha1 = pw  BY DEF Generate, GenerateLegacy
<1>3. NoFile.salted = None /\ NoFile.sha1 = None  BY DEF NoFile, Zeros
<1> QED BY <1>1, <1>2, <1>3 DEF Generate, GenerateLegacy, HashFile

LEMMA ZerosOK == Zeros \in HashFile
BY DEF Zeros, HashFile

LEMMA FreshOK == Fresh \in StateFile /\ Fresh.failed = 0
BY DEF Fresh, StateFile

\* A request keeps its own when others count failures and write hashes.
LEMMA JobsStep ==
  ASSUME StateOK, Jobs, NEW t \in AuthThreads, NEW v, job' = [job EXCEPT ![t] = v],
         failures <= failures', failures' \in Nat, causes \subseteq causes', hash # NoFile => hash' # NoFile,
         JobOK(v, failures', causes', hash'), LocalAuthAssumption
  PROVE  Jobs' /\ DOMAIN job' = AuthThreads
<1>1. DOMAIN job' = AuthThreads /\ job'[t] = v /\ \A u \in AuthThreads : u # t => job'[u] = job[u]  BY DEF StateOK
<1>2. ASSUME NEW u \in AuthThreads, u # t PROVE JobOK(job[u], failures', causes', hash')
  <2>1. JobOK(job[u], failures, causes, hash)  BY DEF Jobs
  <2>2. CASE job[u] = Idle  BY <2>2 DEF JobOK
  <2>3. CASE job[u] # Idle
    <3>1. job[u] \in Busy /\ job[u].state.failed \in Nat  BY <2>1, <2>3 DEF JobOK, Busy, StateFile
    <3>2. MaxFailed \in Nat /\ failures \in Nat  BY DEF LocalAuthAssumption, StateOK
    <3> HIDE DEF Busy
    <3> QED BY <2>1, <2>3, <3>1, <3>2 DEF JobOK
  <2> QED BY <2>2, <2>3
<1> QED BY <1>1, <1>2 DEF Jobs

\* With files, authority and counts as they were.
LEMMA OnlyJobs ==
  ASSUME LocalAuthAssumption, Inv, NEW t \in AuthThreads, NEW v, job' = [job EXCEPT ![t] = v],
         JobOK(v, failures, causes, hash), UNCHANGED <<aa, crypt, hash, state, admin, failures, causes>>
  PROVE  Inv'
<1>1. Jobs' /\ DOMAIN job' = AuthThreads
  <2>1. failures \in Nat  BY DEF Inv, StateOK
  <2>2. failures <= failures' /\ failures' \in Nat /\ causes \subseteq causes'  BY <2>1
  <2> QED BY <2>2, JobsStep DEF Inv
<1>2. StateOK'  BY <1>1 DEF Inv, StateOK, AuthTypeOK
<1>3. DisabledForACause' /\ VerifierKept'  BY DEF Inv, DisabledForACause, VerifierKept
<1> QED BY <1>1, <1>2, <1>3 DEF Inv

\* What a thread that works on a request has.
LEMMA AtWork ==
  ASSUME Inv, NEW t \in AuthThreads, job[t].pc # "idle"
  PROVE  /\ job[t] \in Busy /\ JobOK(job[t], failures, causes, hash)
         /\ job[t].state.failed <= failures
         /\ job[t].pc = "finish" => job[t].status \in Statuses
         /\ job[t].status = "AccountDisabled" => ForACause
         /\ job[t].pc \in {"tag", "strip", "mark"} => hash # NoFile
<1>1. JobOK(job[t], failures, causes, hash)  BY DEF Inv, Jobs
<1>2. job[t] # Idle  BY DEF Idle
<1> QED BY <1>1, <1>2 DEF JobOK, ForACause

LEMMA InitInv ==
  ASSUME LocalAuthAssumption, AuthInit
  PROVE  Inv
<1> USE DEF AuthInit
<1>1. Jobs /\ DOMAIN job = AuthThreads  BY DEF Jobs, JobOK
<1>2. hash \in HashFile /\ (Enabled(aa) = "shadow" => hash # NoFile)
  <2>1. CASE aa = "basic"  BY <2>1, ZerosOK DEF NoFile, Enabled
  <2>2. CASE Enabled(aa) = "shadow" /\ aa # "basic"
    <3>1. \E pw \in Passwords : hash \in {Generate(pw, ntOn), GenerateLegacy(pw)}  BY <2>2
    <3>2. ntOn \in BOOLEAN  BY <2>2
    <3> QED BY <3>1, <3>2, MadeOfPassword
  <2>3. CASE Enabled(aa) = "cached" /\ aa # "basic"
    <3>1. hash \in {NoFile} \cup {Generate(pw, FALSE) : pw \in Passwords}  BY <2>3
    <3> QED BY <2>3, <3>1, MadeOfPassword, ZerosOK DEF NoFile
  <2> QED BY <2>1, <2>2, <2>3 DEF Enabled
<1>3. state = [Fresh EXCEPT !.failed = failures] /\ failures \in Nat
      /\ (aa = "dshadow" => failures = MaxFailed)
  BY DEF LocalAuthAssumption
<1>4. state \in StateFile /\ state.failed = failures  BY <1>3 DEF Fresh, StateFile
<1>5. StateOK
  <2>1. crypt \in Passwords \cup {None, Marker}  OBVIOUS
  <2>2. causes \subseteq {"network", "policy"} /\ admin \in BOOLEAN  OBVIOUS
  <2>3. aa \in {"basic", "shadow", "cached", "dshadow", "dcached"}  OBVIOUS
  <2> QED BY <1>1, <1>2, <1>3, <1>4, <2>1, <2>2, <2>3 DEF StateOK, AuthTypeOK
<1>6. DisabledForACause
  <2>1. aa = "dcached" => causes # {}  OBVIOUS
  <2>2. MaxFailed \in Nat  BY DEF LocalAuthAssumption
  <2> QED BY <1>3, <1>4, <2>1, <2>2 DEF DisabledForACause
<1>7. VerifierKept  BY <1>2 DEF VerifierKept, Enabled
<1> QED BY <1>1, <1>5, <1>6, <1>7 DEF Inv

LEMMA BeginInv ==
  ASSUME LocalAuthAssumption, Inv, NEW t \in AuthThreads, NEW r \in Asked, Begin(t, r)
  PROVE  Inv'
<1> DEFINE v == [pc |-> CASE aa = "basic" -> "crypt" [] Enabled(aa) = "cached" -> "policy" [] OTHER -> "read",
                 req |-> r, via |-> aa, net |-> "none", file |-> FALSE, hash |-> Zeros,
                 state |-> Fresh, crypt |-> IF aa = "basic" THEN crypt ELSE None,
                 status |-> "none", counted |-> TRUE]
<1>1. job' = [job EXCEPT ![t] = v] /\ UNCHANGED <<aa, crypt, hash, state, admin, failures, causes>>
  BY DEF Begin
<1>2. r \in Requests  BY DEF Asked
<1>3. aa \in Tags /\ crypt \in Passwords \cup {None, Marker} /\ failures \in Nat
  BY DEF Inv, StateOK, AuthTypeOK, Tags
<1>4. (CASE aa = "basic" -> "crypt" [] Enabled(aa) = "cached" -> "policy" [] OTHER -> "read")
        \in {"crypt", "policy", "read"}
  OBVIOUS
<1>5. v \in Busy  BY <1>2, <1>3, <1>4, ZerosOK, FreshOK DEF Busy, Statuses
<1>6. v.pc \in {"crypt", "policy", "read"} /\ v.status = "none" /\ v.state.failed = 0  BY <1>4, FreshOK
<1> HIDE DEF v
<1>7. JobOK(v, failures, causes, hash)  BY <1>3, <1>5, <1>6 DEF JobOK
<1> QED BY <1>1, <1>7, OnlyJobs

\* Changes of the place only, and of what the network said.
LEMMA Moves ==
  ASSUME LocalAuthAssumption, Inv, NEW j \in Busy, JobOK(j, failures, causes, hash),
         NEW pc \in {"net", "read", "write"}, NEW net \in {"none", "ok", "denied", "away"}
  PROVE  JobOK([j EXCEPT !.pc = pc, !.net = net], failures, causes, hash) /\ JobOK([j EXCEPT !.pc = pc], failures, causes, hash)
<1> DEFINE v == [j EXCEPT !.pc = pc, !.net = net]
           w == [j EXCEPT !.pc = pc]
<1>1. v \in Busy /\ w \in Busy  BY DEF Busy
<1>2. /\ v.state = j.state /\ v.status = j.status /\ v.pc = pc
      /\ w.state = j.state /\ w.status = j.status /\ w.pc = pc
  BY DEF Busy
<1>3. j # Idle => j.state.failed <= failures /\ (j.status = "AccountDisabled" => ForACause)
  BY DEF JobOK, ForACause
<1>4. j # Idle
  <2>1. j.pc # "idle"  BY DEF Busy
  <2> QED BY <2>1 DEF Idle
<1> HIDE DEF v, w
<1> QED BY <1>1, <1>2, <1>3, <1>4 DEF JobOK, ForACause, v, w

LEMMA LocalCachedUserReachableInv ==
  ASSUME LocalAuthAssumption, Inv, NEW t \in AuthThreads, NEW found \in BOOLEAN, LocalCachedUserReachable(t, found)
  PROVE  Inv'
<1>1. job[t].pc = "policy" /\ UNCHANGED <<aa, crypt, hash, state, admin, failures, causes>>
  BY DEF LocalCachedUserReachable, Stay
<1>2. job[t] \in Busy /\ JobOK(job[t], failures, causes, hash)  BY <1>1, AtWork
<1>3. PICK v : v \in {Idle, [job[t] EXCEPT !.pc = "net"], [job[t] EXCEPT !.pc = "read", !.net = "away"]}
               /\ job' = [job EXCEPT ![t] = v]
  <2>1. \/ job' = [job EXCEPT ![t] = Idle]
        \/ Go(t, "net")
        \/ Hear(t, "away")
    BY DEF LocalCachedUserReachable
  <2>2. CASE job' = [job EXCEPT ![t] = Idle]  BY <2>2
  <2>3. CASE Go(t, "net")
    <3>1. job' = [job EXCEPT ![t] = [job[t] EXCEPT !.pc = "net"]]  BY <2>3 DEF Go
    <3> QED BY <3>1
  <2>4. CASE Hear(t, "away")
    <3>1. job' = [job EXCEPT ![t] = [job[t] EXCEPT !.pc = "read", !.net = "away"]]  BY <2>4 DEF Hear
    <3> QED BY <3>1
  <2> QED BY <2>1, <2>2, <2>3, <2>4
<1>4. JobOK(v, failures, causes, hash)
  <2>1. JobOK(Idle, failures, causes, hash)  BY DEF JobOK
  <2> QED BY <1>2, <1>3, <2>1, Moves
<1> QED BY <1>1, <1>3, <1>4, OnlyJobs

LEMMA NetworkInv ==
  ASSUME LocalAuthAssumption, Inv, NEW t \in AuthThreads,
         NEW a \in {"ok", "denied", "away", "disabled", "failed"}, Network(t, a)
  PROVE  Inv'
<1>1. /\ job[t].pc = "net" /\ UNCHANGED <<crypt, hash, state, admin, failures>>
      /\ causes' = causes \cup IF a = "disabled" THEN {"network"} ELSE {}
      /\ aa' = IF a = "disabled" /\ job[t].via = "cached" THEN "dcached" ELSE aa
  BY DEF Network, Stay
<1>2. job[t] \in Busy /\ JobOK(job[t], failures, causes, hash)  BY <1>1, AtWork
<1>3. PICK v : /\ \/ v = Idle
                  \/ a \in {"ok", "denied", "away"} /\ v = [job[t] EXCEPT !.pc = "read", !.net = a]
               /\ job' = [job EXCEPT ![t] = v]
  <2>1. \/ job' = [job EXCEPT ![t] = Idle]
        \/ a \in {"ok", "denied", "away"} /\ Hear(t, a)
    BY DEF Network
  <2>2. CASE job' = [job EXCEPT ![t] = Idle]  BY <2>2
  <2>3. CASE a \in {"ok", "denied", "away"} /\ Hear(t, a)
    <3>1. job' = [job EXCEPT ![t] = [job[t] EXCEPT !.pc = "read", !.net = a]]  BY <2>3 DEF Hear
    <3> QED BY <2>3, <3>1
  <2> QED BY <2>1, <2>2, <2>3
<1>4. JobOK(v, failures, causes', hash)
  <2>1. JobOK(Idle, failures, causes, hash)  BY DEF JobOK
  <2>2. JobOK(v, failures, causes, hash)  BY <1>2, <1>3, <2>1, Moves
  <2>3. "policy" \in causes => "policy" \in causes'  BY <1>1
  <2> QED BY <2>2, <2>3 DEF JobOK
<1>5. failures \in Nat  BY DEF Inv, StateOK
<1>6. Jobs' /\ DOMAIN job' = AuthThreads
  <2>1. failures <= failures' /\ failures' \in Nat /\ causes \subseteq causes'  BY <1>1, <1>5
  <2> QED BY <1>1, <1>3, <1>4, <2>1, JobsStep DEF Inv
<1>7. StateOK'  BY <1>1, <1>6 DEF Inv, StateOK, AuthTypeOK
<1>8. DisabledForACause' /\ VerifierKept'  BY <1>1 DEF Inv, DisabledForACause, VerifierKept
<1> QED BY <1>6, <1>7, <1>8 DEF Inv

LEMMA ReadInv ==
  ASSUME LocalAuthAssumption, Inv, NEW t \in AuthThreads, Read(t)
  PROVE  Inv'
<1> DEFINE j == job[t]
           fetch == j.req.method \notin NoFetch
           refused == NeedsFile(j.req) /\ hash = NoFile
           v == IF refused /\ AfterHandler(j) = "idle" THEN Idle
                ELSE [j EXCEPT !.pc = IF refused THEN "after" ELSE "act",
                               !.status = IF refused THEN "AuthFailed" ELSE "none",
                               !.file = fetch /\ hash # NoFile,
                               !.hash = IF fetch THEN hash ELSE Zeros,
                               !.state = IF (fetch /\ hash # NoFile) \/ j.req.method = "SetPolicyAsRoot"
                                         THEN state ELSE Fresh]
<1>1. j.pc = "read" /\ UNCHANGED <<aa, crypt, hash, state, admin, failures, causes>>
      /\ job' = [job EXCEPT ![t] = v]
  BY DEF Read, Stay
<1>2. j \in Busy  BY <1>1, AtWork
<1>3. hash \in HashFile /\ state \in StateFile /\ state.failed <= failures /\ failures \in Nat
  BY DEF Inv, StateOK, AuthTypeOK, DisabledForACause
<1>4. CASE v = Idle  BY <1>1, <1>4, OnlyJobs DEF JobOK
<1>5. CASE v # Idle
  <2> DEFINE pc == IF refused THEN "after" ELSE "act"
             status == IF refused THEN "AuthFailed" ELSE "none"
             file == fetch /\ hash # NoFile
             h == IF fetch THEN hash ELSE Zeros
             s == IF (fetch /\ hash # NoFile) \/ j.req.method = "SetPolicyAsRoot" THEN state ELSE Fresh
  <2>1. v = [j EXCEPT !.pc = pc, !.status = status, !.file = file, !.hash = h, !.state = s]  BY <1>5
  <2>2. pc \in {"after", "act"} /\ status \in {"AuthFailed", "none"} /\ file \in BOOLEAN  OBVIOUS
  <2>3. h \in HashFile /\ s \in StateFile /\ s.failed <= failures  BY <1>3, ZerosOK, FreshOK
  <2> HIDE DEF v, pc, status, file, h, s, j
  <2>4. v \in Busy  BY <1>2, <2>1, <2>2, <2>3 DEF Busy, Statuses
  <2>5. v.pc = pc /\ v.status = status /\ v.state = s  BY <1>2, <2>1 DEF Busy
  <2>6. JobOK(v, failures, causes, hash)  BY <2>2, <2>3, <2>4, <2>5 DEF JobOK
  <2> QED BY <1>1, <2>6, OnlyJobs DEF j
<1> QED BY <1>4, <1>5

\* After the act a request has its status, and no hash; what it wrote is there.
LEMMA Acted ==
  ASSUME LocalAuthAssumption, Inv, NEW t \in AuthThreads, job[t].pc = "act",
         NEW status \in Statuses, NEW counted \in BOOLEAN, NEW file \in BOOLEAN,
         NEW s \in StateFile, s.failed <= failures,
         job' = [job EXCEPT ![t] = [@ EXCEPT !.pc = "finish", !.status = status, !.counted = counted,
                                             !.file = file, !.state = s, !.hash = Zeros]],
         hash' = hash \/ (hash' \in HashFile /\ hash' # NoFile),
         state' = state \/ (state' \in StateFile /\ state'.failed <= failures),
         UNCHANGED <<aa, crypt, admin, failures, causes>>
  PROVE  Inv'
<1> DEFINE j == job[t]
           v == [j EXCEPT !.pc = "finish", !.status = status, !.counted = counted,
                          !.file = file, !.state = s, !.hash = Zeros]
<1>1. j \in Busy  BY AtWork
<1>2. failures \in Nat /\ hash \in HashFile /\ state \in StateFile /\ state.failed <= failures
  BY DEF Inv, StateOK, AuthTypeOK, DisabledForACause
<1>3. job' = [job EXCEPT ![t] = v]  OBVIOUS
<1> HIDE DEF j
<1>4. v \in Busy  BY <1>1, ZerosOK DEF Busy
<1>5. v.pc = "finish" /\ v.status = status /\ v.state = s  BY <1>1 DEF Busy
<1> HIDE DEF v
<1>6. JobOK(v, failures', causes', hash')  BY <1>4, <1>5 DEF JobOK, Statuses
<1>7. Jobs' /\ DOMAIN job' = AuthThreads
  <2>1. failures <= failures' /\ failures' \in Nat /\ causes \subseteq causes'  BY <1>2
  <2>2. hash # NoFile => hash' # NoFile  OBVIOUS
  <2> QED BY <1>3, <1>6, <2>1, <2>2, JobsStep DEF Inv
<1>8. hash' \in HashFile /\ state' \in StateFile /\ state'.failed <= failures  BY <1>2
<1>9. StateOK'  BY <1>7, <1>8 DEF Inv, StateOK, AuthTypeOK
<1>10. DisabledForACause' /\ VerifierKept'  BY <1>8 DEF Inv, DisabledForACause, VerifierKept
<1> QED BY <1>7, <1>9, <1>10 DEF Inv

\* Becomes, with the file read or not.
LEMMA Becoming ==
  ASSUME LocalAuthAssumption, Inv, NEW t \in AuthThreads, job[t].pc = "act",
         NEW status \in Statuses, NEW counted \in BOOLEAN,
         NEW s \in StateFile, s.failed <= failures, Becomes(t, status, counted, s),
         hash' = hash \/ (hash' \in HashFile /\ hash' # NoFile),
         state' = state \/ (state' \in StateFile /\ state'.failed <= failures),
         UNCHANGED <<aa, crypt, admin, failures, causes>>
  PROVE  Inv'
<1>1. job[t] \in Busy  BY AtWork
<1>2. job[t].file \in BOOLEAN  BY <1>1 DEF Busy
<1>3. job' = [job EXCEPT ![t] = [@ EXCEPT !.pc = "finish", !.status = status, !.counted = counted,
                                          !.file = job[t].file, !.state = s, !.hash = Zeros]]
  <2>1. [job[t] EXCEPT !.pc = "finish", !.status = status, !.counted = counted, !.state = s, !.hash = Zeros]
        = [job[t] EXCEPT !.pc = "finish", !.status = status, !.counted = counted,
                         !.file = job[t].file, !.state = s, !.hash = Zeros]
    BY <1>1 DEF Busy
  <2> QED BY <2>1 DEF Becomes
<1> QED BY <1>2, <1>3, Acted

\* A request's own data.
LEMMA OfRequest ==
  ASSUME NEW j \in Busy
  PROVE  /\ j.req.old \in Passwords /\ j.req.new \in Passwords
         /\ j.hash \in HashFile /\ j.state \in StateFile /\ j.counted \in BOOLEAN /\ j.file \in BOOLEAN
BY DEF Busy, Requests

LEMMA RefuseInv ==
  ASSUME LocalAuthAssumption, Inv, NEW t \in AuthThreads, job[t].pc = "act",
         NEW status \in Statuses, NEW counted \in BOOLEAN, Refuse(t, status, counted),
         UNCHANGED <<aa, crypt, admin, failures, causes>>
  PROVE  Inv'
<1>1. job[t] \in Busy /\ job[t].state.failed <= failures  BY AtWork
<1>2. job[t].state \in StateFile  BY <1>1, OfRequest
<1>3. Becomes(t, status, counted, job[t].state) /\ UNCHANGED <<hash, state>>  BY DEF Refuse
<1> QED BY <1>1, <1>2, <1>3, Becoming

LEMMA LoginInv ==
  ASSUME LocalAuthAssumption, Inv, NEW t \in AuthThreads, NEW ok \in BOOLEAN, Login(t, ok)
  PROVE  Inv'
<1> DEFINE j == job[t]
           made == Generate(j.req.old, NewList(j))
<1>1. job[t].pc = "act" /\ UNCHANGED <<aa, crypt, admin, failures, causes>>  BY DEF Login, Stay
<1>2. CASE Refuse(t, "AuthFailed", TRUE)  BY <1>1, <1>2, RefuseInv DEF Statuses
<1>3. CASE /\ IF made = j.hash THEN UNCHANGED hash /\ ok ELSE WriteShadowHash(made, ok)
           /\ \E s \in (IF ok THEN {"ok"} ELSE {"ok", "AuthFailed"}) : Becomes(t, s, TRUE, j.state)
           /\ UNCHANGED state
  <2>1. j \in Busy /\ j.state.failed <= failures  BY <1>1, AtWork
  <2>2. j.req.old \in Passwords /\ j.state \in StateFile  BY <2>1, OfRequest
  <2>3. NewList(j) \in BOOLEAN  BY DEF NewList, ListNT
  <2>4. made \in HashFile /\ made # NoFile  BY <2>2, <2>3, MadeOfPassword
  <2> HIDE DEF made
  <2>5. hash' = hash \/ (hash' \in HashFile /\ hash' # NoFile)  BY <1>3, <2>4 DEF WriteShadowHash
  <2>6. PICK s \in Statuses : Becomes(t, s, TRUE, j.state)  BY <1>3 DEF Statuses
  <2> QED BY <1>1, <1>3, <2>1, <2>2, <2>5, <2>6, Becoming
<1>4. Refuse(t, "AuthFailed", TRUE)
      \/ /\ IF made = j.hash THEN UNCHANGED hash /\ ok ELSE WriteShadowHash(made, ok)
         /\ \E s \in (IF ok THEN {"ok"} ELSE {"ok", "AuthFailed"}) : Becomes(t, s, TRUE, j.state)
         /\ UNCHANGED state
  BY DEF Login
<1> QED BY <1>2, <1>3, <1>4

LEMMA ChangeInv ==
  ASSUME LocalAuthAssumption, Inv, NEW t \in AuthThreads, NEW ok \in BOOLEAN, Change(t, ok)
  PROVE  Inv'
<1> DEFINE j == job[t]
           made == Generate(j.req.new, ListNT(j.via))
           kept == [j.state EXCEPT !.newPw = FALSE]
<1>1. job[t].pc = "act" /\ UNCHANGED <<aa, crypt, admin, failures, causes>>  BY DEF Change, Stay
<1>2. j \in Busy /\ j.state.failed <= failures  BY <1>1, AtWork
<1>3. j.req.new \in Passwords /\ j.state \in StateFile /\ j.file \in BOOLEAN  BY <1>2, OfRequest
<1>4. kept \in StateFile /\ kept.failed <= failures  BY <1>2, <1>3 DEF StateFile
<1>5. made \in HashFile /\ made # NoFile
  <2>1. ListNT(j.via) \in BOOLEAN  BY DEF ListNT
  <2> QED BY <1>3, <2>1, MadeOfPassword
<1>6. state \in StateFile /\ state.failed <= failures  BY DEF Inv, StateOK, AuthTypeOK, DisabledForACause
<1>7. \/ \E counted \in BOOLEAN : Refuse(t, "AuthFailed", counted)
      \/ Refuse(t, "TooShort", TRUE)
      \/ /\ WriteShadowHash(made, ok) /\ UNCHANGED state
         /\ \/ Becomes(t, IF ok THEN "ok" ELSE "AuthFailed", TRUE, kept)
            \/ KerberosReads(t)
            \/ Becomes(t, "AuthFailed", TRUE, kept)
  <2>1. (j.req.method = "ChangePasswd") \in BOOLEAN  OBVIOUS
  <2> QED BY <2>1, Zenon DEF Change
<1>8. CASE \E counted \in BOOLEAN : Refuse(t, "AuthFailed", counted)  BY <1>1, <1>8, RefuseInv DEF Statuses
<1>9. CASE Refuse(t, "TooShort", TRUE)  BY <1>1, <1>9, RefuseInv DEF Statuses
<1>10. CASE WriteShadowHash(made, ok) /\ UNCHANGED state
  <2>1. hash' = hash \/ (hash' \in HashFile /\ hash' # NoFile)
    <3> HIDE DEF made
    <3> QED BY <1>5, <1>10 DEF WriteShadowHash
  <2>2. CASE \E s \in Statuses : Becomes(t, s, TRUE, kept)
    <3> HIDE DEF kept
    <3> QED BY <1>1, <1>4, <1>10, <2>1, <2>2, Becoming
  <2>3. CASE KerberosReads(t)
    <3>1. PICK s \in {"ok", "PermissionError"} :
            job' = [job EXCEPT ![t] = [@ EXCEPT !.pc = "finish", !.status = s, !.file = TRUE,
                                                !.state = state, !.hash = Zeros]]
      BY <2>3 DEF KerberosReads
    <3>2. j.counted \in BOOLEAN  BY <1>2, OfRequest
    <3>3. [j EXCEPT !.pc = "finish", !.status = s, !.file = TRUE, !.state = state, !.hash = Zeros]
          = [j EXCEPT !.pc = "finish", !.status = s, !.counted = j.counted,
                      !.file = TRUE, !.state = state, !.hash = Zeros]
      BY <1>2 DEF Busy
    <3>4. s \in Statuses  BY DEF Statuses
    <3>5. job' = [job EXCEPT ![t] = [@ EXCEPT !.pc = "finish", !.status = s, !.counted = job[t].counted,
                                              !.file = TRUE, !.state = state, !.hash = Zeros]]
      BY <3>1, <3>3
    <3> QED BY <1>1, <1>6, <1>10, <2>1, <3>2, <3>4, <3>5, Acted
  <2>4. CASE Becomes(t, IF ok THEN "ok" ELSE "AuthFailed", TRUE, kept)
    <3>1. (IF ok THEN "ok" ELSE "AuthFailed") \in Statuses  BY DEF Statuses
    <3> QED BY <2>2, <2>4, <3>1
  <2>5. CASE Becomes(t, "AuthFailed", TRUE, kept)
    <3>1. "AuthFailed" \in Statuses  BY DEF Statuses
    <3> QED BY <2>2, <2>5, <3>1
  <2> QED BY <1>7, <1>8, <1>9, <2>3, <2>4, <2>5
<1> QED BY <1>7, <1>8, <1>9, <1>10

LEMMA SetDigestInv ==
  ASSUME LocalAuthAssumption, Inv, NEW t \in AuthThreads, NEW ok \in BOOLEAN, SetDigest(t, ok)
  PROVE  Inv'
<1> DEFINE j == job[t]
           h == CASE j.req.method = "WriteSecureHash" -> [Zeros EXCEPT !.salted = Foreign]
                  [] OTHER -> [j.hash EXCEPT !.nt = Foreign]
           status == IF ok THEN "ok" ELSE "AuthFailed"
<1>1. job[t].pc = "act" /\ UNCHANGED <<aa, crypt, admin, failures, causes>>  BY DEF SetDigest, Stay
<1>2. j \in Busy /\ j.state.failed <= failures  BY <1>1, AtWork
<1>3. j.hash \in HashFile /\ j.state \in StateFile  BY <1>2, OfRequest
<1>4. Foreign # None  BY DEF LocalAuthAssumption
<1>5. h \in HashFile /\ h # NoFile
  <2> DEFINE secure == [Zeros EXCEPT !.salted = Foreign]
             digest == [j.hash EXCEPT !.nt = Foreign]
  <2>1. secure \in HashFile /\ secure.salted = Foreign  BY ZerosOK DEF HashFile, Zeros
  <2>2. digest \in HashFile /\ digest.nt = Foreign  BY <1>3 DEF HashFile
  <2>3. NoFile.salted = None /\ NoFile.nt = None  BY DEF NoFile, Zeros
  <2> HIDE DEF secure, digest
  <2>4. h \in {secure, digest}  BY DEF secure, digest
  <2> HIDE DEF h
  <2> QED BY <1>4, <2>1, <2>2, <2>3, <2>4
<1>6. \/ Refuse(t, "PermissionError", FALSE)
      \/ WriteShadowHash(h, ok) /\ Becomes(t, status, TRUE, j.state) /\ UNCHANGED state
  BY DEF SetDigest
<1>7. CASE Refuse(t, "PermissionError", FALSE)  BY <1>1, <1>7, RefuseInv DEF Statuses
<1>8. CASE WriteShadowHash(h, ok) /\ Becomes(t, status, TRUE, j.state) /\ UNCHANGED state
  <2>1. status \in Statuses  BY DEF Statuses
  <2> HIDE DEF h, status
  <2>2. hash' = hash \/ (hash' \in HashFile /\ hash' # NoFile)  BY <1>5, <1>8 DEF WriteShadowHash
  <2> QED BY <1>1, <1>2, <1>3, <1>8, <2>1, <2>2, Becoming
<1> QED BY <1>6, <1>7, <1>8

LEMMA SetPolicyInv ==
  ASSUME LocalAuthAssumption, Inv, NEW t \in AuthThreads, SetPolicy(t)
  PROVE  Inv'
<1> DEFINE j == job[t]
<1>1. job[t].pc = "act" /\ UNCHANGED <<aa, crypt, admin, failures, causes>>  BY DEF SetPolicy, Stay
<1>2. j \in Busy /\ j.state.failed <= failures  BY <1>1, AtWork
<1>3. j.state \in StateFile  BY <1>2, OfRequest
<1>4. CASE Refuse(t, "PermissionError", TRUE)  BY <1>1, <1>4, RefuseInv DEF Statuses
<1>5. CASE /\ \E new \in BOOLEAN : state' = [j.state EXCEPT !.newPw = new]
           /\ Becomes(t, "ok", TRUE, Fresh)
           /\ UNCHANGED hash
  <2>1. PICK new \in BOOLEAN : state' = [j.state EXCEPT !.newPw = new]  BY <1>5
  <2>2. state' \in StateFile /\ state'.failed <= failures  BY <1>2, <1>3, <2>1 DEF StateFile
  <2>3. Fresh \in StateFile /\ Fresh.failed <= failures  BY FreshOK DEF Inv, StateOK
  <2>4. "ok" \in Statuses  BY DEF Statuses
  <2> QED BY <1>1, <1>5, <2>2, <2>3, <2>4, Becoming
<1> QED BY <1>4, <1>5 DEF SetPolicy

\* What the end counts is a failure of this request or one read before.
LEMMA Counting ==
  ASSUME LocalAuthAssumption, Inv, NEW t \in AuthThreads, NEW rule \in BOOLEAN, NEW reset \in BOOLEAN,
         Finish(t, rule, reset)
  PROVE  /\ failures' \in Nat /\ failures <= failures'
         /\ state' \in StateFile /\ state'.failed <= failures'
         /\ causes \subseteq causes' /\ causes' \subseteq {"network", "policy"}
         /\ Result(job[t], rule) = "AccountDisabled" => ForACause'
         /\ Result(job[t], rule) \in Statuses \cup {"AccountDisabled", "NewPasswordRequired"}
<1> DEFINE j == job[t]
           tested == Tested(j).failed
           count == CASE admin -> j.state.failed
                      [] ~admin /\ ((Disables(j, rule) /\ reset) \/ Result(j, rule) = "ok") -> 0
                      [] OTHER -> tested
<1>1. j.pc = "finish"  BY DEF Finish
<1>2. j \in Busy /\ j.state.failed <= failures /\ j.status \in Statuses  BY <1>1, AtWork
<1>3. j.state \in StateFile /\ j.counted \in BOOLEAN  BY <1>2, OfRequest
<1>4. failures \in Nat /\ state \in StateFile /\ state.failed <= failures /\ admin \in BOOLEAN
  BY DEF Inv, StateOK, AuthTypeOK, DisabledForACause
<1>5. failures' = IF ~admin /\ j.counted /\ j.status = "AuthFailed" THEN failures + 1 ELSE failures
  BY DEF Finish
<1>6. failures' \in Nat /\ failures <= failures'  BY <1>4, <1>5
<1>7. j.state.failed \in Nat  BY <1>3 DEF StateFile
<1>8. tested = IF j.counted /\ j.status = "AuthFailed" THEN j.state.failed + 1 ELSE j.state.failed
  BY <1>3 DEF Tested, StateFile
<1> HIDE DEF tested
<1>9. tested \in Nat /\ (~admin => tested <= failures')  BY <1>2, <1>4, <1>5, <1>7, <1>8
<1>10. count \in Nat /\ count <= failures'  BY <1>2, <1>4, <1>6, <1>7, <1>9
<1>11. state' = IF j.file /\ Ended(j, rule, count) # Fresh THEN Ended(j, rule, count) ELSE state  BY DEF Finish, tested
<1>12. Ended(j, rule, count) \in StateFile /\ Ended(j, rule, count).failed = count
  <2>1. j.state.dated \in BOOLEAN  BY <1>3 DEF StateFile
  <2>2. (j.state.dated \/ Result(j, rule) \in {"ok", "NewPasswordRequired"}) \in BOOLEAN  OBVIOUS
  <2> HIDE DEF count
  <2> QED BY <1>3, <1>10, <2>2 DEF Ended, StateFile
<1>13. state' \in StateFile /\ state'.failed <= failures'
  <2>1. state.failed \in Nat  BY <1>4 DEF StateFile
  <2>2. state.failed <= failures'  BY <1>4, <1>6, <2>1
  <2> HIDE DEF count
  <2> QED BY <1>4, <1>10, <1>11, <1>12, <2>2
<1>14. ASSUME Result(j, rule) = "AccountDisabled" PROVE ForACause'
  <2>1. ~admin /\ Disables(j, rule)  BY <1>2, <1>14 DEF Result, Statuses
  <2>2. rule \/ tested >= MaxFailed  BY <2>1 DEF Disables, tested
  <2>3. MaxFailed \in Nat  BY DEF LocalAuthAssumption
  <2>4. rule => "policy" \in causes'  BY DEF Finish
  <2> QED BY <1>6, <1>9, <2>1, <2>2, <2>3, <2>4 DEF ForACause
<1>15. Result(j, rule) \in Statuses \cup {"AccountDisabled", "NewPasswordRequired"}  BY <1>2 DEF Result
<1>16. causes \subseteq causes' /\ causes' \subseteq {"network", "policy"}  BY DEF Finish, Inv, StateOK
<1> QED BY <1>6, <1>13, <1>14, <1>15, <1>16

LEMMA FinishInv ==
  ASSUME LocalAuthAssumption, Inv, NEW t \in AuthThreads, NEW rule \in BOOLEAN, NEW reset \in BOOLEAN,
         Finish(t, rule, reset)
  PROVE  Inv'
<1> DEFINE j == job[t]
           v == IF AfterHandler(j) = "idle" THEN Idle ELSE [j EXCEPT !.pc = "after", !.status = Result(j, rule)]
<1>0. /\ failures' \in Nat /\ failures <= failures'
      /\ state' \in StateFile /\ state'.failed <= failures'
      /\ causes \subseteq causes' /\ causes' \subseteq {"network", "policy"}
      /\ Result(j, rule) = "AccountDisabled" => ForACause'
      /\ Result(j, rule) \in Statuses \cup {"AccountDisabled", "NewPasswordRequired"}
  BY Counting
<1>1. /\ j.pc = "finish" /\ UNCHANGED <<crypt, hash, admin>>
      /\ aa' = IF Result(j, rule) = "AccountDisabled" /\ Enabled(j.via) = "shadow" THEN AAtoDisabled ELSE aa
      /\ job' = [job EXCEPT ![t] = v]
  BY DEF Finish, Stay
<1>2. j \in Busy /\ j.state.failed <= failures  BY <1>1, AtWork
<1>3. JobOK(v, failures', causes', hash')
  <2>1. CASE AfterHandler(j) = "idle"  BY <2>1 DEF JobOK
  <2>2. CASE AfterHandler(j) # "idle"
    <3> DEFINE result == Result(j, rule)
    <3>1. v = [j EXCEPT !.pc = "after", !.status = result]  BY <2>2
    <3>2. j.state.failed \in Nat /\ failures \in Nat  BY <1>2, OfRequest DEF StateFile, Inv, StateOK
    <3>3. j.state.failed <= failures'  BY <1>0, <1>2, <3>2
    <3> HIDE DEF v, result
    <3>4. result \in Statuses \cup {"AccountDisabled", "NewPasswordRequired"}  BY <1>0 DEF result
    <3>5. v \in Busy  BY <1>2, <3>1, <3>4 DEF Busy
    <3>6. v.state = j.state /\ v.pc = "after" /\ v.status = result  BY <1>2, <3>1 DEF Busy
    <3> HIDE DEF j
    <3> QED BY <1>0, <3>3, <3>5, <3>6 DEF JobOK, ForACause, result
  <2> QED BY <2>1, <2>2
<1>4. hash # NoFile => hash' # NoFile  BY <1>1
<1>5. Jobs' /\ DOMAIN job' = AuthThreads
  <2> HIDE DEF v, j
  <2> QED BY <1>0, <1>1, <1>3, <1>4, JobsStep DEF Inv
<1>6. aa \in {"basic", "shadow", "cached", "dshadow", "dcached"}  BY DEF Inv, StateOK, AuthTypeOK
<1>7. \/ aa' = aa
      \/ ForACause' /\ aa = "shadow" /\ aa' = "dshadow"
      \/ ForACause' /\ aa = "cached" /\ aa' = "dcached"
  BY <1>0, <1>1, <1>6 DEF AAtoDisabled
<1>8. StateOK'  BY <1>0, <1>1, <1>5, <1>6, <1>7 DEF Inv, StateOK, AuthTypeOK
<1>9. DisabledForACause'
  <2>1. failures \in Nat /\ MaxFailed \in Nat  BY DEF Inv, StateOK, LocalAuthAssumption
  <2>2. failures >= MaxFailed => failures' >= MaxFailed  BY <1>0, <2>1
  <2> QED BY <1>0, <1>1, <1>7, <2>2 DEF Inv, DisabledForACause, ForACause
<1>10. VerifierKept'  BY <1>1, <1>7 DEF Inv, VerifierKept
<1> QED BY <1>5, <1>8, <1>9, <1>10 DEF Inv

\* A thread that is done, having written a hash or not, and the authority changed or not.
LEMMA Leaves ==
  ASSUME LocalAuthAssumption, Inv, NEW t \in AuthThreads, job' = [job EXCEPT ![t] = Idle],
         hash' = hash \/ (hash' \in HashFile /\ hash' # NoFile),
         \/ aa' = aa
         \/ aa' = "dcached" /\ ForACause
         \/ aa' = "cached",
         UNCHANGED <<crypt, state, admin, failures, causes>>
  PROVE  Inv'
<1>1. failures \in Nat  BY DEF Inv, StateOK
<1>2. JobOK(Idle, failures', causes', hash')  BY DEF JobOK
<1>3. failures <= failures' /\ failures' \in Nat /\ causes \subseteq causes' /\ (hash # NoFile => hash' # NoFile)  BY <1>1
<1>4. Jobs' /\ DOMAIN job' = AuthThreads  BY <1>2, <1>3, JobsStep DEF Inv
<1>5. StateOK'  BY <1>4 DEF Inv, StateOK, AuthTypeOK
<1>6. DisabledForACause' /\ VerifierKept'  BY DEF Inv, DisabledForACause, VerifierKept, ForACause
<1> QED BY <1>4, <1>5, <1>6 DEF Inv

LEMMA AfterInv ==
  ASSUME LocalAuthAssumption, Inv, NEW t \in AuthThreads, NEW ok \in BOOLEAN, After(t, ok)
  PROVE  Inv'
<1> DEFINE j == job[t]
           made == Generate(Second(j.req), ListNT(j.via))
<1>1. /\ j.pc = "after" /\ job' = [job EXCEPT ![t] = Idle]
      /\ UNCHANGED <<crypt, state, admin, failures, causes>>
      /\ WriteShadowHash(made, ok) \/ UNCHANGED hash
      /\ aa' = CASE j.via = "cached" /\ Final(j, ok) = "AccountDisabled" -> "dcached"
                 [] j.via = "dcached" /\ j.net = "ok" /\ Final(j, ok) = "ok" /\ j.req.method = "Clear" -> "cached"
                 [] OTHER -> aa
  BY DEF After, Stay
<1>2. j \in Busy /\ (j.status = "AccountDisabled" => ForACause)  BY <1>1, AtWork
<1>3. made \in HashFile /\ made # NoFile
  <2>1. Second(j.req) \in Passwords  BY <1>2, OfRequest DEF Second
  <2>2. ListNT(j.via) \in BOOLEAN  BY DEF ListNT
  <2> QED BY <2>1, <2>2, MadeOfPassword
<1>4. Final(j, ok) = "AccountDisabled" => ForACause
  <2>1. Final(j, ok) = "AccountDisabled" => j.status = "AccountDisabled"  BY DEF Final
  <2> QED BY <1>2, <2>1
<1> HIDE DEF made, j
<1>5. hash' = hash \/ (hash' \in HashFile /\ hash' # NoFile)  BY <1>1, <1>3 DEF WriteShadowHash
<1>6. aa' = aa \/ (aa' = "dcached" /\ ForACause) \/ aa' = "cached"  BY <1>1, <1>4
<1> QED BY <1>1, <1>5, <1>6, Leaves

LEMMA BasicAuthInv ==
  ASSUME LocalAuthAssumption, Inv, NEW t \in AuthThreads, BasicAuth(t)
  PROVE  Inv'
<1>1. job[t].pc = "crypt" /\ UNCHANGED <<aa, crypt, hash, state, admin, failures, causes>>
  BY DEF BasicAuth, Stay
<1>2. job[t] \in Busy /\ JobOK(job[t], failures, causes, hash)  BY <1>1, AtWork
<1>3. PICK v : v \in {Idle, [job[t] EXCEPT !.pc = "write"]} /\ job' = [job EXCEPT ![t] = v]
  <2>1. Go(t, "write") \/ job' = [job EXCEPT ![t] = Idle]  BY DEF BasicAuth
  <2>2. CASE Go(t, "write")
    <3>1. job' = [job EXCEPT ![t] = [job[t] EXCEPT !.pc = "write"]]  BY <2>2 DEF Go
    <3> QED BY <3>1
  <2> QED BY <2>1, <2>2
<1>4. JobOK(v, failures, causes, hash)
  <2>1. JobOK(Idle, failures, causes, hash)  BY DEF JobOK
  <2> QED BY <1>2, <1>3, <2>1, Moves
<1> QED BY <1>1, <1>3, <1>4, OnlyJobs

\* The steps of a migration once the hash file is written.
LEMMA Written ==
  ASSUME LocalAuthAssumption, Inv, NEW t \in AuthThreads, job[t].pc \in {"write", "tag", "strip"},
         NEW pc \in {"tag", "strip", "mark"}, NEW file, file # NoFile
  PROVE  JobOK([job[t] EXCEPT !.pc = pc], failures, causes, file)
<1> DEFINE j == job[t]
           v == [j EXCEPT !.pc = pc]
<1>1. j \in Busy /\ j.state.failed <= failures /\ (j.status = "AccountDisabled" => ForACause)
  BY AtWork
<1> HIDE DEF j
<1>2. v \in Busy /\ v.state = j.state /\ v.status = j.status /\ v.pc = pc  BY <1>1 DEF Busy
<1> HIDE DEF v
<1>3. JobOK(v, failures, causes, file)  BY <1>1, <1>2 DEF JobOK, ForACause
<1> QED BY <1>3 DEF v, j

LEMMA MigrateInv ==
  ASSUME LocalAuthAssumption, Inv, NEW t \in AuthThreads,
         (\E ok \in BOOLEAN : MigrateWrite(t, ok)) \/ MigrateTag(t) \/ MigrateStrip(t) \/ MigrateMark(t)
  PROVE  Inv'
<1>0. failures \in Nat /\ failures <= failures  BY DEF Inv, StateOK
<1>1. CASE \E ok \in BOOLEAN : MigrateWrite(t, ok)
  <2> PICK ok \in BOOLEAN : MigrateWrite(t, ok)  BY <1>1
  <2> DEFINE made == Generate(Migrates(job[t].req), FALSE)
  <2>1. /\ job[t].pc = "write" /\ WriteShadowHash(made, ok)
        /\ UNCHANGED <<aa, crypt, state, admin, failures, causes>>
        /\ IF ok THEN Go(t, "tag") ELSE job' = [job EXCEPT ![t] = Idle]
    BY DEF MigrateWrite, Stay, AfterWrite
  <2>2. job[t] \in Busy  BY <2>1, AtWork
  <2>3. Migrates(job[t].req) \in Passwords  BY <2>2, OfRequest DEF Migrates
  <2>4. made \in HashFile /\ made # NoFile  BY <2>3, MadeOfPassword
  <2> HIDE DEF made
  <2>5. CASE ~ok
    <3>1. hash' = hash /\ job' = [job EXCEPT ![t] = Idle]  BY <2>1, <2>5 DEF WriteShadowHash
    <3> QED BY <2>1, <3>1, Leaves
  <2>6. CASE ok
    <3>1. hash' = made /\ job' = [job EXCEPT ![t] = [job[t] EXCEPT !.pc = "tag"]]
      BY <2>1, <2>6 DEF WriteShadowHash, Go
    <3>2. JobOK([job[t] EXCEPT !.pc = "tag"], failures, causes, made)  BY <2>1, <2>4, Written
    <3>3. hash # NoFile => hash' # NoFile  BY <2>4, <3>1
    <3>4. Jobs' /\ DOMAIN job' = AuthThreads
      <4> DEFINE v == [job[t] EXCEPT !.pc = "tag"]
      <4>1. JobOK(v, failures', causes', hash') /\ job' = [job EXCEPT ![t] = v]  BY <2>1, <3>1, <3>2
      <4>2. failures <= failures' /\ failures' \in Nat /\ causes \subseteq causes'  BY <1>0, <2>1
      <4> HIDE DEF v
      <4> QED BY <3>3, <4>1, <4>2, JobsStep DEF Inv
    <3>5. StateOK'  BY <2>1, <2>4, <3>1, <3>4 DEF Inv, StateOK, AuthTypeOK
    <3>6. DisabledForACause' /\ VerifierKept'  BY <2>1, <2>4, <3>1 DEF Inv, DisabledForACause, VerifierKept
    <3> QED BY <3>4, <3>5, <3>6 DEF Inv
  <2> QED BY <2>5, <2>6
<1>2. CASE MigrateTag(t) \/ MigrateStrip(t) \/ MigrateMark(t)
  <2>1. job[t].pc \in {"tag", "strip", "mark"} /\ UNCHANGED <<hash, state, admin, failures, causes>>
    BY <1>2 DEF MigrateTag, MigrateStrip, MigrateMark, Stay
  <2>2. hash # NoFile  BY <2>1, AtWork
  <2>3. aa' \in {aa, "shadow"} /\ crypt' \in {crypt, None, Marker}
    BY <1>2 DEF MigrateTag, MigrateStrip, MigrateMark
  <2>4. PICK v : JobOK(v, failures, causes, hash) /\ job' = [job EXCEPT ![t] = v]
    <3>1. CASE MigrateTag(t)
      <4>1. job[t].pc = "tag" /\ job' = [job EXCEPT ![t] = [job[t] EXCEPT !.pc = "strip"]]
        BY <3>1 DEF MigrateTag, Go
      <4> QED BY <2>2, <4>1, Written
    <3>2. CASE MigrateStrip(t)
      <4>1. job[t].pc = "strip" /\ job' = [job EXCEPT ![t] = [job[t] EXCEPT !.pc = "mark"]]
        BY <3>2 DEF MigrateStrip, Go
      <4> QED BY <2>2, <4>1, Written
    <3>3. CASE MigrateMark(t)
      <4>1. job' = [job EXCEPT ![t] = Idle]  BY <3>3 DEF MigrateMark
      <4>2. JobOK(Idle, failures, causes, hash)  BY DEF JobOK
      <4> QED BY <4>1, <4>2
    <3> QED BY <1>2, <3>1, <3>2, <3>3
  <2>5. Jobs' /\ DOMAIN job' = AuthThreads
    <3>1. /\ failures <= failures' /\ failures' \in Nat /\ causes \subseteq causes' /\ (hash # NoFile => hash' # NoFile)
          /\ JobOK(v, failures', causes', hash')
      BY <1>0, <2>1, <2>4
    <3> QED BY <2>4, <3>1, JobsStep DEF Inv
  <2>6. StateOK'  BY <2>1, <2>3, <2>5 DEF Inv, StateOK, AuthTypeOK
  <2>7. DisabledForACause'  BY <2>1, <2>3 DEF Inv, DisabledForACause
  <2>8. VerifierKept'  BY <2>1, <2>2 DEF VerifierKept
  <2> QED BY <2>5, <2>6, <2>7, <2>8 DEF Inv
<1> QED BY <1>1, <1>2

LEMMA StopInv ==
  ASSUME Inv, Stop
  PROVE  Inv'
<1>1. job' = [t \in AuthThreads |-> Idle] /\ UNCHANGED <<aa, crypt, hash, state, admin, failures, causes>>
  BY DEF Stop, Stay
<1>2. Jobs'  BY <1>1 DEF Jobs, JobOK
<1>3. StateOK'  BY <1>1 DEF Inv, StateOK, AuthTypeOK
<1>4. DisabledForACause' /\ VerifierKept'  BY <1>1 DEF Inv, DisabledForACause, VerifierKept
<1> QED BY <1>2, <1>3, <1>4 DEF Inv

-----------------------------------------------------------------------------
\* Every step keeps all of it.

LEMMA NextInv ==
  ASSUME LocalAuthAssumption, Inv, [AuthNext]_authVars
  PROVE  Inv'
<1>1. CASE UNCHANGED authVars
  <2>1. UNCHANGED <<aa, crypt, hash, state, admin, failures, causes, job>>  BY <1>1 DEF authVars
  <2>2. Jobs' /\ StateOK'  BY <2>1 DEF Inv, Jobs, StateOK, AuthTypeOK
  <2> QED BY <2>1, <2>2 DEF Inv, DisabledForACause, VerifierKept
<1>2. CASE \E t \in AuthThreads, r \in Asked : Begin(t, r)  BY <1>2, BeginInv
<1>3. CASE \E t \in AuthThreads, found \in BOOLEAN : LocalCachedUserReachable(t, found)
  BY <1>3, LocalCachedUserReachableInv
<1>4. CASE \E t \in AuthThreads, a \in {"ok", "denied", "away", "disabled", "failed"} : Network(t, a)
  BY <1>4, NetworkInv
<1>5. CASE \E t \in AuthThreads : Read(t)  BY <1>5, ReadInv
<1>6. CASE \E t \in AuthThreads, ok \in BOOLEAN : Login(t, ok)  BY <1>6, LoginInv
<1>7. CASE \E t \in AuthThreads, ok \in BOOLEAN : Change(t, ok)  BY <1>7, ChangeInv
<1>8. CASE \E t \in AuthThreads, ok \in BOOLEAN : SetDigest(t, ok)  BY <1>8, SetDigestInv
<1>9. CASE \E t \in AuthThreads : SetPolicy(t)  BY <1>9, SetPolicyInv
<1>10. CASE \E t \in AuthThreads, rule, reset \in BOOLEAN : Finish(t, rule, reset)  BY <1>10, FinishInv
<1>11. CASE \E t \in AuthThreads, ok \in BOOLEAN : After(t, ok)  BY <1>11, AfterInv
<1>12. CASE \E t \in AuthThreads : BasicAuth(t)  BY <1>12, BasicAuthInv
<1>13. CASE \E t \in AuthThreads, ok \in BOOLEAN : MigrateWrite(t, ok)  BY <1>13, MigrateInv
<1>14. CASE \E t \in AuthThreads : MigrateTag(t)  BY <1>14, MigrateInv
<1>15. CASE \E t \in AuthThreads : MigrateStrip(t)  BY <1>15, MigrateInv
<1>16. CASE \E t \in AuthThreads : MigrateMark(t)  BY <1>16, MigrateInv
<1>17. CASE Stop  BY <1>17, StopInv
<1> QED BY <1>1, <1>2, <1>3, <1>4, <1>5, <1>6, <1>7, <1>8, <1>9, <1>10, <1>11, <1>12, <1>13, <1>14,
           <1>15, <1>16, <1>17 DEF AuthNext

(* An account is disabled only after as many failures as the policy allows,  *)
(* by another rule of the policy, or when its own directory said so, however *)
(* threads that read, count and write the one state file come in between     *)
(* each other (CDSLocalAuthHelper.cpp, the tail of DoShadowHashAuth).        *)
THEOREM CauseCorrect ==
  ASSUME LocalAuthAssumption
  PROVE  AuthSpec => []DisabledForACause
<1>1. AuthInit => Inv  BY InitInv
<1>2. Inv /\ [AuthNext]_authVars => Inv'  BY NextInv
<1>3. Inv => DisabledForACause  BY DEF Inv
<1> QED BY <1>1, <1>2, <1>3, PTL DEF AuthSpec

(* Wherever the daemon stops, and whatever writes failed, there is something *)
(* to verify a password with: the crypt password goes, and the authority     *)
(* changes, after the hash file is written                                   *)
(* (CDSLocalAuthHelper::MigrateToShadowHash).                                *)
THEOREM VerifierCorrect ==
  ASSUME LocalAuthAssumption
  PROVE  AuthSpec => []VerifierKept
<1>1. AuthInit => Inv  BY InitInv
<1>2. Inv /\ [AuthNext]_authVars => Inv'  BY NextInv
<1>3. Inv => VerifierKept  BY DEF Inv
<1> QED BY <1>1, <1>2, <1>3, PTL DEF AuthSpec
=============================================================================
