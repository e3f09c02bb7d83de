---------------------------- MODULE AccessProofs ----------------------------
(***************************************************************************)
(* Proofs about the credentials of an account (RefreshSessions), roles and *)
(* their delegation (Roles), the e-mail of accounts (AccountEmail) and     *)
(* sign-in through a provider (SsoLogin), for any number of requests in    *)
(* flight, of sessions, tokens, accounts, roles, permissions and logins.   *)
(***************************************************************************)
EXTENDS MCAccess, FiniteSetTheorems, TLAPS

-----------------------------------------------------------------------------
(***************************************************************************)
(* Refresh sessions.  What a request in flight holds is only as good as    *)
(* the check it made: the invariant says of each row, of each token and of *)
(* each request in flight how it stands to the sweeps and the condemned    *)
(* families, and that a family has one holder, a live row or a rotation    *)
(* that has yet to insert its successor.                                   *)
(***************************************************************************)
Rotating(q) == q.pc = "issue" /\ q.op = "refresh"

(* Row 1 has no family until it is rotated; till then none is numbered 1.  *)
Unlinked == session[Legacy].family = NoFamily

RowFits(s) ==
    /\ session[s].family <= s
    /\ session[s].family = NoFamily => s = Legacy
    /\ Unlinked => session[s].family # Legacy
    /\ Live(s) => session[s].epoch = account.sweeps \/ session[s].late
    /\ Live(s) /\ session[s].family \in account.condemned => session[s].late

TokenFits(t) ==
    ~ apitok[t].revoked => apitok[t].epoch = account.recoveries \/ apitok[t].late

RequestFits(q) ==
    /\ q.pc = "claim" => q.op = "refresh" /\ q.row \in DOMAIN session
    /\ q.pc = "reuse" => q.family \in DOMAIN session
    /\ q.pc = "issue" => q.op \in {"login", "refresh", "mint"}
    /\ Rotating(q) => q.family \in DOMAIN session
    /\ q.pc = "issue" /\ q.op # "refresh" => q.family = NoFamily
    /\ Unlinked /\ q.pc \in {"issue", "reuse"} => q.family # Legacy
    /\ q.pc = "issue" /\ q.op = "mint" => q.epoch = account.recoveries \/ q.crossed
    /\ q.pc = "issue" /\ q.op # "mint" => q.epoch = account.sweeps \/ q.crossed
    /\ Rotating(q) /\ q.family \in account.condemned => q.crossed

(* A family has one holder. *)
Unforked ==
    /\ \A s, t \in LiveRows : session[s].family = session[t].family => s = t
    /\ \A q, r \in SessionRequests :
         Rotating(req[q]) /\ Rotating(req[r]) /\ req[q].family = req[r].family => q = r
    /\ \A s \in LiveRows, r \in SessionRequests :
         Rotating(req[r]) => session[s].family # req[r].family

AccountFits ==
    /\ Legacy \in DOMAIN session
    /\ account.recoveries <= account.sweeps
    /\ account.condemned \subseteq DOMAIN session
    /\ Unlinked => Legacy \notin account.condemned

SessionInv ==
    /\ SessionTypeOK
    /\ AccountFits
    /\ \A s \in DOMAIN session : RowFits(s)
    /\ \A t \in DOMAIN apitok : TokenFits(t)
    /\ \A r \in SessionRequests : RequestFits(req[r])
    /\ Unforked

(* The session and token rows are numbered from one, within their bounds.  *)
LEMMA SessionDomains ==
  ASSUME SessionTypeOK
  PROVE  /\ \E n \in 0 .. MaxSessions : /\ DOMAIN session = 1 .. n
                                        /\ Cardinality(DOMAIN session) = n
         /\ \E n \in 0 .. MaxApiTokens : /\ DOMAIN apitok = 1 .. n
                                         /\ Cardinality(DOMAIN apitok) = n
<1> USE SessionBounds
<1>1. PICK n \in 0 .. MaxSessions : DOMAIN session = 1 .. n
  BY DEF SessionTypeOK
<1>2. PICK m \in 0 .. MaxApiTokens : DOMAIN apitok = 1 .. m
  BY DEF SessionTypeOK
<1>3. \A k \in Nat : Cardinality(1 .. k) = k
  <2> TAKE k \in Nat
  <2>1. Cardinality(1 .. k) = IF 1 > k THEN 0 ELSE k - 1 + 1
    BY FS_Interval
  <2> QED BY <2>1
<1> QED BY <1>1, <1>2, <1>3

(* A revoked session row keeps its lineage and is used up.                 *)
LEMMA RevokedRow ==
  ASSUME NEW row \in SessionRow
  PROVE  /\ Revoked(row) \in SessionRow
         /\ Revoked(row).state = "recent" /\ Revoked(row).family = row.family
<1> USE SessionBounds
<1>1. PICK a : a = [row EXCEPT !.state = "recent"]
  OBVIOUS
<1>2. PICK b : b = [a EXCEPT !.epoch = 0]
  OBVIOUS
<1>3. a \in SessionRow /\ a.state = "recent" /\ a.family = row.family
  BY <1>1 DEF SessionRow
<1>4. b \in SessionRow /\ b.state = "recent" /\ b.family = row.family
  BY <1>2, <1>3 DEF SessionRow
<1>5. Revoked(row) = [b EXCEPT !.late = FALSE]
  BY <1>1, <1>2 DEF Revoked
<1> QED BY <1>4, <1>5 DEF SessionRow

(* Marking a session row late changes nothing else of it.                  *)
LEMMA LateRow ==
  ASSUME NEW row \in SessionRow, NEW raced \in BOOLEAN
  PROVE  /\ Late(row, raced) \in SessionRow
         /\ Late(row, raced).state = row.state /\ Late(row, raced).family = row.family
         /\ Late(row, raced).epoch = row.epoch
         /\ Late(row, raced).late <=> row.late \/ raced
<1>1. Late(row, raced) \in SessionRow
  BY DEF Late, SessionRow
<1>2. /\ Late(row, raced).state = row.state /\ Late(row, raced).family = row.family
      /\ Late(row, raced).epoch = row.epoch
  BY DEF Late, SessionRow
<1>3. Late(row, raced).late <=> row.late \/ raced
  BY DEF Late, SessionRow
<1> QED BY <1>1, <1>2, <1>3

(* Marking an API token late changes nothing else of it.                   *)
LEMMA LateToken ==
  ASSUME NEW row \in TokenRow, NEW raced \in BOOLEAN
  PROVE  /\ Late(row, raced) \in TokenRow
         /\ Late(row, raced).revoked <=> row.revoked
         /\ Late(row, raced).epoch = row.epoch
         /\ Late(row, raced).late <=> row.late \/ raced
<1>1. Late(row, raced) \in TokenRow
  BY DEF Late, TokenRow
<1>2. Late(row, raced).revoked <=> row.revoked
  BY DEF Late, TokenRow
<1>3. Late(row, raced).epoch = row.epoch
  BY DEF Late, TokenRow
<1>4. Late(row, raced).late <=> row.late \/ raced
  BY DEF Late, TokenRow
<1> QED BY <1>1, <1>2, <1>3, <1>4

(* Noting that a request was overtaken changes nothing else of it.         *)
LEMMA CrossedRequest ==
  ASSUME NEW q \in Request, NEW raced \in BOOLEAN
  PROVE  /\ Crossed(q, raced) \in Request
         /\ Crossed(q, raced).pc = q.pc /\ Crossed(q, raced).op = q.op
         /\ Crossed(q, raced).family = q.family /\ Crossed(q, raced).row = q.row
         /\ Crossed(q, raced).epoch = q.epoch
         /\ Crossed(q, raced).crossed <=> q.crossed \/ raced
<1>1. Crossed(q, raced) \in Request
  BY DEF Crossed, Request
<1>2. /\ Crossed(q, raced).pc = q.pc /\ Crossed(q, raced).op = q.op
      /\ Crossed(q, raced).family = q.family /\ Crossed(q, raced).row = q.row
      /\ Crossed(q, raced).epoch = q.epoch
  BY DEF Crossed, Request
<1>3. Crossed(q, raced).crossed <=> q.crossed \/ raced
  BY DEF Crossed, Request
<1> QED BY <1>1, <1>2, <1>3

(* A request slot not in use.                                              *)
LEMMA QuietRequest ==
  Quiet \in Request /\ Quiet.pc = "idle" /\ Quiet.family = NoFamily
BY SessionBounds DEF Quiet, Request, NoFamily

(* A slot not in use is owed nothing and rotates nothing.                  *)
LEMMA QuietFits == RequestFits(Quiet) /\ ~ Rotating(Quiet)
BY QuietRequest DEF RequestFits, Rotating

(* The invariant of the sessions holds at the start.                       *)
LEMMA SessionInitInv == SessionInit => SessionInv
<1> SUFFICES ASSUME SessionInit PROVE SessionInv
  OBVIOUS
<1> USE SessionBounds
<1>1. DOMAIN session = 1 .. 1 /\ DOMAIN apitok = 1 .. 0
  BY DEF SessionInit, Legacy
<1>2. /\ session[1] \in SessionRow /\ session[1].family = 0
      /\ session[1].state = "live" /\ session[1].epoch = 0
  BY DEF SessionInit, Legacy, NoFamily, SessionRow
<1>3. /\ account \in [active: BOOLEAN, sweeps: 0..MaxSweeps, recoveries: 0..MaxSweeps,
                      condemned: SUBSET (1..MaxSessions)]
      /\ account.sweeps = 0 /\ account.recoveries = 0 /\ account.condemned = {}
  BY DEF SessionInit
<1>4. req \in [SessionRequests -> Request] /\ \A r \in SessionRequests : req[r] = Quiet
  BY QuietRequest DEF SessionInit
<1>5. SessionTypeOK
  BY <1>1, <1>2, <1>3, <1>4, SMTT(40) DEF SessionTypeOK
<1>6. AccountFits
  BY <1>1, <1>3 DEF AccountFits, Legacy
<1>7. \A s \in DOMAIN session : RowFits(s)
  BY <1>1, <1>2, <1>3 DEF RowFits, Legacy, NoFamily
<1>8. \A t \in DOMAIN apitok : TokenFits(t)
  BY <1>1
<1>9. Unforked
  BY <1>1, <1>4, QuietFits DEF Unforked, LiveRows
<1> QED BY <1>4, <1>5, <1>6, <1>7, <1>8, <1>9, QuietFits DEF SessionInv

(* No family gets a holder that was none. *)
LEMMA UnforkedKept ==
  ASSUME Unforked,
         \A s \in LiveRows' : s \in LiveRows /\ session'[s].family = session[s].family,
         \A r \in SessionRequests :
            Rotating(req'[r]) => Rotating(req[r]) /\ req'[r].family = req[r].family
  PROVE  Unforked'
BY DEF Unforked

(* A step that only moves one request, not into a rotation, is harmless.   *)
LEMMA OneRequest ==
  ASSUME SessionInv, NEW r \in SessionRequests, NEW k \in Request,
         req' = [req EXCEPT ![r] = k],
         UNCHANGED <<session, apitok, account>>,
         RequestFits(k), ~ Rotating(k)
  PROVE  SessionInv'
<1>1. req \in [SessionRequests -> Request]
  BY DEF SessionInv, SessionTypeOK
<1>2. \A q \in SessionRequests : req'[q] = IF q = r THEN k ELSE req[q]
  BY <1>1
<1>3. SessionTypeOK' /\ AccountFits'
  BY <1>1 DEF SessionInv, SessionTypeOK, AccountFits, Unlinked
<1>4. \A s \in DOMAIN session' : RowFits(s)'
  BY DEF SessionInv, RowFits, Unlinked, Live
<1>5. \A t \in DOMAIN apitok' : TokenFits(t)'
  BY DEF SessionInv, TokenFits
<1>6. ASSUME NEW q \in SessionRequests PROVE RequestFits(req[q])'
  <2>1. RequestFits(req'[q])
    BY <1>2 DEF SessionInv
  <2> QED BY <2>1 DEF RequestFits, Unlinked, Rotating
<1>7. Unforked'
  <2>1. \A s \in LiveRows' : s \in LiveRows /\ session'[s].family = session[s].family
    BY DEF LiveRows, Live
  <2>2. \A q \in SessionRequests :
          Rotating(req'[q]) => Rotating(req[q]) /\ req'[q].family = req[q].family
    BY <1>2
  <2> QED BY <2>1, <2>2, UnforkedKept DEF SessionInv
<1> QED BY <1>3, <1>4, <1>5, <1>6, <1>7 DEF SessionInv

(* The reads that open login, minting, sweeps, refresh and logout.         *)
LEMMA CheckSteps ==
  ASSUME SessionInv, NEW r \in SessionRequests,
         \/ Login(r) \/ MintCheck(r)
         \/ \E op \in {"change", "recover"} : SweepRead(r, op)
         \/ \E s \in DOMAIN session : RefreshRead(r, s) \/ Logout(r, s)
  PROVE  SessionInv'
<1> USE SessionBounds
<1>0. SessionTypeOK /\ AccountFits
  BY DEF SessionInv
<1>1. PICK n \in 0 .. MaxSessions : DOMAIN session = 1 .. n
  BY <1>0, SessionDomains
<1>2. PICK m \in 0 .. MaxApiTokens : DOMAIN apitok = 1 .. m
  BY <1>0, SessionDomains
<1>3. account.sweeps \in 0 .. MaxSweeps /\ account.recoveries \in 0 .. MaxSweeps
  BY <1>0 DEF SessionTypeOK
<1>4. ASSUME Login(r) PROVE SessionInv'
  <2>1. PICK k : k = [Quiet EXCEPT !.op = "login", !.pc = "issue", !.epoch = account.sweeps]
    OBVIOUS
  <2>2. /\ k \in Request /\ k.pc = "issue" /\ k.op = "login" /\ k.family = NoFamily
        /\ k.epoch = account.sweeps
    BY <2>1, <1>3, QuietRequest DEF Request
  <2>3. RequestFits(k) /\ ~ Rotating(k)
    BY <2>2 DEF RequestFits, Rotating, NoFamily, Legacy
  <2> QED BY <1>4, <2>1, <2>2, <2>3, OneRequest DEF Login
<1>5. ASSUME MintCheck(r) PROVE SessionInv'
  <2>1. PICK k : k = [Quiet EXCEPT !.op = "mint", !.pc = "issue",
                                   !.epoch = account.recoveries]
    OBVIOUS
  <2>2. /\ k \in Request /\ k.pc = "issue" /\ k.op = "mint" /\ k.family = NoFamily
        /\ k.epoch = account.recoveries
    BY <2>1, <1>3, QuietRequest DEF Request
  <2>3. RequestFits(k) /\ ~ Rotating(k)
    BY <2>2 DEF RequestFits, Rotating, NoFamily, Legacy
  <2> QED BY <1>5, <2>1, <2>2, <2>3, OneRequest DEF MintCheck
<1>6. ASSUME NEW op \in {"change", "recover"}, SweepRead(r, op) PROVE SessionInv'
  <2>1. PICK k : k = [Quiet EXCEPT !.op = op, !.pc = "write", !.rows = LiveRows,
                                   !.toks = IF op = "recover" THEN LiveToks ELSE {}]
    OBVIOUS
  <2>2. LiveRows \subseteq 1 .. MaxSessions /\ LiveToks \subseteq 1 .. MaxApiTokens
    BY <1>1, <1>2 DEF LiveRows, LiveToks
  <2>3. k \in Request /\ k.pc = "write"
    BY <2>1, <2>2, QuietRequest DEF Request
  <2>4. RequestFits(k) /\ ~ Rotating(k)
    BY <2>3 DEF RequestFits, Rotating
  <2> QED BY <1>6, <2>1, <2>3, <2>4, OneRequest DEF SweepRead
<1>7. ASSUME NEW s \in DOMAIN session, Logout(r, s) PROVE SessionInv'
  <2>1. PICK k : k = [Quiet EXCEPT !.op = "logout", !.pc = "write", !.rows = {s}]
    OBVIOUS
  <2>2. s \in 1 .. MaxSessions
    BY <1>1
  <2>3. k \in Request /\ k.pc = "write"
    BY <2>1, <2>2, QuietRequest DEF Request
  <2>4. RequestFits(k) /\ ~ Rotating(k)
    BY <2>3 DEF RequestFits, Rotating
  <2> QED BY <1>7, <2>1, <2>3, <2>4, OneRequest DEF Logout
<1>8. ASSUME NEW s \in DOMAIN session, RefreshRead(r, s), Live(s) PROVE SessionInv'
  <2>1. PICK k : k = [Quiet EXCEPT !.op = "refresh", !.pc = "claim", !.row = s]
    OBVIOUS
  <2>2. s \in 0 .. MaxSessions
    BY <1>1
  <2>3. k \in Request /\ k.pc = "claim" /\ k.op = "refresh" /\ k.row = s
    BY <2>1, <2>2, QuietRequest DEF Request
  <2>4. RequestFits(k) /\ ~ Rotating(k)
    BY <2>3 DEF RequestFits, Rotating
  <2> QED BY <1>8, <2>1, <2>3, <2>4, OneRequest DEF RefreshRead
<1>9. ASSUME NEW s \in DOMAIN session, RefreshRead(r, s), ~ Live(s) PROVE SessionInv'
  <2>1. PICK k : k = [Quiet EXCEPT !.op = "refresh", !.pc = "reuse", !.row = s,
                                   !.family = session[s].family]
    OBVIOUS
  <2>2. /\ s \in 1 .. MaxSessions /\ session[s] \in SessionRow /\ RowFits(s)
        /\ session[s].family # NoFamily
    <3>1. session[s] \in SessionRow /\ RowFits(s)
      BY DEF SessionTypeOK, SessionInv
    <3>2. session[s].family # NoFamily
      BY <1>9 DEF RefreshRead
    <3>3. s \in 1 .. MaxSessions
      BY <1>1
    <3> QED BY <3>1, <3>2, <3>3
  <2>3. session[s].family \in 0 .. MaxSessions /\ session[s].family \in DOMAIN session
    BY <1>1, <2>2 DEF SessionRow, RowFits, NoFamily
  <2>4. s \in 0 .. MaxSessions
    BY <2>2
  <2>5. k \in Request /\ k.pc = "reuse" /\ k.family = session[s].family
    BY <2>1, <2>3, <2>4, QuietRequest DEF Request
  <2>6. RequestFits(k) /\ ~ Rotating(k)
    BY <2>2, <2>3, <2>5 DEF RequestFits, Rotating, RowFits
  <2> QED BY <1>9, <2>1, <2>5, <2>6, OneRequest DEF RefreshRead
<1> QED BY <1>4, <1>5, <1>6, <1>7, <1>8, <1>9

(* What a bulk revocation does to the session rows.                        *)
LEMMA RevokedRows ==
  ASSUME SessionTypeOK, NEW rows, Revoke(rows)
  PROVE  /\ DOMAIN session' = DOMAIN session
         /\ \A s \in DOMAIN session : /\ session'[s] \in SessionRow
                                      /\ session'[s].family = session[s].family
                                      /\ s \in rows => ~ Live(s)'
                                      /\ s \notin rows => session'[s] = session[s]
<1>1. DOMAIN session' = DOMAIN session
  BY DEF Revoke
<1>2. ASSUME NEW s \in DOMAIN session
      PROVE  /\ session'[s] \in SessionRow
             /\ session'[s].family = session[s].family
             /\ s \in rows => ~ Live(s)'
             /\ s \notin rows => session'[s] = session[s]
  <2>1. session[s] \in SessionRow
    BY DEF SessionTypeOK
  <2>2. CASE s \in rows
    <3>1. session'[s] = Revoked(session[s])
      BY <2>2 DEF Revoke
    <3> QED BY <2>1, <2>2, <3>1, RevokedRow DEF Live
  <2>3. CASE s \notin rows
    BY <2>1, <2>3 DEF Revoke
  <2> QED BY <2>2, <2>3
<1> QED BY <1>1, <1>2

(* Rows keep their place and family and none comes to life; the account's  *)
(* counts and its condemned families stay as they are.                     *)
LEMMA RowsOnly ==
  ASSUME SessionInv,
         DOMAIN session' = DOMAIN session,
         \A s \in DOMAIN session : /\ session'[s] \in SessionRow
                                   /\ session'[s].family = session[s].family
                                   /\ Live(s)' => /\ Live(s)
                                                  /\ session'[s].epoch = session[s].epoch
                                                  /\ session'[s].late = session[s].late,
         UNCHANGED <<apitok, account>>,
         req' \in [SessionRequests -> Request],
         \A r \in SessionRequests : req'[r] = req[r] \/ req'[r] = Quiet
  PROVE  SessionInv'
<1>1. SessionTypeOK'
  BY DEF SessionInv, SessionTypeOK
<1>2. (Unlinked' <=> Unlinked) /\ Legacy \in DOMAIN session
  BY DEF SessionInv, AccountFits, Unlinked
<1>3. AccountFits'
  BY <1>2 DEF SessionInv, AccountFits
<1>4. \A s \in DOMAIN session' : RowFits(s)'
  BY <1>2 DEF SessionInv, RowFits
<1>5. \A t \in DOMAIN apitok' : TokenFits(t)'
  BY DEF SessionInv, TokenFits
<1>6. ASSUME NEW r \in SessionRequests PROVE RequestFits(req[r])'
  <2>1. RequestFits(req'[r])
    BY QuietFits DEF SessionInv
  <2> QED BY <1>2, <2>1 DEF RequestFits
<1>7. Unforked'
  <2>1. \A s \in LiveRows' : s \in LiveRows /\ session'[s].family = session[s].family
    BY DEF LiveRows
  <2>2. \A r \in SessionRequests :
          Rotating(req'[r]) => Rotating(req[r]) /\ req'[r].family = req[r].family
    BY QuietFits
  <2> QED BY <2>1, <2>2, UnforkedKept DEF SessionInv
<1> QED BY <1>1, <1>3, <1>4, <1>5, <1>6, <1>7 DEF SessionInv

(* The revoking half of logout keeps the invariant.                        *)
LEMMA LogoutCommitStep ==
  ASSUME SessionInv, NEW r \in SessionRequests, LogoutCommit(r)
  PROVE  SessionInv'
<1>0. SessionTypeOK /\ req \in [SessionRequests -> Request]
  BY DEF SessionInv, SessionTypeOK
<1>1. Revoke(req[r].rows) /\ req' = [req EXCEPT ![r] = Quiet] /\ UNCHANGED <<apitok, account>>
  BY DEF LogoutCommit, Finished
<1>2. /\ req' \in [SessionRequests -> Request]
      /\ \A q \in SessionRequests : req'[q] = req[q] \/ req'[q] = Quiet
  BY <1>0, <1>1, QuietRequest
<1>3. PICK rows : rows = req[r].rows
  OBVIOUS
<1>4. /\ DOMAIN session' = DOMAIN session
      /\ \A s \in DOMAIN session : /\ session'[s] \in SessionRow
                                   /\ session'[s].family = session[s].family
                                   /\ s \in rows => ~ Live(s)'
                                   /\ s \notin rows => session'[s] = session[s]
  BY <1>0, <1>1, <1>3, RevokedRows
<1>5. \A s \in DOMAIN session : Live(s)' => /\ Live(s)
                                            /\ session'[s].epoch = session[s].epoch
                                            /\ session'[s].late = session[s].late
  BY <1>4 DEF Live
<1> QED BY <1>1, <1>2, <1>4, <1>5, RowsOnly

(* A row expiring, or its grace ending, keeps the invariant.                 *)
LEMMA SessionAgesStep ==
  ASSUME SessionInv, NEW s \in DOMAIN session, SessionAges(s)
  PROVE  SessionInv'
<1>0. session[s] \in SessionRow /\ req \in [SessionRequests -> Request]
      /\ \A x \in DOMAIN session : session[x] \in SessionRow
  BY DEF SessionInv, SessionTypeOK
<1>1. PICK state \in {"expired", "old"} :
        /\ session' = [session EXCEPT ![s].state = state]
        /\ state = "expired" => session[s].state = "live"
  BY DEF SessionAges
<1>2. PICK k : k = [session[s] EXCEPT !.state = state]
  OBVIOUS
<1>3. /\ k \in SessionRow /\ k.state = state /\ k.family = session[s].family
      /\ k.epoch = session[s].epoch
  BY <1>0, <1>2 DEF SessionRow
<1>4. k.late = session[s].late
  BY <1>0, <1>2 DEF SessionRow
<1>5. /\ DOMAIN session' = DOMAIN session
      /\ \A x \in DOMAIN session : session'[x] = IF x = s THEN k ELSE session[x]
  BY <1>1, <1>2
<1>6. ASSUME NEW x \in DOMAIN session
      PROVE  /\ session'[x] \in SessionRow
             /\ session'[x].family = session[x].family
             /\ Live(x)' => /\ Live(x)
                            /\ session'[x].epoch = session[x].epoch
                            /\ session'[x].late = session[x].late
  BY <1>0, <1>1, <1>3, <1>4, <1>5 DEF Live
<1>7. UNCHANGED <<apitok, account, req>>
  BY DEF SessionAges
<1> QED BY <1>0, <1>5, <1>6, <1>7, RowsOnly

AccountRow == [active: BOOLEAN, sweeps: 0..MaxSweeps, recoveries: 0..MaxSweeps,
               condemned: SUBSET (1..MaxSessions)]

(* Lifting a ban keeps the invariant.                                      *)
LEMMA UnbanStep ==
  ASSUME SessionInv, Unban
  PROVE  SessionInv'
<1>0. account \in AccountRow
  BY DEF SessionInv, SessionTypeOK, AccountRow
<1>1. /\ account' \in AccountRow /\ account'.sweeps = account.sweeps
      /\ account'.recoveries = account.recoveries /\ account'.condemned = account.condemned
  BY <1>0 DEF Unban, AccountRow
<1>2. UNCHANGED <<session, apitok, req>>
  BY DEF Unban
<1>3. SessionTypeOK' /\ AccountFits'
  BY <1>1, <1>2 DEF SessionInv, SessionTypeOK, AccountRow, AccountFits, Unlinked
<1>4. /\ \A s \in DOMAIN session' : RowFits(s)'
      /\ \A t \in DOMAIN apitok' : TokenFits(t)'
  BY <1>1, <1>2 DEF SessionInv, RowFits, TokenFits, Unlinked, Live
<1>5. \A r \in SessionRequests : RequestFits(req[r])'
  BY <1>1, <1>2 DEF SessionInv, RequestFits, Unlinked
<1>6. Unforked'
  BY <1>2 DEF SessionInv, Unforked, LiveRows, Live
<1> QED BY <1>3, <1>4, <1>5, <1>6 DEF SessionInv

(* Reuse detection revokes a whole lineage and keeps the invariant.        *)
LEMMA RevokeFamilyStep ==
  ASSUME SessionInv, NEW r \in SessionRequests, RevokeFamily(r)
  PROVE  SessionInv'
<1> USE SessionBounds
<1>0. /\ SessionTypeOK /\ AccountFits /\ account \in AccountRow
      /\ req \in [SessionRequests -> Request] /\ RequestFits(req[r])
      /\ req[r].pc = "reuse"
  BY DEF SessionInv, SessionTypeOK, AccountRow, RevokeFamily, RevokeAmong
<1>1. PICK fam : fam = req[r].family
  OBVIOUS
<1>2. fam \in DOMAIN session /\ (Unlinked => fam # Legacy)
  BY <1>0, <1>1 DEF RequestFits
<1>3. fam \in 1 .. MaxSessions
  BY <1>0, <1>2, SessionDomains
<1>4. PICK rows : rows = {s \in LiveRows : session[s].family = fam}
  OBVIOUS
<1>5. /\ Revoke(rows)
      /\ account' = [account EXCEPT !.condemned = @ \cup {fam}]
      /\ UNCHANGED apitok
  BY <1>1, <1>4 DEF RevokeFamily, RevokeAmong
<1>6. /\ account' \in AccountRow /\ account'.sweeps = account.sweeps
      /\ account'.recoveries = account.recoveries
      /\ account'.condemned = account.condemned \cup {fam}
  BY <1>0, <1>3, <1>5 DEF AccountRow
<1>7. /\ DOMAIN session' = DOMAIN session
      /\ \A s \in DOMAIN session : /\ session'[s] \in SessionRow
                                   /\ session'[s].family = session[s].family
                                   /\ s \in rows => ~ Live(s)'
                                   /\ s \notin rows => session'[s] = session[s]
  BY <1>0, <1>5, RevokedRows
<1>8. ASSUME NEW q \in SessionRequests
      PROVE  /\ req'[q] \in Request
             /\ \/ req'[q] = Quiet
                \/ /\ req'[q].pc = req[q].pc /\ req'[q].op = req[q].op
                   /\ req'[q].family = req[q].family /\ req'[q].row = req[q].row
                   /\ req'[q].epoch = req[q].epoch
                   /\ req[q].crossed \/ (req[q].pc = "issue" /\ req[q].family = fam)
                        => req'[q].crossed
  <2>1. CASE q = r
    BY <2>1, QuietRequest DEF RevokeFamily, RevokeAmong
  <2>2. CASE q # r
    <3>1. PICK raced \in BOOLEAN : raced = (req[q].pc = "issue" /\ req[q].family = fam)
      OBVIOUS
    <3>2. req'[q] = Crossed(req[q], raced)
      BY <1>1, <2>2, <3>1 DEF RevokeFamily, RevokeAmong
    <3>3. req[q] \in Request
      BY <1>0
    <3>4. /\ req'[q] \in Request
          /\ req'[q].pc = req[q].pc /\ req'[q].op = req[q].op
          /\ req'[q].family = req[q].family /\ req'[q].row = req[q].row
          /\ req'[q].epoch = req[q].epoch
          /\ req'[q].crossed <=> req[q].crossed \/ raced
      BY <3>2, <3>3, CrossedRequest
    <3>5. req[q].crossed \/ (req[q].pc = "issue" /\ req[q].family = fam) => req'[q].crossed
      BY <3>1, <3>4
    <3> QED BY <3>4, <3>5
  <2> QED BY <2>1, <2>2
<1>9. req' \in [SessionRequests -> Request]
  BY <1>8 DEF RevokeFamily, RevokeAmong
<1>10. SessionTypeOK'
  BY <1>0, <1>5, <1>6, <1>7, <1>9 DEF SessionTypeOK, AccountRow
<1>11. Unlinked' <=> Unlinked
  BY <1>0, <1>7 DEF Unlinked, AccountFits
<1>12. AccountFits'
  BY <1>0, <1>2, <1>6, <1>7, <1>11 DEF AccountFits
<1>13. ASSUME NEW s \in DOMAIN session PROVE RowFits(s)'
  <2>1. RowFits(s)
    BY DEF SessionInv
  <2>2. CASE s \in rows
    BY <1>7, <1>11, <2>1, <2>2 DEF RowFits
  <2>3. CASE s \notin rows
    <3>1. session'[s] = session[s] /\ (Live(s)' <=> Live(s))
      BY <1>7, <2>3 DEF Live
    <3>2. Live(s) => session[s].family # fam
      BY <1>4, <2>3 DEF LiveRows
    <3> QED BY <1>6, <1>11, <2>1, <3>1, <3>2 DEF RowFits
  <2> QED BY <2>2, <2>3
<1>14. \A t \in DOMAIN apitok' : TokenFits(t)'
  BY <1>5, <1>6 DEF SessionInv, TokenFits
<1>15. ASSUME NEW q \in SessionRequests PROVE RequestFits(req[q])'
  <2>1. CASE req'[q] = Quiet
    BY <2>1, QuietRequest DEF RequestFits, Rotating
  <2>2. CASE req'[q] # Quiet
    <3>1. RequestFits(req[q])
      BY DEF SessionInv
    <3> QED BY <1>6, <1>7, <1>8, <1>11, <2>2, <3>1 DEF RequestFits, Rotating
  <2> QED BY <2>1, <2>2
<1>16. Unforked'
  <2>1. \A s \in LiveRows' : s \in LiveRows /\ session'[s].family = session[s].family
    BY <1>7 DEF LiveRows, Live
  <2>2. \A q \in SessionRequests :
          Rotating(req'[q]) => Rotating(req[q]) /\ req'[q].family = req[q].family
    BY <1>8, QuietFits DEF Rotating
  <2> QED BY <2>1, <2>2, UnforkedKept DEF SessionInv
<1> QED BY <1>7, <1>10, <1>12, <1>13, <1>14, <1>15, <1>16 DEF SessionInv

(* The row a rotation leaves behind.                                       *)
LEMMA RotatedRow ==
  ASSUME NEW s \in DOMAIN session, session[s] \in SessionRow, Lineage(s) \in 0 .. MaxSessions
  PROVE  /\ Rotated(s) \in SessionRow /\ Rotated(s).state = "recent"
         /\ Rotated(s).family = Lineage(s)
<1>1. PICK k : k = Revoked(session[s])
  OBVIOUS
<1>2. k \in SessionRow /\ k.state = "recent"
  BY <1>1, RevokedRow
<1>3. Rotated(s) = [k EXCEPT !.family = Lineage(s)]
  BY <1>1 DEF Rotated
<1> QED BY <1>2, <1>3 DEF SessionRow

(* The request that has claimed a rotation and is to issue its successor.  *)
LEMMA RotatesRequest ==
  ASSUME NEW q \in Request, NEW s \in DOMAIN session, session[s] \in SessionRow,
         Lineage(s) \in 0 .. MaxSessions
  PROVE  /\ Rotates(q, s) \in Request
         /\ Rotates(q, s).pc = "issue" /\ Rotates(q, s).op = q.op
         /\ Rotates(q, s).family = Lineage(s) /\ Rotates(q, s).epoch = session[s].epoch
         /\ Rotates(q, s).crossed <=> session[s].late
<1>1. PICK a : a = [q EXCEPT !.pc = "issue", !.family = Lineage(s)]
  OBVIOUS
<1>2. /\ a \in Request /\ a.pc = "issue" /\ a.op = q.op /\ a.family = Lineage(s)
  BY <1>1 DEF Request
<1>3. PICK e \in 0 .. MaxSweeps : e = session[s].epoch
  BY DEF SessionRow
<1>4. PICK b : b = [a EXCEPT !.epoch = e]
  OBVIOUS
<1>5. /\ b \in Request /\ b.pc = "issue" /\ b.op = q.op /\ b.family = Lineage(s)
      /\ b.epoch = e
  BY <1>2, <1>4 DEF Request
<1>6. PICK l \in BOOLEAN : l = session[s].late
  BY DEF SessionRow
<1>7. PICK c : c = [b EXCEPT !.crossed = l]
  OBVIOUS
<1>8. Rotates(q, s) = c
  BY <1>1, <1>3, <1>4, <1>6, <1>7 DEF Rotates
<1>9. c \in Request
  BY <1>5, <1>7 DEF Request
<1>10. c.pc = "issue" /\ c.op = q.op /\ c.family = Lineage(s) /\ c.epoch = e
  BY <1>5, <1>7 DEF Request
<1>11. c.crossed <=> l
  BY <1>5, <1>7 DEF Request
<1> QED BY <1>3, <1>6, <1>8, <1>9, <1>10, <1>11

(* The claimed row is given a family that nobody else holds. *)
LEMMA ClaimRotationStep ==
  ASSUME SessionInv, NEW r \in SessionRequests, ClaimRotation(r)
  PROVE  SessionInv'
<1> USE SessionBounds
<1>0. /\ SessionTypeOK /\ AccountFits /\ req \in [SessionRequests -> Request]
      /\ req[r] \in Request /\ RequestFits(req[r]) /\ Unforked
      /\ req[r].pc = "claim" /\ req[r].op = "refresh"
  BY DEF SessionInv, SessionTypeOK, ClaimRotation, RequestFits
<1>1. PICK s \in DOMAIN session : s = req[r].row
  BY <1>0 DEF RequestFits
<1>2. UNCHANGED <<apitok, account>>
  BY DEF ClaimRotation
<1>3. CASE ~ Live(s)
  <2>1. req' = [req EXCEPT ![r] = Quiet] /\ UNCHANGED session
    BY <1>1, <1>3 DEF ClaimRotation, Finished
  <2> QED BY <1>2, <2>1, QuietRequest, QuietFits, OneRequest
<1>4. CASE Live(s)
  <2>0. PICK n \in 0 .. MaxSessions : DOMAIN session = 1 .. n
    BY <1>0, SessionDomains
  <2>1. session[s] \in SessionRow /\ RowFits(s)
    BY <1>0 DEF SessionInv, SessionTypeOK
  <2>2. /\ Lineage(s) \in DOMAIN session /\ Lineage(s) \in 0 .. MaxSessions
        /\ Lineage(s) <= s /\ Lineage(s) # NoFamily
        /\ session[s].family # NoFamily => Lineage(s) = session[s].family
        /\ session[s].family = NoFamily => s = Legacy /\ Lineage(s) = Legacy /\ Unlinked
    BY <2>0, <2>1 DEF Lineage, RowFits, SessionRow, NoFamily, Legacy, Unlinked
  <2>3. /\ Rotated(s) \in SessionRow /\ Rotated(s).state = "recent"
        /\ Rotated(s).family = Lineage(s)
    BY <2>1, <2>2, RotatedRow
  <2>4. session' = [session EXCEPT ![s] = Rotated(s)]
    BY <1>1, <1>4 DEF ClaimRotation
  <2>5. /\ DOMAIN session' = DOMAIN session
        /\ \A x \in DOMAIN session : session'[x] = IF x = s THEN Rotated(s) ELSE session[x]
    BY <2>4
  <2>6. Unlinked' => Unlinked /\ s # Legacy
    BY <1>0, <2>2, <2>3, <2>5 DEF Unlinked, AccountFits
  <2>7. ~ Live(s)' /\ \A x \in DOMAIN session \ {s} : Live(x)' <=> Live(x)
    BY <2>3, <2>5 DEF Live
  <2>8. ASSUME NEW x \in DOMAIN session PROVE RowFits(x)'
    <3>1. CASE x = s
      <4>1. Unlinked' => Lineage(s) # Legacy
        BY <2>1, <2>2, <2>6 DEF RowFits
      <4> QED BY <2>2, <2>3, <2>5, <2>7, <3>1, <4>1 DEF RowFits
    <3>2. CASE x # s
      <4>1. RowFits(x) /\ session'[x] = session[x]
        BY <2>5, <3>2 DEF SessionInv
      <4> QED BY <1>2, <2>6, <2>7, <3>2, <4>1 DEF RowFits
    <3> QED BY <3>1, <3>2
  <2>9. \A t \in DOMAIN apitok' : TokenFits(t)'
    BY <1>2 DEF SessionInv, TokenFits
  <2>10. AccountFits'
    BY <1>0, <1>2, <2>5, <2>6 DEF AccountFits
  <2>11. PICK k : k = IF account.active THEN Rotates(req[r], s) ELSE Quiet
    OBVIOUS
  <2>12. req' = [req EXCEPT ![r] = k]
    BY <1>1, <1>4, <2>11 DEF ClaimRotation, Finished
  <2>13. k \in Request /\ (k # Quiet => /\ k.pc = "issue" /\ k.op = "refresh"
                                        /\ k.family = Lineage(s)
                                        /\ k.epoch = session[s].epoch
                                        /\ k.crossed <=> session[s].late)
    BY <1>0, <2>1, <2>2, <2>11, QuietRequest, RotatesRequest
  <2>14. \A q \in SessionRequests : req'[q] = IF q = r THEN k ELSE req[q]
    BY <1>0, <2>12
  <2>15. SessionTypeOK'
    BY <1>0, <1>2, <2>3, <2>5, <2>12, <2>13 DEF SessionTypeOK
  <2>16. RequestFits(k)'
    <3>1. CASE k = Quiet
      BY <3>1, QuietRequest DEF RequestFits, Rotating
    <3>2. CASE k # Quiet
      <4>1. Unlinked' => k.family # Legacy
        BY <2>1, <2>2, <2>6, <2>13, <3>2 DEF RowFits
      <4>2. k.epoch = account.sweeps \/ k.crossed
        BY <1>4, <2>1, <2>13, <3>2 DEF RowFits
      <4>3. k.family \in account.condemned => k.crossed
        BY <1>0, <1>4, <2>1, <2>2, <2>13, <3>2 DEF RowFits, AccountFits
      <4> QED BY <1>2, <2>2, <2>5, <2>13, <3>2, <4>1, <4>2, <4>3 DEF RequestFits, Rotating
    <3> QED BY <3>1, <3>2
  <2>17. ASSUME NEW q \in SessionRequests PROVE RequestFits(req[q])'
    <3>1. CASE q = r
      BY <2>14, <2>16, <3>1 DEF RequestFits
    <3>2. CASE q # r
      <4>1. RequestFits(req[q]) /\ req'[q] = req[q]
        BY <2>14, <3>2 DEF SessionInv
      <4> QED BY <1>2, <2>5, <2>6, <4>1 DEF RequestFits
    <3> QED BY <3>1, <3>2
  <2>18. /\ \A x \in LiveRows \ {s} : session[x].family # Lineage(s)
         /\ \A q \in SessionRequests : Rotating(req[q]) => req[q].family # Lineage(s)
    <3>0. s \in LiveRows
      BY <1>4 DEF LiveRows
    <3>1. CASE session[s].family = NoFamily
      BY <2>2, <3>1 DEF SessionInv, RowFits, RequestFits, LiveRows, Rotating
    <3>2. CASE session[s].family # NoFamily
      BY <1>0, <2>2, <3>0, <3>2 DEF Unforked
    <3> QED BY <3>1, <3>2
  <2>19. Unforked'
    <3>1. \A x \in LiveRows' : x \in LiveRows \ {s} /\ session'[x].family = session[x].family
      BY <2>5, <2>7 DEF LiveRows
    <3>2. \A q \in SessionRequests : Rotating(req'[q]) =>
             \/ q = r /\ req'[q].family = Lineage(s)
             \/ q # r /\ Rotating(req[q]) /\ req'[q].family = req[q].family
      BY <2>13, <2>14, QuietFits
    <3> QED BY <1>0, <2>18, <3>1, <3>2 DEF Unforked
  <2> QED BY <2>5, <2>8, <2>9, <2>10, <2>15, <2>17, <2>19 DEF SessionInv
<1> QED BY <1>3, <1>4

(* The new row takes over its family from the rotation that held it, or    *)
(* starts one that is numbered past all others.                            *)
LEMMA IssueSessionStep ==
  ASSUME SessionInv, NEW r \in SessionRequests, IssueSession(r)
  PROVE  SessionInv'
<1> USE SessionBounds
<1>0. /\ SessionTypeOK /\ AccountFits /\ req \in [SessionRequests -> Request]
      /\ req[r] \in Request /\ RequestFits(req[r]) /\ Unforked
      /\ req[r].pc = "issue" /\ req[r].op \in {"login", "refresh"}
      /\ UNCHANGED <<apitok, account>> /\ req' = [req EXCEPT ![r] = Quiet]
  BY DEF SessionInv, SessionTypeOK, IssueSession, Finished
<1>1. PICK m \in 0 .. MaxSessions : DOMAIN session = 1 .. m /\ Cardinality(DOMAIN session) = m
  BY <1>0, SessionDomains
<1>2. PICK n : n = m + 1
  OBVIOUS
<1>3. n \in 2 .. MaxSessions /\ n \notin DOMAIN session
  BY <1>0, <1>1, <1>2 DEF IssueSession, AccountFits, Legacy
<1>4. PICK fam : fam = IF req[r].family = NoFamily THEN n ELSE req[r].family
  OBVIOUS
<1>5. PICK row : row = [family |-> fam, state |-> "live",
                        epoch |-> req[r].epoch, late |-> req[r].crossed]
  OBVIOUS
<1>6. session' = [s \in 1 .. n |-> IF s = n THEN row ELSE session[s]]
  BY <1>1, <1>2, <1>4, <1>5 DEF IssueSession
<1>7. /\ fam \in 0 .. MaxSessions /\ fam <= n /\ fam # NoFamily
      /\ Unlinked => fam # Legacy
      /\ fam = n \/ (Rotating(req[r]) /\ fam = req[r].family /\ fam \in DOMAIN session)
  BY <1>0, <1>1, <1>2, <1>3, <1>4 DEF RequestFits, Rotating, NoFamily, Legacy, Request
<1>8. row \in SessionRow /\ row.family = fam /\ row.epoch = req[r].epoch
  BY <1>0, <1>5, <1>7 DEF SessionRow, Request
<1>9. row.late <=> req[r].crossed
  BY <1>5
<1>10. /\ DOMAIN session' = 1 .. n /\ session'[n] = row
       /\ \A s \in DOMAIN session : s \in 1 .. n /\ session'[s] = session[s]
       /\ \A s \in DOMAIN session' : s = n \/ s \in DOMAIN session
  BY <1>1, <1>2, <1>6
<1>11. \A q \in SessionRequests : req'[q] = IF q = r THEN Quiet ELSE req[q]
  BY <1>0
<1>12. SessionTypeOK'
  <2>1. req' \in [SessionRequests -> Request]
    BY <1>0, QuietRequest
  <2>2. DOMAIN session' \in {1 .. k : k \in 0 .. MaxSessions}
    BY <1>3, <1>10
  <2>3. \A s \in DOMAIN session' : session'[s] \in SessionRow
    BY <1>0, <1>8, <1>10 DEF SessionTypeOK
  <2> QED BY <1>0, <2>1, <2>2, <2>3 DEF SessionTypeOK
<1>13. Unlinked' <=> Unlinked
  BY <1>0, <1>10 DEF Unlinked, AccountFits
<1>14. AccountFits'
  BY <1>0, <1>10, <1>13 DEF AccountFits
<1>15. ASSUME NEW s \in DOMAIN session' PROVE RowFits(s)'
  <2>1. CASE s = n
    <3>1. req[r].epoch = account.sweeps \/ req[r].crossed
      BY <1>0 DEF RequestFits
    <3>2. fam \in account.condemned => req[r].crossed
      BY <1>0, <1>3, <1>7 DEF RequestFits, AccountFits
    <3> QED BY <1>0, <1>7, <1>8, <1>9, <1>10, <1>13, <2>1, <3>1, <3>2 DEF RowFits
  <2>2. CASE s # n
    <3>1. s \in DOMAIN session /\ session'[s] = session[s]
      BY <1>10, <2>2
    <3>2. RowFits(s)
      BY <3>1 DEF SessionInv
    <3> QED BY <1>0, <1>13, <3>1, <3>2 DEF RowFits, Live
  <2> QED BY <2>1, <2>2
<1>16. \A t \in DOMAIN apitok' : TokenFits(t)'
  BY <1>0 DEF SessionInv, TokenFits
<1>17. ASSUME NEW q \in SessionRequests PROVE RequestFits(req[q])'
  <2>1. CASE q = r
    BY <1>11, <2>1, QuietRequest DEF RequestFits, Rotating
  <2>2. CASE q # r
    <3>1. RequestFits(req[q]) /\ req'[q] = req[q]
      BY <1>11, <2>2 DEF SessionInv
    <3>2. DOMAIN session \subseteq DOMAIN session'
      BY <1>10
    <3> QED BY <1>0, <1>13, <3>1, <3>2 DEF RequestFits
  <2> QED BY <2>1, <2>2
<1>18. Unforked'
  <2>1. \A s \in LiveRows' : \/ s = n /\ session'[s].family = fam
                             \/ s \in LiveRows /\ session'[s].family = session[s].family
    BY <1>8, <1>10 DEF LiveRows, Live
  <2>2. \A q \in SessionRequests : Rotating(req'[q]) =>
            q # r /\ Rotating(req[q]) /\ req'[q].family = req[q].family
    BY <1>11, QuietFits
  <2>3. \A s \in LiveRows : session[s].family # fam
    <3>1. CASE fam = n
      <4>1. \A s \in DOMAIN session : session[s].family <= s /\ s < n /\ session[s] \in SessionRow
        BY <1>0, <1>1, <1>2 DEF SessionInv, RowFits, SessionTypeOK
      <4> QED BY <1>1, <1>2, <3>1, <4>1 DEF LiveRows, SessionRow
    <3>2. CASE fam # n
      BY <1>0, <1>7, <3>2 DEF Unforked
    <3> QED BY <3>1, <3>2
  <2>4. \A q \in SessionRequests : q # r /\ Rotating(req[q]) => req[q].family # fam
    <3>1. CASE fam = n
      BY <1>3, <3>1 DEF SessionInv, RequestFits
    <3>2. CASE fam # n
      BY <1>0, <1>7, <3>2 DEF Unforked
    <3> QED BY <3>1, <3>2
  <2> QED BY <1>0, <2>1, <2>2, <2>3, <2>4 DEF Unforked
<1> QED BY <1>12, <1>14, <1>15, <1>16, <1>17, <1>18 DEF SessionInv

(* Only the tokens change, and requests that end. *)
LEMMA TokensOnly ==
  ASSUME SessionInv, SessionTypeOK',
         UNCHANGED <<session, account>>,
         \A t \in DOMAIN apitok' : TokenFits(t)',
         \A r \in SessionRequests : req'[r] = req[r] \/ req'[r] = Quiet
  PROVE  SessionInv'
<1>1. AccountFits' /\ \A s \in DOMAIN session' : RowFits(s)'
  BY DEF SessionInv, AccountFits, RowFits, Unlinked, Live
<1>2. ASSUME NEW r \in SessionRequests PROVE RequestFits(req[r])'
  <2>1. RequestFits(req'[r])
    BY QuietFits DEF SessionInv
  <2> QED BY <2>1 DEF RequestFits, Unlinked
<1>3. Unforked'
  <2>1. \A s \in LiveRows' : s \in LiveRows /\ session'[s].family = session[s].family
    BY DEF LiveRows, Live
  <2>2. \A r \in SessionRequests :
          Rotating(req'[r]) => Rotating(req[r]) /\ req'[r].family = req[r].family
    BY QuietFits
  <2> QED BY <2>1, <2>2, UnforkedKept DEF SessionInv
<1> QED BY <1>1, <1>2, <1>3 DEF SessionInv

(* Inserting an API token keeps the invariant.                             *)
LEMMA MintTokenStep ==
  ASSUME SessionInv, NEW r \in SessionRequests, MintToken(r)
  PROVE  SessionInv'
<1> USE SessionBounds
<1>0. /\ SessionTypeOK /\ req \in [SessionRequests -> Request]
      /\ req[r] \in Request /\ RequestFits(req[r])
      /\ req[r].pc = "issue" /\ req[r].op = "mint"
      /\ UNCHANGED <<session, account>> /\ req' = [req EXCEPT ![r] = Quiet]
  BY DEF SessionInv, SessionTypeOK, MintToken, Finished
<1>1. PICK m \in 0 .. MaxApiTokens : DOMAIN apitok = 1 .. m /\ Cardinality(DOMAIN apitok) = m
  BY <1>0, SessionDomains
<1>2. PICK n : n = m + 1
  OBVIOUS
<1>3. PICK row : row = [revoked |-> FALSE, epoch |-> req[r].epoch, late |-> req[r].crossed]
  OBVIOUS
<1>4. /\ n \in 0 .. MaxApiTokens
      /\ apitok' = [t \in 1 .. n |-> IF t = n THEN row ELSE apitok[t]]
  BY <1>1, <1>2, <1>3 DEF MintToken
<1>5. row \in TokenRow /\ row.epoch = req[r].epoch
  BY <1>0, <1>3 DEF TokenRow, Request
<1>6. row.late <=> req[r].crossed
  BY <1>3
<1>7. /\ DOMAIN apitok' = 1 .. n /\ apitok'[n] = row
      /\ \A t \in DOMAIN apitok' : t = n \/ (t \in DOMAIN apitok /\ apitok'[t] = apitok[t])
  BY <1>1, <1>2, <1>4
<1>8. SessionTypeOK'
  <2>1. req' \in [SessionRequests -> Request]
    BY <1>0, QuietRequest
  <2>2. DOMAIN apitok' \in {1 .. k : k \in 0 .. MaxApiTokens}
    BY <1>4, <1>7
  <2>3. \A t \in DOMAIN apitok' : apitok'[t] \in TokenRow
    BY <1>0, <1>5, <1>7 DEF SessionTypeOK
  <2> QED BY <1>0, <2>1, <2>2, <2>3 DEF SessionTypeOK
<1>9. ASSUME NEW t \in DOMAIN apitok' PROVE TokenFits(t)'
  <2>1. CASE t = n
    BY <1>0, <1>5, <1>6, <1>7, <2>1 DEF TokenFits, RequestFits
  <2>2. CASE t # n
    BY <1>0, <1>7, <2>2 DEF TokenFits, SessionInv
  <2> QED BY <2>1, <2>2
<1>10. \A q \in SessionRequests : req'[q] = req[q] \/ req'[q] = Quiet
  BY <1>0
<1> QED BY <1>0, <1>8, <1>9, <1>10, TokensOnly

(* Revoking an API token keeps the invariant.                              *)
LEMMA RevokeTokenStep ==
  ASSUME SessionInv, NEW t \in DOMAIN apitok, RevokeToken(t)
  PROVE  SessionInv'
<1> USE SessionBounds
<1>0. SessionTypeOK /\ UNCHANGED <<session, account, req>>
  BY DEF SessionInv, RevokeToken
<1>1. RevokedToken \in TokenRow /\ RevokedToken.revoked
  BY DEF RevokedToken, TokenRow
<1>2. /\ DOMAIN apitok' = DOMAIN apitok
      /\ \A x \in DOMAIN apitok : apitok'[x] = IF x = t THEN RevokedToken ELSE apitok[x]
  BY DEF RevokeToken
<1>3. SessionTypeOK'
  BY <1>0, <1>1, <1>2 DEF SessionTypeOK
<1>4. \A x \in DOMAIN apitok' : TokenFits(x)'
  BY <1>0, <1>1, <1>2 DEF SessionInv, TokenFits
<1> QED BY <1>0, <1>3, <1>4, TokensOnly

(* A sweep revokes the rows it has read and has raced with every other     *)
(* that is live and with every insertion under way.                        *)
LEMMA SweepCommitStep ==
  ASSUME SessionInv, NEW r \in SessionRequests, SweepCommit(r)
  PROVE  SessionInv'
<1> USE SessionBounds
<1>0. /\ SessionTypeOK /\ AccountFits /\ req \in [SessionRequests -> Request]
      /\ account \in AccountRow /\ account.sweeps < MaxSweeps
      /\ req[r].op \in {"change", "recover"}
  BY DEF SessionInv, SessionTypeOK, AccountRow, SweepCommit, Sweep
<1>1. PICK rec \in BOOLEAN : rec = (req[r].op = "recover")
  OBVIOUS
<1>2. /\ account' \in AccountRow /\ account'.condemned = account.condemned
      /\ account'.sweeps = account.sweeps + 1
      /\ account'.recoveries = IF rec THEN account.recoveries + 1 ELSE account.recoveries
      /\ account'.recoveries <= account'.sweeps
  <2>1. PICK ban \in BOOLEAN :
          account' = [account EXCEPT !.sweeps = account.sweeps + 1,
                        !.recoveries = IF rec THEN account.recoveries + 1
                                       ELSE account.recoveries,
                        !.active = account.active /\ ~ ban]
    BY <1>1 DEF SweepCommit, Sweep
  <2>2. PICK n : n = IF rec THEN account.recoveries + 1 ELSE account.recoveries
    OBVIOUS
  <2>3. /\ account.sweeps \in Nat /\ account.recoveries \in Nat
        /\ account.recoveries <= account.sweeps
        /\ account.sweeps + 1 \in 0 .. MaxSweeps /\ n \in 0 .. MaxSweeps
        /\ n <= account.sweeps + 1
    BY <1>0, <2>2 DEF AccountRow, AccountFits
  <2>4. PICK a : a = [account EXCEPT !.sweeps = account.sweeps + 1, !.recoveries = n]
    OBVIOUS
  <2>5. /\ a \in AccountRow /\ a.condemned = account.condemned
        /\ a.sweeps = account.sweeps + 1 /\ a.recoveries = n
    BY <1>0, <2>3, <2>4 DEF AccountRow
  <2>6. PICK b \in BOOLEAN : b = (account.active /\ ~ ban)
    OBVIOUS
  <2>7. account' = [a EXCEPT !.active = b]
    BY <2>1, <2>2, <2>4, <2>6
  <2>8. /\ account' \in AccountRow /\ account'.condemned = a.condemned
        /\ account'.sweeps = a.sweeps /\ account'.recoveries = a.recoveries
    BY <2>5, <2>7 DEF AccountRow
  <2> QED BY <2>2, <2>3, <2>5, <2>8
<1>3. DOMAIN session' = DOMAIN session /\ DOMAIN apitok' = DOMAIN apitok
  BY DEF SweepCommit, Sweep
<1>4. ASSUME NEW s \in DOMAIN session
      PROVE  /\ session'[s] \in SessionRow /\ session'[s].family = session[s].family
             /\ Live(s)' => Live(s) /\ session'[s].late
  <2>0. session[s] \in SessionRow
    BY <1>0 DEF SessionTypeOK
  <2>1. CASE s \in req[r].rows
    <3>1. session'[s] = Revoked(session[s])
      BY <2>1 DEF SweepCommit, Sweep
    <3> QED BY <2>0, <3>1, RevokedRow DEF Live
  <2>2. CASE s \notin req[r].rows
    <3>0. (s \in LiveRows \ req[r].rows) \in BOOLEAN
      OBVIOUS
    <3>1. PICK raced \in BOOLEAN : raced = (s \in LiveRows \ req[r].rows)
      BY <3>0, Zenon
    <3>2. session'[s] = Late(session[s], raced)
      BY <2>2, <3>1 DEF SweepCommit, Sweep
    <3>3. /\ session'[s] \in SessionRow /\ session'[s].family = session[s].family
          /\ session'[s].state = session[s].state
          /\ session'[s].late <=> session[s].late \/ raced
      BY <2>0, <3>2, LateRow
    <3>4. Live(s)' <=> Live(s)
      BY <3>3 DEF Live
    <3>5. Live(s) => raced
      BY <2>2, <3>1 DEF LiveRows
    <3> QED BY <3>3, <3>4, <3>5
  <2> QED BY <2>1, <2>2
<1>5. ASSUME NEW t \in DOMAIN apitok
      PROVE  apitok'[t] \in TokenRow /\ TokenFits(t)'
  <2>0. apitok[t] \in TokenRow /\ TokenFits(t)
    BY <1>0 DEF SessionTypeOK, SessionInv
  <2>1. CASE t \in req[r].toks
    <3>1. apitok'[t] = RevokedToken
      BY <2>1 DEF SweepCommit, Sweep
    <3>2. RevokedToken \in TokenRow /\ RevokedToken.revoked
      BY DEF RevokedToken, TokenRow
    <3> QED BY <3>1, <3>2 DEF TokenFits
  <2>2. CASE t \notin req[r].toks
    <3>1. PICK raced \in BOOLEAN : raced = (rec /\ t \in LiveToks \ req[r].toks)
      OBVIOUS
    <3>2. apitok'[t] = Late(apitok[t], raced)
      BY <1>1, <2>2, <3>1 DEF SweepCommit, Sweep
    <3>3. /\ apitok'[t] \in TokenRow /\ apitok'[t].epoch = apitok[t].epoch
          /\ apitok'[t].revoked <=> apitok[t].revoked
          /\ apitok'[t].late <=> apitok[t].late \/ raced
      BY <2>0, <3>2, LateToken
    <3>4. rec /\ ~ apitok[t].revoked => raced
      BY <2>2, <3>1 DEF LiveToks
    <3> QED BY <1>2, <2>0, <3>3, <3>4 DEF TokenFits
  <2> QED BY <2>1, <2>2
<1>6. ASSUME NEW q \in SessionRequests
      PROVE  /\ req'[q] \in Request
             /\ \/ req'[q] = Quiet
                \/ /\ req'[q].pc = req[q].pc /\ req'[q].op = req[q].op
                   /\ req'[q].family = req[q].family /\ req'[q].row = req[q].row
                   /\ req[q].pc = "issue" => req'[q].crossed
  <2>1. CASE q = r
    BY <2>1, QuietRequest DEF SweepCommit, Sweep
  <2>2. CASE q # r
    <3>1. PICK raced \in BOOLEAN : raced = (req[q].pc = "issue")
      OBVIOUS
    <3>2. req'[q] = Crossed(req[q], raced)
      BY <2>2, <3>1 DEF SweepCommit, Sweep
    <3>3. req[q] \in Request
      BY <1>0
    <3>4. /\ req'[q] \in Request
          /\ req'[q].pc = req[q].pc /\ req'[q].op = req[q].op
          /\ req'[q].family = req[q].family /\ req'[q].row = req[q].row
          /\ req'[q].crossed <=> req[q].crossed \/ raced
      BY <3>2, <3>3, CrossedRequest
    <3>5. req[q].pc = "issue" => req'[q].crossed
      BY <3>1, <3>4
    <3> QED BY <3>4, <3>5
  <2> QED BY <2>1, <2>2
<1>7. req' \in [SessionRequests -> Request]
  BY <1>6 DEF SweepCommit, Sweep
<1>8. SessionTypeOK'
  BY <1>0, <1>2, <1>3, <1>4, <1>5, <1>7 DEF SessionTypeOK, AccountRow
<1>9. Unlinked' <=> Unlinked
  BY <1>0, <1>4 DEF Unlinked, AccountFits
<1>10. AccountFits'
  BY <1>0, <1>2, <1>3, <1>9 DEF AccountFits
<1>11. ASSUME NEW s \in DOMAIN session PROVE RowFits(s)'
  <2>1. RowFits(s)
    BY DEF SessionInv
  <2> QED BY <1>2, <1>4, <1>9, <2>1 DEF RowFits
<1>12. ASSUME NEW q \in SessionRequests PROVE RequestFits(req[q])'
  <2>1. CASE req'[q] = Quiet
    BY <2>1, QuietRequest DEF RequestFits, Rotating
  <2>2. CASE req'[q] # Quiet
    <3>1. RequestFits(req[q])
      BY DEF SessionInv
    <3> QED BY <1>3, <1>6, <1>9, <2>2, <3>1 DEF RequestFits, Rotating
  <2> QED BY <2>1, <2>2
<1>13. Unforked'
  <2>1. \A s \in LiveRows' : s \in LiveRows /\ session'[s].family = session[s].family
    BY <1>3, <1>4 DEF LiveRows
  <2>2. \A q \in SessionRequests :
          Rotating(req'[q]) => Rotating(req[q]) /\ req'[q].family = req[q].family
    BY <1>6, QuietFits DEF Rotating
  <2> QED BY <2>1, <2>2, UnforkedKept DEF SessionInv
<1> QED BY <1>3, <1>5, <1>8, <1>10, <1>11, <1>12, <1>13 DEF SessionInv

(* A set whose elements are all equal has one element at most.             *)
LEMMA AtMostOne ==
  ASSUME NEW S, \A x, y \in S : x = y
  PROVE  \/ S = {} /\ Cardinality(S) = 0
         \/ S # {} /\ Cardinality(S) = 1
<1>1. CASE S = {}
  BY <1>1, FS_EmptySet
<1>2. CASE S # {}
  <2>1. PICK x : x \in S
    BY <1>2
  <2>2. S = {x}
    BY <2>1
  <2> QED BY <1>2, <2>2, FS_Singleton
<1> QED BY <1>1, <1>2

(* The inductive form of one successor per lineage implies the counted one.*)
LEMMA UnforkedCounts == Unforked => OneSuccessor
<1> SUFFICES ASSUME Unforked, NEW f \in 1 .. MaxSessions
             PROVE  Cardinality({s \in LiveRows : session[s].family = f})
                    + Cardinality({r \in SessionRequests :
                        /\ req[r].pc = "issue" /\ req[r].op = "refresh"
                        /\ req[r].family = f}) <= 1
  BY DEF OneSuccessor
<1>1. PICK A : A = {s \in LiveRows : session[s].family = f}
  OBVIOUS
<1>2. PICK B : B = {r \in SessionRequests : /\ req[r].pc = "issue" /\ req[r].op = "refresh"
                                            /\ req[r].family = f}
  OBVIOUS
<1>3. \A x, y \in A : x = y
  BY <1>1 DEF Unforked
<1>4. \A x, y \in B : x = y
  BY <1>2 DEF Unforked, Rotating
<1>5. A = {} \/ B = {}
  BY <1>1, <1>2 DEF Unforked, Rotating
<1>6. Cardinality(A) + Cardinality(B) <= 1
  BY <1>3, <1>4, <1>5, AtMostOne
<1> QED BY <1>1, <1>2, <1>6

(* However logins, refreshes, replays, logouts, sweeps, bans and the       *)
(* minting of tokens interleave, and for any number of them: a login never *)
(* forks into two live sessions, and no session or token outlives the      *)
(* password change, reset, ban or replay that ends it but one inserted by  *)
(* a request that raced with it (refresh, _issue_session and the sweeps of *)
(* routers/auth.py and routers/users.py).                                  *)
THEOREM SessionsHold == SessionSpec => []SessionsSafe
<1>1. SessionInit => SessionInv
  BY SessionInitInv
<1>2. SessionInv /\ [SessionNext]_sessionVars => SessionInv'
  <2> SUFFICES ASSUME SessionInv, [SessionNext]_sessionVars PROVE SessionInv'
    OBVIOUS
  <2>1. ASSUME NEW r \in SessionRequests,
               \/ Login(r) \/ MintCheck(r)
               \/ \E op \in {"change", "recover"} : SweepRead(r, op)
               \/ \E s \in DOMAIN session : RefreshRead(r, s) \/ Logout(r, s)
        PROVE  SessionInv'
    BY <2>1, CheckSteps
  <2>2. ASSUME NEW r \in SessionRequests, IssueSession(r) \/ MintToken(r)
        PROVE  SessionInv'
    BY <2>2, IssueSessionStep, MintTokenStep
  <2>3. ASSUME NEW r \in SessionRequests, RevokeFamily(r) \/ ClaimRotation(r)
        PROVE  SessionInv'
    BY <2>3, RevokeFamilyStep, ClaimRotationStep
  <2>4. ASSUME NEW r \in SessionRequests, SweepCommit(r) \/ LogoutCommit(r)
        PROVE  SessionInv'
    BY <2>4, SweepCommitStep, LogoutCommitStep
  <2>5. ASSUME NEW t \in DOMAIN apitok, RevokeToken(t) PROVE SessionInv'
    BY <2>5, RevokeTokenStep
  <2>6. ASSUME NEW s \in DOMAIN session, SessionAges(s) PROVE SessionInv'
    BY <2>6, SessionAgesStep
  <2>7. ASSUME Unban PROVE SessionInv'
    BY <2>7, UnbanStep
  <2>8. CASE UNCHANGED sessionVars
    <3>1. UNCHANGED <<session, account, apitok, req>>
      BY <2>8 DEF sessionVars
    <3>2. SessionTypeOK' /\ \A t \in DOMAIN apitok' : TokenFits(t)'
      BY <3>1 DEF SessionInv, SessionTypeOK, TokenFits
    <3> QED BY <3>1, <3>2, TokensOnly
  <2> QED BY <2>1, <2>2, <2>3, <2>4, <2>5, <2>6, <2>7, <2>8 DEF SessionNext
<1>3. SessionInv => SessionsSafe
  <2> SUFFICES ASSUME SessionInv PROVE SessionsSafe
    OBVIOUS
  <2>1. SessionTypeOK /\ OneSuccessor
    BY UnforkedCounts DEF SessionInv
  <2>2. SweptSessionsDie /\ CondemnedFamilyDies
    BY DEF SessionInv, RowFits, SweptSessionsDie, CondemnedFamilyDies, LiveRows
  <2>3. SweptTokensDie
    BY DEF SessionInv, TokenFits, SweptTokensDie, LiveToks
  <2> QED BY <2>1, <2>2, <2>3 DEF SessionsSafe
<1> QED BY <1>1, <1>2, <1>3, PTL DEF SessionSpec

-----------------------------------------------------------------------------
(***************************************************************************)
(* Roles.  What a delegate has decided stays within reach because reach    *)
(* never shrinks, so every custom role and every pending edit of a         *)
(* delegate is within it; and a pending removal leaves another             *)
(* administrator unless it overlaps with one.                              *)
(***************************************************************************)
Removal(q) == q.op \in {"ban", "remove"} \/ (q.op = "unassign" /\ q.role = Administrator)

(* The request names what its operation needs. *)
DecisionFits(q) ==
    /\ q.op \in {"create", "update", "delete"} => q.role \in Customs
    /\ q.op \in {"assign", "unassign"} => q.role \in RoleIds
    /\ q.op \in {"assign", "unassign", "ban", "remove", "setup"} => q.subject \in Staff
    /\ ~ setup => q.op \in {"none", "setup"}

(* A delegate's request asks for nothing out of reach. *)
DecisionContained(q) ==
    ~ q.admin =>
        /\ q.op \in {"create", "update"} => q.perms \subseteq given
        /\ q.op = "assign" /\ q.role = Administrator => Catalog \subseteq given

DecisionLeavesOne(q) ==
    ~ crossed /\ Removal(q) => ActiveAdmins \ {q.subject} # {}

RolesContained ==
    /\ role[Administrator] = [exists |-> TRUE, perms |-> Catalog, scope |-> "global"]
    /\ \A c \in Customs : role[c].perms \subseteq given
    /\ \A g \in grant : g.role = Administrator =>
          g.user \in {Owner, Deputy} \cup owners \/ Catalog \subseteq given

FreshInstall ==
    ~ setup => /\ grant = {} /\ owners = {}
               /\ \A u \in Staff : status[u] = "active"

RoleInv ==
    /\ RoleTypeOK
    /\ RolesContained
    /\ FreshInstall
    /\ \A x, y \in owners : x = y
    /\ AdminRemains
    /\ \A r \in RoleRequests : /\ DecisionFits(rreq[r])
                               /\ DecisionContained(rreq[r])
                               /\ DecisionLeavesOne(rreq[r])

(* A slot with no decision under way.                                      *)
LEMMA AbsentRequest ==
  /\ Absent \in RoleRequest /\ Absent.op = "none" /\ Absent.scope = "global"
  /\ ~ Absent.admin
<1>1. Absent \in RoleRequest
  BY DEF Absent, RoleRequest
<1> QED BY <1>1 DEF Absent

(* A slot with no decision satisfies what is asked of decisions.           *)
LEMMA AbsentFits ==
  DecisionFits(Absent) /\ DecisionContained(Absent) /\ DecisionLeavesOne(Absent)
BY AbsentRequest DEF DecisionFits, DecisionContained, DecisionLeavesOne, Removal

(* Whoever is no administrator and was not made owner holds what is within *)
(* reach.                                                                  *)
LEMMA HeldWithin ==
  ASSUME RoleTypeOK, RolesContained, NEW u \in Staff,
         AdminOf(u) => Catalog \subseteq given
  PROVE  Privileged(u) \subseteq given /\ Global(u) \subseteq given
<1>1. ASSUME NEW g \in grant, g.user = u PROVE role[g.role].perms \subseteq given
  <2>1. g.role \in RoleIds
    BY DEF RoleTypeOK, Grant
  <2>2. CASE g.role = Administrator
    <3>1. AdminOf(u)
      BY <1>1, <2>2 DEF AdminOf
    <3>2. role[g.role].perms = Catalog
      BY <2>2 DEF RolesContained
    <3> QED BY <3>1, <3>2
  <2>3. CASE g.role # Administrator
    BY <2>1, <2>3 DEF RolesContained, RoleIds
  <2> QED BY <2>2, <2>3
<1>2. \A scope : Held(u, scope) \subseteq given
  BY <1>1 DEF Held
<1> QED BY <1>2 DEF Privileged, Global

(* Containment as the proof carries it implies the property as stated.     *)
LEMMA ContainedFollows == RoleTypeOK /\ RolesContained => Contained
<1> SUFFICES ASSUME RoleTypeOK, RolesContained,
                    NEW u \in Staff \ ({Owner, Deputy} \cup owners)
             PROVE  Privileged(u) \subseteq given
  BY DEF Contained
<1>1. AdminOf(u) => Catalog \subseteq given
  BY DEF AdminOf, RolesContained
<1> QED BY <1>1, HeldWithin

(* Only an install past its setup has anybody who may decide. *)
LEMMA MayIsSetUp ==
  ASSUME RoleInv, NEW a \in Staff, NEW key, May(a, key)
  PROVE  setup
<1>1. PICK g \in grant : TRUE
  BY DEF May, Global, Held
<1> QED BY <1>1 DEF RoleInv, FreshInstall

(* The invariant of the roles holds at the start.                          *)
LEMMA RoleInitInv == RoleInit => RoleInv
<1> SUFFICES ASSUME RoleInit PROVE RoleInv
  OBVIOUS
<1> USE RoleAssumption
<1>1. PICK c \in Customs, fresh \in BOOLEAN :
       /\ role = [r \in RoleIds |->
                    IF r = Administrator THEN [exists |-> TRUE, perms |-> Catalog, scope |-> "global"]
                    ELSE [exists |-> r = c /\ ~fresh, scope |-> "global",
                          perms |-> IF r = c /\ ~fresh THEN {ManageRoles, ManageUsers} ELSE {}]]
       /\ grant = IF fresh THEN {} ELSE
                    {[user |-> u, role |-> Administrator, copy |-> 1] : u \in {Owner, Deputy}}
                    \cup {[user |-> Delegate, role |-> c, copy |-> 1]}
       /\ setup = ~fresh
  BY DEF RoleInit
<1>2. /\ status = [u \in Staff |-> "active"] /\ rreq = [r \in RoleRequests |-> Absent]
      /\ decided = 0 /\ given = {ManageRoles, ManageUsers} /\ owners = {} /\ crossed = FALSE
  BY DEF RoleInit
<1>3. \A r \in RoleIds : role[r] \in RoleRow
  <2>1. [exists |-> TRUE, perms |-> Catalog, scope |-> "global"] \in RoleRow
    BY DEF RoleRow
  <2>2. ASSUME NEW r \in RoleIds
        PROVE  [exists |-> r = c /\ ~fresh, scope |-> "global",
                perms |-> IF r = c /\ ~fresh THEN {ManageRoles, ManageUsers} ELSE {}] \in RoleRow
    <3>1. CASE r = c /\ ~ fresh
      BY <3>1 DEF RoleRow
    <3>2. CASE ~ (r = c /\ ~ fresh)
      BY <3>2 DEF RoleRow
    <3> QED BY <3>1, <3>2
  <2> QED BY <1>1, <2>1, <2>2
<1>4. role \in [RoleIds -> RoleRow]
  BY <1>1, <1>3
<1>5. grant \subseteq Grant
  BY <1>1 DEF Grant, RoleIds
<1>6. RoleTypeOK
  <2>1. setup \in BOOLEAN
    BY <1>1
  <2>2. crossed \in BOOLEAN
    BY <1>2
  <2>3. given \subseteq Catalog /\ owners \subseteq Staff /\ decided \in 0 .. MaxDecisions
    BY <1>2
  <2>4. rreq \in [RoleRequests -> RoleRequest]
    BY <1>2, AbsentRequest
  <2>5. status \in [Staff -> {"active", "banned", "deleted"}]
    BY <1>2
  <2> QED BY <1>4, <1>5, <2>1, <2>2, <2>3, <2>4, <2>5 DEF RoleTypeOK
<1>7. RolesContained
  <2>1. role[Administrator] = [exists |-> TRUE, perms |-> Catalog, scope |-> "global"]
    BY <1>1 DEF RoleIds
  <2>2. ASSUME NEW x \in Customs PROVE role[x].perms \subseteq given
    BY <1>1, <1>2 DEF RoleIds
  <2>3. \A g \in grant : g.role = Administrator => g.user \in {Owner, Deputy}
    BY <1>1
  <2> QED BY <2>1, <2>2, <2>3 DEF RolesContained
<1>8. FreshInstall /\ \A x, y \in owners : x = y
  BY <1>1, <1>2 DEF FreshInstall
<1>9. AdminRemains
  <2> SUFFICES ASSUME setup PROVE ActiveAdmins # {}
    BY DEF AdminRemains
  <2>1. [user |-> Owner, role |-> Administrator, copy |-> 1] \in grant
    BY <1>1
  <2>2. AdminOf(Owner)
    BY <2>1 DEF AdminOf
  <2> QED BY <1>2, <2>2 DEF ActiveAdmins
<1>10. \A r \in RoleRequests : rreq[r] = Absent
  BY <1>2
<1> QED BY <1>6, <1>7, <1>8, <1>9, <1>10, AbsentFits DEF RoleInv

(* A decision that fits the rows it read keeps the invariant.              *)
LEMMA Decided ==
  ASSUME RoleInv, NEW r \in RoleRequests, NEW q \in RoleRequest, Decide(r, q),
         DecisionFits(q), DecisionContained(q), DecisionLeavesOne(q)
  PROVE  RoleInv'
<1> USE RoleAssumption
<1>1. /\ rreq' = [rreq EXCEPT ![r] = q] /\ decided' = decided + 1 /\ decided < MaxDecisions
      /\ UNCHANGED <<role, grant, status, setup, given, owners, crossed>>
  BY DEF Decide
<1>2. rreq \in [RoleRequests -> RoleRequest] /\ decided \in 0 .. MaxDecisions
  BY DEF RoleInv, RoleTypeOK
<1>3. \A x \in RoleRequests : rreq'[x] = IF x = r THEN q ELSE rreq[x]
  BY <1>1, <1>2
<1>4. rreq' \in [RoleRequests -> RoleRequest] /\ decided' \in 0 .. MaxDecisions
  BY <1>1, <1>2
<1>5. RoleTypeOK'
  BY <1>1, <1>4 DEF RoleInv, RoleTypeOK
<1>6. RolesContained' /\ FreshInstall' /\ \A x, y \in owners' : x = y
  BY <1>1 DEF RoleInv, RolesContained, FreshInstall
<1>7. ActiveAdmins' = ActiveAdmins
  BY <1>1 DEF ActiveAdmins, AdminOf
<1>8. AdminRemains'
  BY <1>1, <1>7 DEF RoleInv, AdminRemains
<1>9. ASSUME NEW x \in RoleRequests
      PROVE  /\ DecisionFits(rreq[x])' /\ DecisionContained(rreq[x])'
             /\ DecisionLeavesOne(rreq[x])'
  <2>1. /\ DecisionFits(rreq'[x]) /\ DecisionContained(rreq'[x])
        /\ DecisionLeavesOne(rreq'[x])
    BY <1>3 DEF RoleInv
  <2> QED BY <1>1, <1>7, <2>1 DEF DecisionFits, DecisionContained, DecisionLeavesOne, Removal
<1> QED BY <1>5, <1>6, <1>8, <1>9 DEF RoleInv

(* The decisions. *)
LEMMA DecideSteps ==
  ASSUME RoleInv, NEW r \in RoleRequests, NEW a \in Staff,
         \/ \E c \in Customs, p \in SUBSET Catalog :
              DecideUpdate(r, a, c, p) \/ \E s \in {"global", "competition"} : DecideCreate(r, a, c, p, s)
         \/ \E c \in Customs : DecideDelete(r, a, c)
         \/ \E u \in Staff, c \in RoleIds : DecideAssign(r, a, u, c)
         \/ \E g \in grant : DecideUnassign(r, a, g)
         \/ \E u \in Staff, op \in {"ban", "remove"} : DecideRemoval(r, a, u, op)
  PROVE  RoleInv'
<1> USE RoleAssumption
<1>0. RoleTypeOK /\ RolesContained /\ AdminRemains
  BY DEF RoleInv
<1>1. PICK adm \in BOOLEAN : adm = AdminOf(a)
  BY DEF AdminOf
<1>2. ~ adm => Global(a) \subseteq given
  BY <1>0, <1>1, HeldWithin
<1>3. setup
  BY MayIsSetUp DEF DecideUpdate, DecideCreate, DecideDelete, DecideAssign, DecideAssignIf,
                    DecideUnassign, DecideUnassignIf, DecideRemoval
<1>4. ASSUME NEW c \in Customs, NEW p \in SUBSET Catalog, NEW s \in {"global", "competition"},
             DecideCreate(r, a, c, p, s)
      PROVE  RoleInv'
  <2>1. PICK q : q = [Absent EXCEPT !.op = "create", !.admin = adm, !.role = c, !.perms = p,
                                    !.scope = s]
    OBVIOUS
  <2>2. PICK b : b = [Absent EXCEPT !.op = "create", !.admin = adm]
    OBVIOUS
  <2>3. b \in RoleRequest /\ b.op = "create"
    BY <2>2, AbsentRequest DEF RoleRequest
  <2>4. b.admin <=> adm
    BY <2>2, AbsentRequest DEF RoleRequest
  <2>5. q = [b EXCEPT !.role = c, !.perms = p, !.scope = s]
    BY <2>1, <2>2
  <2>6. q \in RoleRequest /\ q.op = "create" /\ q.role = c /\ q.perms = p
    BY <2>3, <2>5 DEF RoleRequest, RoleIds
  <2>7. q.admin <=> adm
    BY <2>3, <2>4, <2>5 DEF RoleRequest
  <2>8. Decide(r, q) /\ p \subseteq Global(a)
    BY <1>1, <1>4, <2>1 DEF DecideCreate
  <2>9. DecisionFits(q) /\ DecisionContained(q) /\ DecisionLeavesOne(q)
    BY <1>2, <1>3, <2>6, <2>7, <2>8 DEF DecisionFits, DecisionContained, DecisionLeavesOne,
                                        Removal
  <2> QED BY <2>6, <2>8, <2>9, Decided
<1>5. ASSUME NEW c \in Customs, NEW p \in SUBSET Catalog, DecideUpdate(r, a, c, p)
      PROVE  RoleInv'
  <2>1. PICK q : q = [Absent EXCEPT !.op = "update", !.admin = adm, !.role = c, !.perms = p]
    OBVIOUS
  <2>2. PICK b : b = [Absent EXCEPT !.op = "update", !.admin = adm]
    OBVIOUS
  <2>3. b \in RoleRequest /\ b.op = "update"
    BY <2>2, AbsentRequest DEF RoleRequest
  <2>4. b.admin <=> adm
    BY <2>2, AbsentRequest DEF RoleRequest
  <2>5. q = [b EXCEPT !.role = c, !.perms = p]
    BY <2>1, <2>2
  <2>6. q \in RoleRequest /\ q.op = "update" /\ q.role = c /\ q.perms = p
    BY <2>3, <2>5 DEF RoleRequest, RoleIds
  <2>7. q.admin <=> adm
    BY <2>3, <2>4, <2>5 DEF RoleRequest
  <2>8. Decide(r, q) /\ p \ role[c].perms \subseteq Global(a)
    BY <1>1, <1>5, <2>1 DEF DecideUpdate
  <2>9. role[c].perms \subseteq given
    BY <1>0 DEF RolesContained
  <2>10. ~ adm => p \subseteq given
    BY <1>2, <2>8, <2>9
  <2>11. DecisionFits(q) /\ DecisionContained(q) /\ DecisionLeavesOne(q)
    BY <1>3, <2>6, <2>7, <2>10 DEF DecisionFits, DecisionContained, DecisionLeavesOne, Removal
  <2> QED BY <2>6, <2>8, <2>11, Decided
<1>6. ASSUME NEW c \in Customs, DecideDelete(r, a, c) PROVE RoleInv'
  <2>1. PICK q : q = [Absent EXCEPT !.op = "delete", !.admin = adm, !.role = c]
    OBVIOUS
  <2>2. q \in RoleRequest /\ q.op = "delete" /\ q.role = c
    BY <2>1, AbsentRequest DEF RoleRequest, RoleIds
  <2>3. Decide(r, q)
    BY <1>1, <1>6, <2>1 DEF DecideDelete
  <2>4. DecisionFits(q) /\ DecisionContained(q) /\ DecisionLeavesOne(q)
    BY <1>3, <2>2 DEF DecisionFits, DecisionContained, DecisionLeavesOne, Removal
  <2> QED BY <2>2, <2>3, <2>4, Decided
<1>7. ASSUME NEW u \in Staff, NEW c \in RoleIds, DecideAssign(r, a, u, c) PROVE RoleInv'
  <2>1. PICK q : q = [Absent EXCEPT !.op = "assign", !.admin = adm, !.subject = u, !.role = c]
    OBVIOUS
  <2>2. PICK b : b = [Absent EXCEPT !.op = "assign", !.admin = adm]
    OBVIOUS
  <2>3. b \in RoleRequest /\ b.op = "assign"
    BY <2>2, AbsentRequest DEF RoleRequest
  <2>4. b.admin <=> adm
    BY <2>2, AbsentRequest DEF RoleRequest
  <2>5. q = [b EXCEPT !.subject = u, !.role = c]
    BY <2>1, <2>2
  <2>6. q \in RoleRequest /\ q.op = "assign" /\ q.role = c /\ q.subject = u
    BY <2>3, <2>5 DEF RoleRequest
  <2>7. q.admin <=> adm
    BY <2>3, <2>4, <2>5 DEF RoleRequest
  <2>8. Decide(r, q) /\ role[c].perms \subseteq Global(a)
    BY <1>1, <1>7, <2>1 DEF DecideAssign, DecideAssignIf
  <2>9. c = Administrator => role[c].perms = Catalog
    BY <1>0 DEF RolesContained
  <2>10. DecisionFits(q) /\ DecisionContained(q) /\ DecisionLeavesOne(q)
    BY <1>2, <1>3, <2>6, <2>7, <2>8, <2>9 DEF DecisionFits, DecisionContained,
                                              DecisionLeavesOne, Removal
  <2> QED BY <2>6, <2>8, <2>10, Decided
<1>8. ASSUME NEW g \in grant, DecideUnassign(r, a, g) PROVE RoleInv'
  <2>0. g.user \in Staff /\ g.role \in RoleIds /\ g.copy \in {1, 2}
    BY <1>0 DEF RoleTypeOK, Grant
  <2>1. PICK q : q = [Absent EXCEPT !.op = "unassign", !.admin = adm, !.subject = g.user,
                                    !.role = g.role, !.copy = g.copy]
    OBVIOUS
  <2>2. PICK b : b = [Absent EXCEPT !.op = "unassign", !.admin = adm]
    OBVIOUS
  <2>3. b \in RoleRequest /\ b.op = "unassign"
    BY <2>2, AbsentRequest DEF RoleRequest
  <2>4. q = [b EXCEPT !.subject = g.user, !.role = g.role, !.copy = g.copy]
    BY <2>1, <2>2
  <2>5. q \in RoleRequest /\ q.op = "unassign" /\ q.role = g.role /\ q.subject = g.user
    BY <2>0, <2>3, <2>4 DEF RoleRequest
  <2>6. Decide(r, q) /\ (g.role = Administrator => ActiveAdmins \ {g.user} # {})
    BY <1>1, <1>8, <2>1 DEF DecideUnassign, DecideUnassignIf
  <2>7. DecisionFits(q) /\ DecisionContained(q) /\ DecisionLeavesOne(q)
    BY <1>3, <2>0, <2>5, <2>6 DEF DecisionFits, DecisionContained, DecisionLeavesOne, Removal
  <2> QED BY <2>5, <2>6, <2>7, Decided
<1>9. ASSUME NEW u \in Staff, NEW op \in {"ban", "remove"}, DecideRemoval(r, a, u, op)
      PROVE  RoleInv'
  <2>1. PICK q : q = [Absent EXCEPT !.op = op, !.admin = adm, !.subject = u]
    OBVIOUS
  <2>2. q \in RoleRequest /\ q.op = op /\ q.subject = u
    BY <2>1, AbsentRequest DEF RoleRequest
  <2>3. Decide(r, q) /\ (AdminOf(u) => ActiveAdmins \ {u} # {})
    BY <1>1, <1>9, <2>1 DEF DecideRemoval
  <2>4. ~ crossed => ActiveAdmins \ {u} # {}
    BY <1>0, <1>3, <2>3 DEF AdminRemains, ActiveAdmins
  <2>5. DecisionFits(q) /\ DecisionContained(q) /\ DecisionLeavesOne(q)
    BY <1>3, <2>2, <2>4 DEF DecisionFits, DecisionContained, DecisionLeavesOne, Removal
  <2> QED BY <2>2, <2>3, <2>5, Decided
<1> QED BY <1>4, <1>5, <1>6, <1>7, <1>8, <1>9

(* Deciding the first-run set-up keeps the invariant.                      *)
LEMMA DecideSetupStep ==
  ASSUME RoleInv, NEW r \in RoleRequests, NEW u \in Staff, DecideSetup(r, u)
  PROVE  RoleInv'
<1>1. PICK q : q = [Absent EXCEPT !.op = "setup", !.subject = u]
  OBVIOUS
<1>2. q \in RoleRequest /\ q.op = "setup" /\ q.subject = u
  BY <1>1, AbsentRequest DEF RoleRequest
<1>3. Decide(r, q)
  BY <1>1 DEF DecideSetup
<1>4. DecisionFits(q) /\ DecisionContained(q) /\ DecisionLeavesOne(q)
  BY <1>2 DEF DecisionFits, DecisionContained, DecisionLeavesOne, Removal
<1> QED BY <1>2, <1>3, <1>4, Decided

(* A write that takes no administrator away and narrows nobody's reach     *)
(* leaves the other decisions as good as they were.                        *)
LEMMA DecisionsKept ==
  ASSUME RoleInv, \A q \in RoleRequests : rreq'[q] = rreq[q] \/ rreq'[q] = Absent,
         given \subseteq given', setup => setup', crossed => crossed',
         ActiveAdmins \subseteq ActiveAdmins'
  PROVE  \A q \in RoleRequests : /\ DecisionFits(rreq[q])'
                                 /\ DecisionContained(rreq[q])'
                                 /\ DecisionLeavesOne(rreq[q])'
<1> SUFFICES ASSUME NEW q \in RoleRequests
             PROVE  /\ DecisionFits(rreq[q])' /\ DecisionContained(rreq[q])'
                    /\ DecisionLeavesOne(rreq[q])'
  OBVIOUS
<1>1. /\ DecisionFits(rreq'[q]) /\ DecisionContained(rreq'[q]) /\ DecisionLeavesOne(rreq'[q])
  BY AbsentFits DEF RoleInv
<1>2. DecisionFits(rreq[q])'
  BY <1>1 DEF DecisionFits
<1>3. DecisionContained(rreq[q])'
  BY <1>1 DEF DecisionContained
<1>4. DecisionLeavesOne(rreq[q])'
  BY <1>1 DEF DecisionLeavesOne, Removal
<1> QED BY <1>2, <1>3, <1>4

(* What closing a request leaves of the decisions under way.               *)
LEMMA ClosedRequest ==
  ASSUME RoleInv, NEW r \in RoleRequests, Close(r)
  PROVE  /\ rreq' \in [RoleRequests -> RoleRequest]
         /\ decided' \in 0 .. MaxDecisions
         /\ \A q \in RoleRequests : rreq'[q] = rreq[q] \/ rreq'[q] = Absent
         /\ rreq[r] \in RoleRequest /\ DecisionFits(rreq[r]) /\ DecisionContained(rreq[r])
         /\ DecisionLeavesOne(rreq[r])
<1>1. rreq \in [RoleRequests -> RoleRequest] /\ decided \in 0 .. MaxDecisions
  BY DEF RoleInv, RoleTypeOK
<1>2. rreq' = [rreq EXCEPT ![r] = Absent] /\ decided' = decided
  BY DEF Close
<1> QED BY <1>1, <1>2, AbsentRequest DEF RoleInv

(* Writing an edited or a new role keeps the invariant.                    *)
LEMMA WriteRoleStep ==
  ASSUME RoleInv, NEW r \in RoleRequests, WriteRole(r)
  PROVE  RoleInv'
<1> USE RoleAssumption
<1>0. /\ RoleTypeOK /\ RolesContained /\ role \in [RoleIds -> RoleRow]
      /\ rreq[r].op \in {"create", "update"} /\ Close(r)
      /\ UNCHANGED <<grant, status, setup, owners, crossed>>
  BY DEF RoleInv, RoleTypeOK, WriteRole
<1>1. /\ rreq' \in [RoleRequests -> RoleRequest] /\ decided' \in 0 .. MaxDecisions
      /\ \A q \in RoleRequests : rreq'[q] = rreq[q] \/ rreq'[q] = Absent
      /\ rreq[r] \in RoleRequest /\ DecisionFits(rreq[r]) /\ DecisionContained(rreq[r])
  BY <1>0, ClosedRequest
<1>2. PICK c \in Customs : c = rreq[r].role
  BY <1>0, <1>1 DEF DecisionFits
<1>3. PICK p \in SUBSET Catalog : p = rreq[r].perms
  BY <1>1 DEF RoleRequest
<1>4. role' = role \/ role' = [role EXCEPT ![c] = Written(role[c], rreq[r])]
  BY <1>2 DEF WriteRole
<1>5. /\ given \subseteq given' /\ given' \subseteq Catalog
      /\ role' = role \/ p \subseteq given'
  <2>1. given' = given \/ given' = given \cup p
    BY <1>3 DEF WriteRole, Reach
  <2>2. CASE role' = role
    BY <1>0, <2>1, <2>2 DEF RoleTypeOK
  <2>3. CASE role' # role
    <3>1. given' = IF rreq[r].admin THEN given \cup p ELSE given
      BY <1>3, <2>3 DEF WriteRole, Reach
    <3>2. ~ rreq[r].admin => p \subseteq given
      BY <1>0, <1>1, <1>3 DEF DecisionContained
    <3> QED BY <1>0, <2>1, <3>1, <3>2 DEF RoleTypeOK
  <2> QED BY <2>2, <2>3
<1>6. Written(role[c], rreq[r]) \in RoleRow /\ Written(role[c], rreq[r]).perms = p
  <2>1. role[c] \in RoleRow
    BY <1>0 DEF RoleIds
  <2>2. PICK sc \in {"global", "competition"} :
          sc = IF rreq[r].op = "create" THEN rreq[r].scope ELSE role[c].scope
    BY <1>1, <2>1 DEF RoleRow, RoleRequest
  <2>3. Written(role[c], rreq[r]) = [exists |-> TRUE, perms |-> p, scope |-> sc]
    BY <1>3, <2>2 DEF Written
  <2> QED BY <2>3 DEF RoleRow
<1>7. role' \in [RoleIds -> RoleRow]
  BY <1>0, <1>4, <1>6
<1>8. \A x \in RoleIds : role'[x] = role[x] \/ (x = c /\ role'[x].perms \subseteq given')
  <2>1. CASE role' = role
    BY <2>1
  <2>2. CASE role' # role
    <3>1. role' = [role EXCEPT ![c] = Written(role[c], rreq[r])] /\ p \subseteq given'
      BY <1>4, <1>5, <2>2
    <3> QED BY <1>0, <1>6, <3>1
  <2> QED BY <2>1, <2>2
<1>9. RoleTypeOK'
  BY <1>0, <1>1, <1>5, <1>7 DEF RoleTypeOK
<1>10. RolesContained'
  <2>1. role'[Administrator] = role[Administrator]
    BY <1>8 DEF RoleIds
  <2>2. ASSUME NEW x \in Customs PROVE role'[x].perms \subseteq given'
    BY <1>0, <1>5, <1>8 DEF RoleIds, RolesContained
  <2> QED BY <1>0, <1>5, <2>1, <2>2 DEF RolesContained
<1>11. ActiveAdmins' = ActiveAdmins
  BY <1>0 DEF ActiveAdmins, AdminOf
<1>12. FreshInstall' /\ AdminRemains' /\ \A x, y \in owners' : x = y
  BY <1>0, <1>11 DEF RoleInv, FreshInstall, AdminRemains
<1>13. \A q \in RoleRequests : /\ DecisionFits(rreq[q])' /\ DecisionContained(rreq[q])'
                               /\ DecisionLeavesOne(rreq[q])'
  BY <1>0, <1>1, <1>5, <1>11, DecisionsKept
<1> QED BY <1>9, <1>10, <1>12, <1>13 DEF RoleInv

(* Deleting a role with its assignments keeps the invariant.               *)
LEMMA DeleteRoleStep ==
  ASSUME RoleInv, NEW r \in RoleRequests, DeleteRole(r)
  PROVE  RoleInv'
<1> USE RoleAssumption
<1>0. /\ RoleTypeOK /\ RolesContained /\ role \in [RoleIds -> RoleRow]
      /\ rreq[r].op = "delete" /\ Close(r)
      /\ UNCHANGED <<status, setup, given, owners, crossed>>
  BY DEF RoleInv, RoleTypeOK, DeleteRole
<1>1. /\ rreq' \in [RoleRequests -> RoleRequest] /\ decided' \in 0 .. MaxDecisions
      /\ \A q \in RoleRequests : rreq'[q] = rreq[q] \/ rreq'[q] = Absent
      /\ DecisionFits(rreq[r])
  BY <1>0, ClosedRequest
<1>2. PICK c \in Customs : c = rreq[r].role
  BY <1>0, <1>1 DEF DecisionFits
<1>3. PICK gone : gone = [exists |-> FALSE, perms |-> {}, scope |-> "global"]
  OBVIOUS
<1>4. gone \in RoleRow /\ gone.perms = {}
  BY <1>3 DEF RoleRow
<1>5. role' = [role EXCEPT ![c] = gone] /\ grant' = {g \in grant : g.role # c}
  BY <1>2, <1>3 DEF DeleteRole
<1>6. role' \in [RoleIds -> RoleRow]
  BY <1>0, <1>4, <1>5
<1>7. \A x \in RoleIds : role'[x] = IF x = c THEN gone ELSE role[x]
  BY <1>0, <1>5
<1>8. RoleTypeOK'
  BY <1>0, <1>1, <1>5, <1>6 DEF RoleTypeOK
<1>9. RolesContained'
  <2>1. role'[Administrator] = role[Administrator]
    BY <1>7 DEF RoleIds
  <2>2. \A x \in Customs : role'[x].perms \subseteq given
    BY <1>0, <1>4, <1>7 DEF RoleIds, RolesContained
  <2> QED BY <1>0, <1>5, <2>1, <2>2 DEF RolesContained
<1>10. ActiveAdmins' = ActiveAdmins
  <2>1. \A u : AdminOf(u)' <=> AdminOf(u)
    BY <1>5 DEF AdminOf
  <2> QED BY <1>0, <2>1 DEF ActiveAdmins
<1>11. FreshInstall' /\ AdminRemains' /\ \A x, y \in owners' : x = y
  BY <1>0, <1>5, <1>10 DEF RoleInv, FreshInstall, AdminRemains
<1>12. \A q \in RoleRequests : /\ DecisionFits(rreq[q])' /\ DecisionContained(rreq[q])'
                               /\ DecisionLeavesOne(rreq[q])'
  BY <1>0, <1>1, <1>10, DecisionsKept
<1> QED BY <1>8, <1>9, <1>11, <1>12 DEF RoleInv

(* Writing a grant keeps the invariant.                                    *)
LEMMA AssignRoleStep ==
  ASSUME RoleInv, NEW r \in RoleRequests, AssignRole(r)
  PROVE  RoleInv'
<1> USE RoleAssumption
<1>0. /\ RoleTypeOK /\ RolesContained /\ role \in [RoleIds -> RoleRow]
      /\ rreq[r].op = "assign" /\ Close(r)
      /\ UNCHANGED <<role, status, setup, owners, crossed>>
  BY DEF RoleInv, RoleTypeOK, AssignRole
<1>1. /\ rreq' \in [RoleRequests -> RoleRequest] /\ decided' \in 0 .. MaxDecisions
      /\ \A q \in RoleRequests : rreq'[q] = rreq[q] \/ rreq'[q] = Absent
      /\ DecisionFits(rreq[r]) /\ DecisionContained(rreq[r])
  BY <1>0, ClosedRequest
<1>2. PICK u \in Staff, c \in RoleIds : u = rreq[r].subject /\ c = rreq[r].role
  BY <1>0, <1>1 DEF DecisionFits
<1>3. setup
  BY <1>0, <1>1 DEF DecisionFits
<1>4. \/ grant' = grant /\ given' = given
      \/ \E n \in {1, 2} :
           /\ grant' = grant \cup {[user |-> u, role |-> c, copy |-> n]}
           /\ given' = IF rreq[r].admin THEN given \cup role[c].perms ELSE given
  BY <1>2 DEF AssignRole, Reach
<1>5. role[c].perms \subseteq Catalog
  BY <1>0 DEF RoleRow
<1>6. given \subseteq given' /\ given' \subseteq Catalog /\ grant \subseteq grant'
  BY <1>0, <1>4, <1>5 DEF RoleTypeOK
<1>7. grant' \subseteq Grant
  BY <1>0, <1>4 DEF RoleTypeOK, Grant
<1>8. RoleTypeOK'
  BY <1>0, <1>1, <1>6, <1>7 DEF RoleTypeOK
<1>9. ASSUME NEW g \in grant', g.role = Administrator
      PROVE  g.user \in {Owner, Deputy} \cup owners \/ Catalog \subseteq given'
  <2>1. CASE g \in grant
    BY <1>0, <1>6, <1>9, <2>1 DEF RolesContained
  <2>2. CASE g \notin grant
    <3>1. c = Administrator /\ given' = IF rreq[r].admin THEN given \cup role[c].perms ELSE given
      BY <1>4, <1>9, <2>2
    <3>2. role[c].perms = Catalog
      BY <1>0, <3>1 DEF RolesContained
    <3>3. ~ rreq[r].admin => Catalog \subseteq given
      BY <1>0, <1>1, <1>2, <3>1 DEF DecisionContained
    <3> QED BY <3>1, <3>2, <3>3
  <2> QED BY <2>1, <2>2
<1>10. RolesContained'
  BY <1>0, <1>6, <1>9 DEF RolesContained
<1>11. ActiveAdmins \subseteq ActiveAdmins'
  BY <1>0, <1>6 DEF ActiveAdmins, AdminOf
<1>12. FreshInstall' /\ AdminRemains' /\ \A x, y \in owners' : x = y
  BY <1>0, <1>3, <1>11 DEF RoleInv, FreshInstall, AdminRemains
<1>13. \A q \in RoleRequests : /\ DecisionFits(rreq[q])' /\ DecisionContained(rreq[q])'
                               /\ DecisionLeavesOne(rreq[q])'
  BY <1>0, <1>1, <1>6, <1>11, DecisionsKept
<1> QED BY <1>8, <1>10, <1>12, <1>13 DEF RoleInv

(* The set-up's compare-and-set keeps the invariant.                       *)
LEMMA ClaimSetupStep ==
  ASSUME RoleInv, NEW r \in RoleRequests, ClaimSetup(r)
  PROVE  RoleInv'
<1> USE RoleAssumption
<1>0. /\ RoleTypeOK /\ RolesContained /\ FreshInstall
      /\ rreq[r].op = "setup" /\ Close(r) /\ setup'
      /\ UNCHANGED <<role, status, given, crossed>>
  BY DEF RoleInv, ClaimSetup, ClaimSetupIf
<1>1. /\ rreq' \in [RoleRequests -> RoleRequest] /\ decided' \in 0 .. MaxDecisions
      /\ \A q \in RoleRequests : rreq'[q] = rreq[q] \/ rreq'[q] = Absent
      /\ DecisionFits(rreq[r])
  BY <1>0, ClosedRequest
<1>2. PICK u \in Staff : u = rreq[r].subject
  BY <1>0, <1>1 DEF DecisionFits
<1>3. PICK g : g = [user |-> u, role |-> Administrator, copy |-> 1]
  OBVIOUS
<1>4. g \in Grant /\ g.user = u /\ g.role = Administrator
  BY <1>3 DEF Grant, RoleIds
<1>5. \/ setup /\ grant' = grant /\ owners' = owners
      \/ ~ setup /\ grant' = grant \cup {g} /\ owners' = owners \cup {u}
  BY <1>2, <1>3 DEF ClaimSetup, ClaimSetupIf
<1>6. RoleTypeOK'
  <2>1. setup' \in BOOLEAN
    BY DEF ClaimSetup, ClaimSetupIf
  <2> QED BY <1>0, <1>1, <1>4, <1>5, <2>1 DEF RoleTypeOK
<1>7. RolesContained'
  BY <1>0, <1>4, <1>5 DEF RolesContained
<1>8. \A x, y \in owners' : x = y
  BY <1>0, <1>5 DEF RoleInv, FreshInstall
<1>9. ActiveAdmins \subseteq ActiveAdmins'
  BY <1>0, <1>5 DEF ActiveAdmins, AdminOf
<1>10. AdminRemains'
  <2>1. CASE setup
    BY <1>0, <1>9, <2>1 DEF RoleInv, AdminRemains
  <2>2. CASE ~ setup
    <3>1. status'[u] = "active"
      BY <1>0, <2>2 DEF FreshInstall
    <3>2. AdminOf(u)'
      BY <1>4, <1>5, <2>2 DEF AdminOf
    <3> QED BY <3>1, <3>2 DEF AdminRemains, ActiveAdmins
  <2> QED BY <2>1, <2>2
<1>11. FreshInstall'
  BY <1>0 DEF FreshInstall
<1>12. \A q \in RoleRequests : /\ DecisionFits(rreq[q])' /\ DecisionContained(rreq[q])'
                               /\ DecisionLeavesOne(rreq[q])'
  BY <1>0, <1>1, <1>9, DecisionsKept
<1> QED BY <1>6, <1>7, <1>8, <1>10, <1>11, <1>12 DEF RoleInv

(* The administrator a removal was decided to leave is still one, unless   *)
(* another removal was pending, and then the two have overlapped.          *)
LEMMA RemoveAccessStep ==
  ASSUME RoleInv, NEW r \in RoleRequests, RemoveAccess(r)
  PROVE  RoleInv'
<1> USE RoleAssumption
<1>0. /\ RoleTypeOK /\ RolesContained /\ grant \subseteq Grant
      /\ rreq[r].op \in {"unassign", "ban", "remove"} /\ Close(r)
      /\ crossed' = (crossed \/ OtherRemoval(r))
      /\ UNCHANGED <<role, setup, given, owners>>
  BY DEF RoleInv, RoleTypeOK, RemoveAccess
<1>1. /\ rreq' \in [RoleRequests -> RoleRequest] /\ decided' \in 0 .. MaxDecisions
      /\ \A q \in RoleRequests : rreq'[q] = rreq[q] \/ rreq'[q] = Absent
      /\ DecisionFits(rreq[r]) /\ DecisionLeavesOne(rreq[r])
  BY <1>0, ClosedRequest
<1>2. PICK u \in Staff : u = rreq[r].subject
  BY <1>0, <1>1 DEF DecisionFits
<1>3. setup
  BY <1>0, <1>1 DEF DecisionFits
<1>4. grant' \subseteq grant
  BY <1>0 DEF RemoveAccess
<1>5. status' \in [Staff -> {"active", "banned", "deleted"}]
  BY <1>0, <1>2 DEF RemoveAccess, RoleTypeOK
<1>6. RoleTypeOK'
  <2>1. crossed' \in BOOLEAN
    BY <1>0 DEF RoleTypeOK, OtherRemoval
  <2> QED BY <1>0, <1>1, <1>4, <1>5, <2>1 DEF RoleTypeOK
<1>7. RolesContained'
  BY <1>0, <1>4 DEF RolesContained
<1>8. FreshInstall' /\ \A x, y \in owners' : x = y
  BY <1>0, <1>3 DEF RoleInv, FreshInstall
<1>9. \A x \in Staff \ {u} : status'[x] = status[x]
  BY <1>0, <1>2 DEF RemoveAccess, RoleTypeOK
<1>10. \A g \in grant : g.user # u => g \in grant'
  BY <1>0, <1>2 DEF RemoveAccess
<1>11. ActiveAdmins \ {u} \subseteq ActiveAdmins'
  BY <1>9, <1>10 DEF ActiveAdmins, AdminOf
<1>12. ~ Removal(rreq[r]) => ActiveAdmins \subseteq ActiveAdmins'
  <2> SUFFICES ASSUME ~ Removal(rreq[r]) PROVE ActiveAdmins \subseteq ActiveAdmins'
    OBVIOUS
  <2>1. rreq[r].op = "unassign" /\ rreq[r].role # Administrator
    BY <1>0 DEF Removal
  <2>2. status' = status
    BY <2>1 DEF RemoveAccess
  <2>3. \A g \in grant : g.role = Administrator => g \in grant'
    BY <2>1 DEF RemoveAccess
  <2> QED BY <2>2, <2>3 DEF ActiveAdmins, AdminOf
<1>13. AdminRemains'
  <2> SUFFICES ASSUME ~ crossed' PROVE ActiveAdmins' # {}
    BY DEF AdminRemains
  <2>1. ~ crossed
    BY <1>0
  <2>2. CASE Removal(rreq[r])
    BY <1>1, <1>2, <1>11, <2>1, <2>2 DEF DecisionLeavesOne
  <2>3. CASE ~ Removal(rreq[r])
    BY <1>3, <1>12, <2>1, <2>3 DEF RoleInv, AdminRemains
  <2> QED BY <2>2, <2>3
<1>14. ASSUME NEW q \in RoleRequests
       PROVE  /\ DecisionFits(rreq[q])' /\ DecisionContained(rreq[q])'
              /\ DecisionLeavesOne(rreq[q])'
  <2>1. DecisionFits(rreq'[q]) /\ DecisionContained(rreq'[q])
    BY <1>1, AbsentFits DEF RoleInv
  <2>2. DecisionFits(rreq[q])' /\ DecisionContained(rreq[q])'
    BY <1>0, <2>1 DEF DecisionFits, DecisionContained
  <2>3. ~ crossed' => ~ Removal(rreq'[q])
    <3>1. CASE q = r
      <4>1. rreq'[q] = Absent
        BY <1>0, <3>1 DEF Close, RoleInv, RoleTypeOK
      <4> QED BY <4>1, AbsentRequest DEF Removal
    <3>2. CASE q # r
      <4>1. ~ crossed' => rreq[q].op \notin {"unassign", "ban", "remove"}
        BY <1>0, <3>2 DEF OtherRemoval
      <4> QED BY <1>1, <4>1, AbsentRequest DEF Removal
    <3> QED BY <3>1, <3>2
  <2>4. DecisionLeavesOne(rreq[q])'
    BY <2>3 DEF DecisionLeavesOne, Removal
  <2> QED BY <2>2, <2>4
<1> QED BY <1>6, <1>7, <1>8, <1>13, <1>14 DEF RoleInv

(* Lifting a ban keeps the invariant of the roles.                         *)
LEMMA UnbanUserStep ==
  ASSUME RoleInv, NEW a \in Staff, NEW u \in Staff, UnbanUser(a, u)
  PROVE  RoleInv'
<1>0. /\ status' = [status EXCEPT ![u] = "active"]
      /\ UNCHANGED <<role, grant, setup, rreq, decided, given, owners, crossed>>
      /\ setup
  BY MayIsSetUp DEF UnbanUser
<1>1. RoleTypeOK' /\ RolesContained'
  BY <1>0 DEF RoleInv, RoleTypeOK, RolesContained
<1>2. ActiveAdmins \subseteq ActiveAdmins'
  BY <1>0 DEF RoleInv, RoleTypeOK, ActiveAdmins, AdminOf
<1>3. FreshInstall' /\ AdminRemains' /\ \A x, y \in owners' : x = y
  BY <1>0, <1>2 DEF RoleInv, FreshInstall, AdminRemains
<1>4. \A q \in RoleRequests : /\ DecisionFits(rreq[q])' /\ DecisionContained(rreq[q])'
                              /\ DecisionLeavesOne(rreq[q])'
  BY <1>0, <1>2, DecisionsKept
<1> QED BY <1>1, <1>3, <1>4 DEF RoleInv

(* For any staff, roles, permissions and requests in flight: no chain of   *)
(* delegated edits and grants carries a permission to anybody that no      *)
(* administrator put within reach, an administrator remains unless two     *)
(* removals overlapped, and one setup provisions the owner (routers/       *)
(* roles.py, auth/containment.py, auth/setup.py).                          *)
THEOREM RolesHold == RoleSpec => []RolesSafe
<1>1. RoleInit => RoleInv
  BY RoleInitInv
<1>2. RoleInv /\ [RoleNext]_roleVars => RoleInv'
  <2> SUFFICES ASSUME RoleInv, [RoleNext]_roleVars PROVE RoleInv'
    OBVIOUS
  <2>1. ASSUME NEW r \in RoleRequests, NEW a \in Staff,
               \/ \E c \in Customs, p \in SUBSET Catalog :
                    DecideUpdate(r, a, c, p)
                    \/ \E s \in {"global", "competition"} : DecideCreate(r, a, c, p, s)
               \/ \E c \in Customs : DecideDelete(r, a, c)
               \/ \E u \in Staff, c \in RoleIds : DecideAssign(r, a, u, c)
               \/ \E g \in grant : DecideUnassign(r, a, g)
               \/ \E u \in Staff, op \in {"ban", "remove"} : DecideRemoval(r, a, u, op)
        PROVE  RoleInv'
    BY <2>1, DecideSteps
  <2>2. ASSUME NEW r \in RoleRequests, NEW u \in Staff, DecideSetup(r, u) PROVE RoleInv'
    BY <2>2, DecideSetupStep
  <2>3. ASSUME NEW r \in RoleRequests, ClaimSetup(r) PROVE RoleInv'
    BY <2>3, ClaimSetupStep
  <2>4. ASSUME NEW r \in RoleRequests, WriteRole(r) \/ DeleteRole(r) PROVE RoleInv'
    BY <2>4, WriteRoleStep, DeleteRoleStep
  <2>5. ASSUME NEW r \in RoleRequests, AssignRole(r) \/ RemoveAccess(r) PROVE RoleInv'
    BY <2>5, AssignRoleStep, RemoveAccessStep
  <2>6. ASSUME NEW a \in Staff, NEW u \in Staff, UnbanUser(a, u) PROVE RoleInv'
    BY <2>6, UnbanUserStep
  <2>7. CASE UNCHANGED roleVars
    BY <2>7 DEF roleVars, RoleInv, RoleTypeOK, RolesContained, FreshInstall, AdminRemains,
                ActiveAdmins, AdminOf, DecisionFits, DecisionContained, DecisionLeavesOne,
                Removal
  <2> QED BY <2>1, <2>2, <2>3, <2>4, <2>5, <2>6, <2>7 DEF RoleNext
<1>3. RoleInv => RolesSafe
  <2> SUFFICES ASSUME RoleInv PROVE RolesSafe
    OBVIOUS
  <2>1. RoleTypeOK /\ AdminRemains
    BY DEF RoleInv
  <2>2. Contained
    BY ContainedFollows DEF RoleInv
  <2>3. Cardinality(owners) <= 1
    BY AtMostOne DEF RoleInv
  <2> QED BY <2>1, <2>2, <2>3 DEF RolesSafe, OneOwner
<1> QED BY <1>1, <1>2, <1>3, PTL DEF RoleSpec
-----------------------------------------------------------------------------
(***************************************************************************)
(* Account e-mail.  What a request in flight will do rests on what was     *)
(* true when it began; of that only this outlives the awaits: who it is    *)
(* about, that a mailed link names an address, and that an external login  *)
(* about to be linked goes to an account whose proof of the address was    *)
(* seen.  Proofs and overtaken stamps are only ever added to.              *)
(***************************************************************************)
MailRequestFits(q) ==
    /\ q.op # "none" => q.user \in Users
    /\ q.op \in {"edit", "send", "resend", "forgot", "verify", "reset"} => q.email \in Addresses
    /\ q.op = "sso" => /\ q.subject \in Subjects
                       /\ q.user \notin overtaken => SubjectAddr[q.subject] \in proven[q.user]

EmailInv ==
    /\ EmailTypeOK
    /\ \A r \in EmailRequests : MailRequestFits(ereq[r])
    /\ VerifiedIsProven /\ ResetByHolder /\ LinkedOnProof

(* Proofs are kept, and so is the note of an overtaken verification.       *)
ProofsKept ==
    /\ overtaken \subseteq overtaken'
    /\ \A u \in Users : proven[u] \subseteq proven'[u]

(* Before any account exists nothing is claimed of any.                    *)
LEMMA EmailStart == EmailInit => EmailInv
<1> SUFFICES ASSUME EmailInit PROVE EmailInv
  OBVIOUS
<1> USE EmailAssumption
<1>1. EmailTypeOK
  BY DEF EmailInit, EmailTypeOK, Account, NoAccount, EmailRequest, Nothing
<1>2. \A r \in EmailRequests : MailRequestFits(ereq[r])
  BY DEF EmailInit, Nothing, MailRequestFits
<1>3. VerifiedIsProven /\ ResetByHolder /\ LinkedOnProof
  BY DEF EmailInit, VerifiedIsProven, ResetByHolder, LinkedOnProof, NoAccount
<1> QED BY <1>1, <1>2, <1>3 DEF EmailInv

(* A request that begins, and one that ends.                               *)
LEMMA RequestBegins ==
  ASSUME EmailTypeOK, NEW r \in EmailRequests, NEW q \in EmailRequest, Begin(r, q)
  PROVE  /\ ereq' \in [EmailRequests -> EmailRequest] /\ begun' \in 0 .. MaxMailSteps
         /\ ereq'[r] = q /\ \A o \in EmailRequests : o # r => ereq'[o] = ereq[o]
BY EmailAssumption DEF EmailTypeOK, Begin

LEMMA RequestEnds ==
  ASSUME EmailTypeOK, NEW r \in EmailRequests, End(r)
  PROVE  /\ ereq' \in [EmailRequests -> EmailRequest] /\ begun' \in 0 .. MaxMailSteps
         /\ ereq'[r].op = "none" /\ \A o \in EmailRequests : o # r => ereq'[o] = ereq[o]
<1>1. Nothing \in EmailRequest /\ Nothing.op = "none"
  BY DEF Nothing, EmailRequest
<1> QED BY <1>1 DEF EmailTypeOK, End

(* A step that changes one request, and no account or link but as said.    *)
LEMMA EmailOneRequest ==
  ASSUME EmailInv, EmailTypeOK', ProofsKept, NEW r \in EmailRequests,
         \A o \in EmailRequests : o # r => ereq'[o] = ereq[o],
         MailRequestFits(ereq[r])',
         VerifiedIsProven', ResetByHolder', LinkedOnProof'
  PROVE  EmailInv'
<1>1. \A o \in EmailRequests : MailRequestFits(ereq[o]) /\ ereq'[o] = ereq[o]
                                 => MailRequestFits(ereq[o])'
  BY DEF MailRequestFits, ProofsKept
<1> QED BY <1>1 DEF EmailInv

(* Links go on standing on proof, and so do the stamps of accounts that a  *)
(* step leaves alone.                                                      *)
LEMMA ProofsStand ==
  ASSUME EmailInv, ProofsKept
  PROVE  /\ link' = link => LinkedOnProof'
         /\ \A u \in Users : user'[u] = user[u] /\ user'[u].verified /\ u \notin overtaken'
              => user'[u].email \in proven'[u]
         /\ strayed' = strayed => ResetByHolder'
<1>1. link' = link => LinkedOnProof'
  <2> SUFFICES ASSUME link' = link, NEW s \in Subjects, link[s] # NoOne, link[s] \notin overtaken'
               PROVE  SubjectAddr[s] \in proven'[link[s]]
    BY DEF LinkedOnProof
  <2>1. link[s] \in Users
    BY DEF EmailInv, EmailTypeOK
  <2> QED BY <2>1 DEF EmailInv, LinkedOnProof, ProofsKept
<1>2. \A u \in Users : user'[u] = user[u] /\ user'[u].verified /\ u \notin overtaken'
              => user'[u].email \in proven'[u]
  BY DEF EmailInv, VerifiedIsProven, ProofsKept
<1>3. strayed' = strayed => ResetByHolder'
  BY DEF EmailInv, ResetByHolder
<1> QED BY <1>1, <1>2, <1>3

(* An unproven account with an address, or with none.                      *)
LEMMA RegisterStep ==
  ASSUME EmailInv, NEW r \in EmailRequests, NEW u \in Users,
         NEW e \in Addresses \cup {NoAddr}, Register(r, u, e)
  PROVE  EmailInv'
<1> USE DEF EmailInv
<1>0. /\ user' = [user EXCEPT ![u] = [exists |-> TRUE, email |-> e, verified |-> FALSE]]
      /\ \/ End(r)
         \/ e # NoAddr /\ Begin(r, [Nothing EXCEPT !.op = "send", !.user = u, !.email = e])
      /\ UNCHANGED <<vtok, rtok, link, proven, overtaken, strayed>>
  BY DEF Register
<1>1. PICK a : a = [exists |-> TRUE, email |-> e, verified |-> FALSE]
  OBVIOUS
<1>2. a \in Account /\ ~ a.verified
  BY <1>1 DEF Account
<1>3. user' \in [Users -> Account] /\ user'[u] = a /\ \A v \in Users : v # u => user'[v] = user[v]
  BY <1>0, <1>1, <1>2 DEF EmailTypeOK
<1>4. PICK q : q = [Nothing EXCEPT !.op = "send", !.user = u, !.email = e]
  OBVIOUS
<1>5. q \in EmailRequest /\ q.op = "send" /\ q.user = u /\ q.email = e
  BY <1>4 DEF EmailRequest, Nothing
<1>6. /\ ereq' \in [EmailRequests -> EmailRequest] /\ begun' \in 0 .. MaxMailSteps
      /\ \A o \in EmailRequests : o # r => ereq'[o] = ereq[o]
      /\ ereq'[r].op = "none" \/ (ereq'[r] = q /\ e # NoAddr)
  BY <1>0, <1>4, <1>5, RequestBegins, RequestEnds
<1>7. EmailTypeOK' /\ ProofsKept
  BY <1>0, <1>3, <1>6 DEF EmailTypeOK, ProofsKept
<1>8. MailRequestFits(ereq[r])'
  BY <1>5, <1>6 DEF MailRequestFits
<1>9. VerifiedIsProven'
  BY <1>2, <1>3, <1>7, ProofsStand DEF VerifiedIsProven
<1> QED
  BY <1>0, <1>6, <1>7, <1>8, <1>9, ProofsStand, EmailOneRequest

(* An account whose maker vouches for its address.                         *)
LEMMA VouchedAccount ==
  ASSUME EmailInv, NEW u \in Users, NEW e \in Addresses, CreateVouched(u, e),
         overtaken' = overtaken
  PROVE  /\ user' \in [Users -> Account] /\ proven' \in [Users -> SUBSET Addresses]
         /\ ProofsKept /\ e \in proven'[u] /\ VerifiedIsProven'
<1> USE DEF EmailInv
<1>1. PICK a : a = [exists |-> TRUE, email |-> e, verified |-> TRUE]
  OBVIOUS
<1>2. a \in Account /\ a.email = e
  BY <1>1 DEF Account
<1>3. user' = [user EXCEPT ![u] = a] /\ proven' = [proven EXCEPT ![u] = proven[u] \cup {e}]
  <2>1. {e} \ {NoAddr} = {e}
    BY EmailAssumption
  <2> QED BY <1>1, <2>1 DEF CreateVouched
<1>4. /\ user' \in [Users -> Account] /\ user'[u] = a
      /\ \A v \in Users : v # u => user'[v] = user[v]
  BY <1>2, <1>3 DEF EmailTypeOK
<1>5. /\ proven' \in [Users -> SUBSET Addresses] /\ proven'[u] = proven[u] \cup {e}
      /\ \A v \in Users : v # u => proven'[v] = proven[v]
  BY <1>3 DEF EmailTypeOK
<1>6. ProofsKept
  BY <1>5 DEF ProofsKept
<1>7. VerifiedIsProven'
  BY <1>2, <1>4, <1>5, <1>6, ProofsStand DEF VerifiedIsProven
<1> QED BY <1>4, <1>5, <1>6, <1>7

(* Staff vouches for the address it enters.                                *)
LEMMA CreateUserStep ==
  ASSUME EmailInv, NEW u \in Users, NEW e \in Addresses, CreateUser(u, e)
  PROVE  EmailInv'
<1>1. /\ CreateVouched(u, e)
      /\ UNCHANGED <<vtok, rtok, link, ereq, begun, overtaken, strayed>>
  BY DEF CreateUser
<1>2. /\ user' \in [Users -> Account] /\ proven' \in [Users -> SUBSET Addresses]
      /\ ProofsKept /\ VerifiedIsProven'
  BY <1>1, VouchedAccount
<1>3. EmailTypeOK'
  BY <1>1, <1>2 DEF EmailInv, EmailTypeOK
<1>4. \A o \in EmailRequests : MailRequestFits(ereq[o])'
  BY <1>1, <1>2 DEF EmailInv, MailRequestFits, ProofsKept
<1> QED
  BY <1>1, <1>2, <1>3, <1>4, ProofsStand DEF EmailInv

(* A handler that has only read so far.                                    *)
LEMMA ReadsOnly ==
  ASSUME EmailInv, NEW r \in EmailRequests, NEW q \in EmailRequest,
         Begin(r, q), MailRequestFits(q),
         UNCHANGED <<user, vtok, rtok, link, proven, overtaken, strayed>>
  PROVE  EmailInv'
<1> USE DEF EmailInv
<1>1. /\ ereq' \in [EmailRequests -> EmailRequest] /\ begun' \in 0 .. MaxMailSteps
      /\ ereq'[r] = q /\ \A o \in EmailRequests : o # r => ereq'[o] = ereq[o]
  BY RequestBegins
<1>2. EmailTypeOK' /\ ProofsKept
  BY <1>1 DEF EmailTypeOK, ProofsKept
<1>3. MailRequestFits(ereq[r])'
  BY <1>1 DEF MailRequestFits
<1>4. VerifiedIsProven'
  BY DEF VerifiedIsProven
<1> QED
  BY <1>1, <1>2, <1>3, <1>4, ProofsStand, EmailOneRequest

(* A handler of a signed-in user, or of staff, has loaded the row.         *)
LEMMA LoadStep ==
  ASSUME EmailInv, NEW r \in EmailRequests, NEW u \in Users, NEW op,
         NEW e \in Addresses \cup {NoAddr}, Load(r, u, op, e)
  PROVE  EmailInv'
<1>1. PICK q : q = [Nothing EXCEPT !.op = op, !.user = u, !.email = e,
                       !.verified = op = "edit" /\ user[u].verified]
  OBVIOUS
<1>2. /\ Begin(r, q) /\ op \in {"change", "edit", "resend"}
      /\ op = "edit" => e # NoAddr
      /\ op = "resend" => e # NoAddr
      /\ UNCHANGED <<user, vtok, rtok, link, proven, overtaken, strayed>>
  BY <1>1 DEF Load
<1>3. (op = "edit" /\ user[u].verified) \in BOOLEAN
  OBVIOUS
<1>4. q = [op |-> op, user |-> u, email |-> e, verified |-> (op = "edit" /\ user[u].verified),
           subject |-> NoOne]
  BY <1>1 DEF Nothing
<1>5. q \in EmailRequest /\ q.op = op /\ q.user = u /\ q.email = e
  BY <1>2, <1>3, <1>4 DEF EmailRequest
<1>6. MailRequestFits(q)
  BY <1>2, <1>5 DEF MailRequestFits
<1> QED BY <1>2, <1>5, <1>6, ReadsOnly

(* A reset was asked for, for the address just read.                       *)
LEMMA ForgotPasswordStep ==
  ASSUME EmailInv, NEW r \in EmailRequests, NEW u \in Users, ForgotPassword(r, u)
  PROVE  EmailInv'
<1>1. PICK q : q = [Nothing EXCEPT !.op = "forgot", !.user = u, !.email = user[u].email]
  OBVIOUS
<1>2. /\ Begin(r, q) /\ user[u].email # NoAddr
      /\ UNCHANGED <<user, vtok, rtok, link, proven, overtaken, strayed>>
  BY <1>1 DEF ForgotPassword
<1>3. user[u].email \in Addresses
  BY <1>2 DEF EmailInv, EmailTypeOK, Account
<1>4. q \in EmailRequest /\ q.op = "forgot" /\ q.user = u /\ q.email = user[u].email
  BY <1>1, <1>3 DEF EmailRequest, Nothing
<1>5. MailRequestFits(q)
  BY <1>3, <1>4 DEF MailRequestFits
<1> QED BY <1>2, <1>4, <1>5, ReadsOnly

(* A link names a user and an address.                                     *)
LEMMA FollowLinkStep ==
  ASSUME EmailInv, NEW r \in EmailRequests, NEW t \in Mail, NEW op \in {"verify", "reset"},
         FollowLink(r, t, op)
  PROVE  EmailInv'
<1>1. PICK q : q = [Nothing EXCEPT !.op = op, !.user = t.user, !.email = t.email]
  OBVIOUS
<1>2. /\ Begin(r, q)
      /\ UNCHANGED <<user, vtok, rtok, link, proven, overtaken, strayed>>
  BY <1>1 DEF FollowLink
<1>3. t.user \in Users /\ t.email \in Addresses
  BY DEF Mail
<1>4. q \in EmailRequest /\ q.op = op /\ q.user = t.user /\ q.email = t.email
  BY <1>1, <1>3 DEF EmailRequest, Nothing
<1>5. MailRequestFits(q)
  BY <1>3, <1>4 DEF MailRequestFits
<1> QED BY <1>2, <1>4, <1>5, ReadsOnly

(* The account with the asserted address must have it stamped; a fresh one *)
(* is linked at once.                                                      *)
LEMMA ResolveIdentityStep ==
  ASSUME EmailInv, NEW r \in EmailRequests, NEW s \in Subjects, ResolveIdentity(r, s)
  PROVE  EmailInv'
<1> USE DEF EmailInv
<1>0. SubjectAddr[s] \in Addresses
  BY EmailAssumption
<1>1. ASSUME NEW u \in Matches(s), user[u].verified,
             Begin(r, [Nothing EXCEPT !.op = "sso", !.user = u, !.subject = s]),
             UNCHANGED <<user, vtok, rtok, link, proven, overtaken, strayed>>
      PROVE  EmailInv'
  <2>1. PICK q : q = [Nothing EXCEPT !.op = "sso", !.user = u, !.subject = s]
    OBVIOUS
  <2>2. u \in Users /\ user[u].email = SubjectAddr[s]
    BY DEF Matches
  <2>3. q \in EmailRequest /\ q.op = "sso" /\ q.user = u /\ q.subject = s
    BY <2>1, <2>2 DEF EmailRequest, Nothing
  <2>4. MailRequestFits(q)
    BY <1>1, <2>2, <2>3 DEF MailRequestFits, VerifiedIsProven
  <2> QED BY <1>1, <2>1, <2>3, <2>4, ReadsOnly
<1>2. ASSUME NEW u \in Users, CreateVouched(u, SubjectAddr[s]), link' = [link EXCEPT ![s] = u],
             UNCHANGED <<ereq, begun, vtok, rtok, overtaken, strayed>>
      PROVE  EmailInv'
  <2>1. /\ user' \in [Users -> Account] /\ proven' \in [Users -> SUBSET Addresses]
        /\ ProofsKept /\ SubjectAddr[s] \in proven'[u] /\ VerifiedIsProven'
    BY <1>0, <1>2, VouchedAccount
  <2>2. link' \in [Subjects -> Users \cup {NoOne}] /\ link'[s] = u
        /\ \A z \in Subjects : z # s => link'[z] = link[z]
    BY <1>2 DEF EmailTypeOK
  <2>3. EmailTypeOK'
    BY <1>2, <2>1, <2>2 DEF EmailTypeOK
  <2>4. \A o \in EmailRequests : MailRequestFits(ereq[o])'
    BY <1>2, <2>1 DEF MailRequestFits, ProofsKept
  <2>5. LinkedOnProof'
    <3> SUFFICES ASSUME NEW z \in Subjects, link'[z] # NoOne, link'[z] \notin overtaken'
                 PROVE  SubjectAddr[z] \in proven'[link'[z]]
      BY DEF LinkedOnProof
    <3>1. CASE z = s
      BY <2>1, <2>2, <3>1
    <3>2. CASE z # s
      <4>1. link'[z] = link[z] /\ link[z] \in Users /\ overtaken' = overtaken
        BY <1>2, <2>2, <3>2 DEF EmailTypeOK
      <4> QED BY <2>1, <4>1 DEF LinkedOnProof, ProofsKept
    <3> QED BY <3>1, <3>2
  <2> QED
    BY <1>2, <2>1, <2>3, <2>4, <2>5, ProofsStand
<1>3. ASSUME NEW u \in Users PROVE [v \in Users |-> user[v].verified][u] = user[u].verified
  OBVIOUS
<1>4. \A u \in Matches(s) : u \in Users
  BY DEF Matches
<1> QED
  BY <1>1, <1>2, <1>3, <1>4 DEF ResolveIdentity, ResolveFor

(* A request that ends, its stamps and proofs in place.                    *)
LEMMA EndsWith ==
  ASSUME EmailInv, NEW r \in EmailRequests, End(r),
         user' \in [Users -> Account], vtok' \subseteq Mail, rtok' \subseteq Mail,
         link' = link, proven' \in [Users -> SUBSET Addresses], overtaken' \subseteq Users,
         strayed' = strayed, ProofsKept, VerifiedIsProven'
  PROVE  EmailInv'
<1> USE DEF EmailInv
<1>1. /\ ereq' \in [EmailRequests -> EmailRequest] /\ begun' \in 0 .. MaxMailSteps
      /\ ereq'[r].op = "none" /\ \A o \in EmailRequests : o # r => ereq'[o] = ereq[o]
  BY RequestEnds
<1>2. EmailTypeOK'
  BY <1>1 DEF EmailTypeOK
<1>3. MailRequestFits(ereq[r])'
  BY <1>1 DEF MailRequestFits
<1> QED
  BY <1>1, <1>2, <1>3, ProofsStand, EmailOneRequest

(* Of an account only its address and its stamp are written.               *)
LEMMA Restamped ==
  ASSUME EmailTypeOK, NEW u \in Users, NEW e \in Addresses \cup {NoAddr}, NEW v \in BOOLEAN,
         user' = [user EXCEPT ![u].email = e, ![u].verified = v]
  PROVE  /\ user' \in [Users -> Account]
         /\ user'[u].email = e /\ user'[u].verified = v
         /\ \A o \in Users : o # u => user'[o] = user[o]
<1>1. PICK a : a = [user[u] EXCEPT !.email = e]
  OBVIOUS
<1>2. PICK b : b = [a EXCEPT !.verified = v]
  OBVIOUS
<1>3. user[u] \in Account
  BY DEF EmailTypeOK
<1>4. a \in Account /\ a.email = e
  BY <1>1, <1>3 DEF Account
<1>5. b \in Account /\ b.email = e /\ b.verified = v
  BY <1>2, <1>4 DEF Account
<1>6. user' = [user EXCEPT ![u] = b]
  BY <1>1, <1>2 DEF EmailTypeOK
<1> QED BY <1>5, <1>6 DEF EmailTypeOK

(* A changed address is unproven, and the next link is for it.             *)
LEMMA ChangeEmailStep ==
  ASSUME EmailInv, NEW r \in EmailRequests, ChangeEmail(r)
  PROVE  EmailInv'
<1> USE DEF EmailInv
<1> DEFINE u == ereq[r].user
           e == ereq[r].email
<1>0. /\ ereq[r].op = "change"
      /\ user' = [user EXCEPT ![u].email = e, ![u].verified = FALSE]
      /\ vtok' = vtok \ Of(vtok, u) /\ rtok' = rtok \ Of(rtok, u)
      /\ End(r) \/ (e # NoAddr /\ Begin(r, [ereq[r] EXCEPT !.op = "send"]))
      /\ UNCHANGED <<link, proven, overtaken, strayed>>
  BY DEF ChangeEmail
<1>1. u \in Users /\ e \in Addresses \cup {NoAddr} /\ ereq[r] \in EmailRequest
  BY <1>0 DEF EmailTypeOK, EmailRequest, MailRequestFits
<1>2. /\ user' \in [Users -> Account] /\ user'[u].verified = FALSE
      /\ \A o \in Users : o # u => user'[o] = user[o]
  BY <1>0, <1>1, Restamped
<1>3. ProofsKept /\ proven' \in [Users -> SUBSET Addresses]
  BY <1>0 DEF ProofsKept, EmailTypeOK
<1>4. VerifiedIsProven'
  BY <1>2, <1>3, ProofsStand DEF VerifiedIsProven
<1>5. vtok' \subseteq Mail /\ rtok' \subseteq Mail /\ overtaken' \subseteq Users
  BY <1>0 DEF EmailTypeOK
<1>6. CASE End(r)
  BY <1>0, <1>2, <1>3, <1>4, <1>5, <1>6, EndsWith
<1>7. CASE e # NoAddr /\ Begin(r, [ereq[r] EXCEPT !.op = "send"])
  <2>1. PICK q : q = [ereq[r] EXCEPT !.op = "send"]
    OBVIOUS
  <2>2. q \in EmailRequest /\ q.op = "send" /\ q.user = u /\ q.email = e
    BY <1>1, <2>1 DEF EmailRequest
  <2>3. /\ ereq' \in [EmailRequests -> EmailRequest] /\ begun' \in 0 .. MaxMailSteps
        /\ ereq'[r] = q /\ \A o \in EmailRequests : o # r => ereq'[o] = ereq[o]
    BY <1>7, <2>1, <2>2, RequestBegins
  <2>4. EmailTypeOK'
    BY <1>0, <1>2, <1>3, <1>5, <2>3 DEF EmailTypeOK
  <2>5. MailRequestFits(ereq[r])'
    BY <1>1, <1>7, <2>2, <2>3 DEF MailRequestFits
  <2> QED
    BY <1>0, <1>3, <1>4, <2>3, <2>4, <2>5, ProofsStand, EmailOneRequest
<1> QED BY <1>0, <1>6, <1>7

(* A stamp that stays was either absent, or is noted as overtaken.         *)
LEMMA EditEmailStep ==
  ASSUME EmailInv, NEW r \in EmailRequests, EditEmail(r)
  PROVE  EmailInv'
<1> USE DEF EmailInv
<1> DEFINE u == ereq[r].user
           e == ereq[r].email
<1>0. PICK vouches \in BOOLEAN :
        LET stays == ~vouches /\ ~ereq[r].verified
        IN /\ user' = [user EXCEPT ![u].email = e,
                                   ![u].verified = IF stays THEN @ ELSE vouches]
           /\ proven' = IF vouches THEN [proven EXCEPT ![u] = @ \cup {e}] ELSE proven
           /\ overtaken' = IF stays /\ user[u].verified THEN overtaken \cup {u}
                           ELSE overtaken
  BY DEF EditEmail
<1>1. /\ ereq[r].op = "edit"
      /\ vtok' = vtok \ Of(vtok, u) /\ rtok' = rtok \ Of(rtok, u)
      /\ End(r) /\ UNCHANGED <<link, strayed>>
  BY DEF EditEmail
<1>2. u \in Users /\ e \in Addresses
  BY <1>1 DEF MailRequestFits
<1>3. PICK stays \in BOOLEAN : stays <=> (~ vouches /\ ~ ereq[r].verified)
  OBVIOUS
<1>4. PICK v \in BOOLEAN : v = IF stays THEN user[u].verified ELSE vouches
  BY <1>2 DEF EmailTypeOK, Account
<1>5. /\ user' \in [Users -> Account] /\ user'[u].email = e /\ user'[u].verified = v
      /\ \A o \in Users : o # u => user'[o] = user[o]
  <2>1. user' = [user EXCEPT ![u].email = e, ![u].verified = v]
    <3>1. [user EXCEPT ![u].email = e][u].verified = user[u].verified
      BY <1>2 DEF EmailTypeOK, Account
    <3> QED BY <1>0, <1>2, <1>3, <1>4, <3>1 DEF EmailTypeOK
  <2> QED BY <1>2, <2>1, Restamped
<1>6. /\ proven' \in [Users -> SUBSET Addresses]
      /\ \A o \in Users : proven[o] \subseteq proven'[o]
      /\ vouches => e \in proven'[u]
  <2>1. CASE vouches
    <3>1. proven' = [proven EXCEPT ![u] = proven[u] \cup {e}]
      BY <1>0, <2>1
    <3> QED BY <1>2, <3>1 DEF EmailTypeOK
  <2>2. CASE ~ vouches
    <3>1. proven' = proven
      BY <1>0, <2>2
    <3> QED BY <2>2, <3>1 DEF EmailTypeOK
  <2> QED BY <2>1, <2>2
<1>7. /\ overtaken \subseteq overtaken' /\ overtaken' \subseteq Users
      /\ stays /\ user[u].verified => u \in overtaken'
  <2>1. overtaken' = IF stays /\ user[u].verified THEN overtaken \cup {u} ELSE overtaken
    BY <1>0, <1>3
  <2> QED BY <1>2, <2>1 DEF EmailTypeOK
<1>8. ProofsKept
  BY <1>6, <1>7 DEF ProofsKept
<1>9. VerifiedIsProven'
  <2>1. user'[u].verified /\ u \notin overtaken' => user'[u].email \in proven'[u]
    BY <1>3, <1>4, <1>5, <1>6, <1>7
  <2> QED BY <1>5, <1>8, <2>1, ProofsStand DEF VerifiedIsProven
<1>10. vtok' \subseteq Mail /\ rtok' \subseteq Mail
  BY <1>1 DEF EmailTypeOK
<1> QED
  BY <1>1, <1>5, <1>6, <1>7, <1>8, <1>9, <1>10, EndsWith

(* A conflict ends the request; links are sent or kept aside.              *)
LEMMA MailedStep ==
  ASSUME EmailInv, NEW r \in EmailRequests,
         EmailConflict(r) \/ SendLink(r) \/ DeliverReset(r)
  PROVE  EmailInv'
<1> USE DEF EmailInv
<1> DEFINE t == [user |-> ereq[r].user, email |-> ereq[r].email]
<1>1. /\ End(r) /\ UNCHANGED <<user, link, proven, overtaken, strayed>>
      /\ ereq[r].op \in {"send", "resend", "forgot"} \/ UNCHANGED <<vtok, rtok>>
  BY DEF EmailConflict, SendLink, DeliverReset
<1>2. vtok' \subseteq vtok \cup {t} /\ rtok' \subseteq rtok \cup {t}
  BY DEF EmailConflict, SendLink, DeliverReset
<1>3. ereq[r].op \in {"send", "resend", "forgot"} => t \in Mail
  BY DEF MailRequestFits, Mail
<1>4. vtok' \subseteq Mail /\ rtok' \subseteq Mail
  BY <1>1, <1>2, <1>3 DEF EmailTypeOK
<1>5. ProofsKept /\ VerifiedIsProven'
  BY <1>1 DEF ProofsKept, VerifiedIsProven
<1>6. /\ user' \in [Users -> Account] /\ proven' \in [Users -> SUBSET Addresses]
      /\ overtaken' \subseteq Users
  BY <1>1 DEF EmailTypeOK
<1> QED
  BY <1>1, <1>4, <1>5, <1>6, EndsWith

(* The stamp goes to the address the link was mailed to, or not at all.    *)
LEMMA VerifyEmailStep ==
  ASSUME EmailInv, NEW r \in EmailRequests, VerifyEmail(r)
  PROVE  EmailInv'
<1> USE DEF EmailInv
<1> DEFINE u == ereq[r].user
           e == ereq[r].email
           matches == user[u].email = e
<1>1. /\ ereq[r].op = "verify"
      /\ user' = IF matches THEN [user EXCEPT ![u].verified = TRUE] ELSE user
      /\ proven' = IF matches THEN [proven EXCEPT ![u] = proven[u] \cup {e}] ELSE proven
      /\ vtok' \subseteq vtok
      /\ End(r) /\ UNCHANGED <<rtok, link, overtaken, strayed>>
  BY DEF VerifyEmail, VerifyMatching
<1>2. u \in Users /\ e \in Addresses
  BY <1>1 DEF MailRequestFits
<1>3. /\ user' \in [Users -> Account] /\ \A o \in Users : o # u => user'[o] = user[o]
      /\ user'[u] = user[u] \/ (matches /\ user'[u].email = e)
  <2>1. CASE matches
    <3>1. PICK a : a = [user[u] EXCEPT !.verified = TRUE]
      OBVIOUS
    <3>2. a \in Account /\ a.email = e
      BY <1>2, <2>1, <3>1 DEF EmailTypeOK, Account
    <3>3. user' = [user EXCEPT ![u] = a]
      BY <1>1, <2>1, <3>1
    <3> QED BY <1>2, <2>1, <3>2, <3>3 DEF EmailTypeOK
  <2>2. CASE ~ matches
    BY <1>1, <2>2 DEF EmailTypeOK
  <2> QED BY <2>1, <2>2
<1>4. /\ proven' \in [Users -> SUBSET Addresses]
      /\ \A o \in Users : proven[o] \subseteq proven'[o]
      /\ matches => e \in proven'[u]
  BY <1>1, <1>2 DEF EmailTypeOK
<1>5. ProofsKept
  BY <1>1, <1>4 DEF ProofsKept
<1>6. VerifiedIsProven'
  BY <1>3, <1>4, <1>5, ProofsStand DEF VerifiedIsProven
<1>7. vtok' \subseteq Mail /\ rtok' \subseteq Mail /\ overtaken' \subseteq Users
  BY <1>1 DEF EmailTypeOK
<1> QED
  BY <1>1, <1>3, <1>4, <1>5, <1>6, <1>7, EndsWith

(* A password is reset only while the account holds the mailed address.    *)
LEMMA ResetPasswordStep ==
  ASSUME EmailInv, NEW r \in EmailRequests, ResetPassword(r)
  PROVE  EmailInv'
<1> USE DEF EmailInv
<1>1. /\ End(r) /\ UNCHANGED <<user, vtok, link, proven, overtaken, strayed>>
      /\ rtok' \subseteq rtok
  BY DEF ResetPassword, ResetMatching
<1>2. ProofsKept /\ VerifiedIsProven'
  BY <1>1 DEF ProofsKept, VerifiedIsProven
<1>3. /\ user' \in [Users -> Account] /\ proven' \in [Users -> SUBSET Addresses]
      /\ vtok' \subseteq Mail /\ rtok' \subseteq Mail /\ overtaken' \subseteq Users
  BY <1>1 DEF EmailTypeOK
<1> QED
  BY <1>1, <1>2, <1>3, EndsWith

(* The first link commits, to the account whose proof was seen.            *)
LEMMA LinkIdentityStep ==
  ASSUME EmailInv, NEW r \in EmailRequests, LinkIdentity(r)
  PROVE  EmailInv'
<1> USE DEF EmailInv
<1> DEFINE u == ereq[r].user
           s == ereq[r].subject
<1>1. /\ ereq[r].op = "sso" /\ End(r)
      /\ link' = IF link[s] = NoOne THEN [link EXCEPT ![s] = u] ELSE link
      /\ UNCHANGED <<user, vtok, rtok, proven, overtaken, strayed>>
  BY DEF LinkIdentity
<1>2. u \in Users /\ s \in Subjects /\ (u \notin overtaken => SubjectAddr[s] \in proven[u])
  BY <1>1 DEF MailRequestFits
<1>3. /\ link' \in [Subjects -> Users \cup {NoOne}]
      /\ link'[s] = link[s] \/ link'[s] = u
      /\ \A z \in Subjects : z # s => link'[z] = link[z]
  BY <1>1, <1>2 DEF EmailTypeOK
<1>4. /\ ereq' \in [EmailRequests -> EmailRequest] /\ begun' \in 0 .. MaxMailSteps
      /\ ereq'[r].op = "none" /\ \A o \in EmailRequests : o # r => ereq'[o] = ereq[o]
  BY <1>1, RequestEnds
<1>5. EmailTypeOK'
  BY <1>1, <1>3, <1>4 DEF EmailTypeOK
<1>6. ProofsKept /\ VerifiedIsProven'
  BY <1>1 DEF ProofsKept, VerifiedIsProven
<1>7. LinkedOnProof'
  BY <1>1, <1>2, <1>3 DEF LinkedOnProof
<1>8. MailRequestFits(ereq[r])'
  BY <1>4 DEF MailRequestFits
<1> QED
  BY <1>1, <1>4, <1>5, <1>6, <1>7, <1>8, ProofsStand, EmailOneRequest

(* Every step of account e-mail keeps the invariant.                       *)
LEMMA EmailStep == EmailInv /\ [EmailNext]_emailVars => EmailInv'
<1> SUFFICES ASSUME EmailInv, [EmailNext]_emailVars PROVE EmailInv'
  OBVIOUS
<1>1. CASE UNCHANGED emailVars
  BY <1>1 DEF emailVars, EmailInv, EmailTypeOK, MailRequestFits, VerifiedIsProven,
              ResetByHolder, LinkedOnProof
<1>2. ASSUME NEW r \in EmailRequests,
             \/ ChangeEmail(r) \/ EditEmail(r) \/ EmailConflict(r) \/ SendLink(r)
             \/ DeliverReset(r) \/ VerifyEmail(r) \/ ResetPassword(r) \/ LinkIdentity(r)
      PROVE  EmailInv'
  BY <1>2, ChangeEmailStep, EditEmailStep, MailedStep, VerifyEmailStep, ResetPasswordStep,
     LinkIdentityStep
<1>3. ASSUME NEW r \in EmailRequests,
             \/ \E s \in Subjects : ResolveIdentity(r, s)
             \/ \E u \in Users : ForgotPassword(r, u)
             \/ \E u \in Users, e \in Addresses \cup {NoAddr} :
                  Register(r, u, e) \/ \E op \in {"change", "edit", "resend"} : Load(r, u, op, e)
             \/ \E t \in Mail, op \in {"verify", "reset"} : FollowLink(r, t, op)
      PROVE  EmailInv'
  BY <1>3, ResolveIdentityStep, ForgotPasswordStep, RegisterStep, LoadStep, FollowLinkStep
<1>4. ASSUME NEW u \in Users, NEW e \in Addresses, CreateUser(u, e)
      PROVE  EmailInv'
  BY <1>4, CreateUserStep
<1> QED
  BY <1>1, <1>2, <1>3, <1>4 DEF EmailNext

(* The invariant gives what the run checks.                                *)
LEMMA EmailKept == EmailInv => EmailTypeOK /\ VerifiedIsProven /\ ResetByHolder /\ LinkedOnProof
BY DEF EmailInv
-----------------------------------------------------------------------------
(***************************************************************************)
(* Sign-in through a provider.  The invariant says of each callback under  *)
(* way that its login was begun by its browser and has been answered, and  *)
(* how far two callbacks of one login, or a callback and a session of its  *)
(* login, can both get: past the exchange only for SAML, whose assertion   *)
(* nobody redeems, and then the login is among those that overlapped.      *)
(***************************************************************************)
SsoRow == [at : {"none", "open", "used"}, by : Browsers \cup {NoLogin}, prov : Nat, old : BOOLEAN]
SsoCall == [pc : {"consume", "provider", "exchange", "resolve", "make", "issue"},
            by : Browsers, login : Logins, old : BOOLEAN, prov : Nat]

(* A code is redeemed once; past that the callback is the only one.        *)
Redirects == slKind \in {"oidc", "oauth2"}
Vetted(q) == q.pc \in {"resolve", "make", "issue"}

SsoShapes ==
    /\ slKind \in {"oidc", "oauth2", "saml", "ldap"}
    /\ slProv \in [on : BOOLEAN, id : Nat] /\ slEdits \in 0 .. MaxProviderEdits
    /\ slProv.id <= slEdits
    /\ slRow \in [Logins -> SsoRow]
    /\ slCookie \in [Browsers -> Logins \cup {NoLogin}]
    /\ slAnswer \in [Logins -> SUBSET Persons]
    /\ slSpent \subseteq Logins /\ slLinked \subseteq Persons /\ slTwice \subseteq Logins
    /\ slMade \in [Persons -> Nat]
    /\ slCall \in [Callbacks -> SsoCall \cup {NoCall}]

AnswersFit ==
    \A l \in Logins : /\ slRow[l].at = "none" => slAnswer[l] = {}
                      /\ slAnswer[l] = {} \/ \E p \in Persons : slAnswer[l] = {p}
CookiesFit ==
    \A b \in Browsers : slCookie[b] \in Logins =>
        slRow[slCookie[b]].at # "none" /\ slRow[slCookie[b]].by = b
CallFits(q) ==
    q.pc # "none" =>
        /\ slRow[q.login].at # "none" /\ slRow[q.login].by = q.by
        /\ slAnswer[q.login] # {}
        /\ q.pc # "consume" => slRow[q.login].at = "used"
        /\ Redirects /\ Vetted(q) => q.login \in slSpent
Apart(q, r) ==
    q.pc # "none" /\ r.pc # "none" /\ q.login = r.login =>
        \/ slKind = "saml" /\ q.login \in slTwice
        \/ Redirects /\ ~ (Vetted(q) /\ Vetted(r))
Clear(q, s) ==
    q.pc # "none" /\ q.login = s.login =>
        \/ slKind = "saml" /\ q.login \in slTwice
        \/ Redirects /\ ~ Vetted(q)
Issued(s) ==
    /\ s.login \in Logins /\ slRow[s.login].at = "used"
    /\ s.to = s.by /\ slAnswer[s.login] = {s.as}
    /\ Redirects => s.login \in slSpent
MadeOnce == \A p \in Persons : slMade[p] = IF p \in slLinked THEN 1 ELSE 0

SsoInv ==
    /\ SsoShapes /\ AnswersFit /\ CookiesFit /\ MadeOnce
    /\ \A c \in Callbacks : CallFits(slCall[c])
    /\ \A c, d \in Callbacks : c # d => Apart(slCall[c], slCall[d])
    /\ \A c \in Callbacks, s \in slSession : Clear(slCall[c], s)
    /\ \A s \in slSession : Issued(s)
    /\ OneSessionPerLogin

(* What no step takes back: a login's row, its answer, what was redeemed.  *)
SsoAdvances ==
    /\ slKind' = slKind /\ slSpent \subseteq slSpent' /\ slTwice \subseteq slTwice'
    /\ \A l \in Logins : /\ slRow[l].at # "none" =>
                               slRow'[l].at # "none" /\ slRow'[l].by = slRow[l].by
                         /\ slRow[l].at = "used" => slRow'[l].at = "used"
                         /\ slAnswer[l] # {} => slAnswer'[l] = slAnswer[l]

(* Before anybody signs in nothing is claimed of anybody.                  *)
LEMMA SsoStart == SsoInit => SsoInv
<1> SUFFICES ASSUME SsoInit PROVE SsoInv
  OBVIOUS
<1> USE SsoAssumption
<1>1. SsoShapes
  BY DEF SsoInit, SsoShapes, SsoRow
<1>2. AnswersFit /\ CookiesFit /\ MadeOnce
  BY DEF SsoInit, AnswersFit, CookiesFit, MadeOnce
<1>3. \A c \in Callbacks : slCall[c].pc = "none"
  BY DEF SsoInit, NoCall
<1>4. slSession = {}
  BY DEF SsoInit
<1> QED
  BY <1>1, <1>2, <1>3, <1>4 DEF SsoInv, CallFits, Apart, OneSessionPerLogin

(* A callback under way is one of those records.                           *)
LEMMA CallUnderWay ==
  ASSUME SsoShapes, NEW c \in Callbacks, slCall[c].pc # "none"
  PROVE  slCall[c] \in SsoCall
BY DEF SsoShapes, NoCall

(* What stays true of callbacks and sessions that a step leaves alone.     *)
LEMMA SsoKeeps ==
  ASSUME SsoInv, SsoAdvances
  PROVE  /\ \A c \in Callbacks : CallFits(slCall[c]) /\ slCall'[c] = slCall[c] => CallFits(slCall[c])'
         /\ \A c, d \in Callbacks : c # d /\ slCall'[c] = slCall[c] /\ slCall'[d] = slCall[d]
               => Apart(slCall[c], slCall[d])'
         /\ \A c \in Callbacks, s \in slSession : slCall'[c] = slCall[c] => Clear(slCall[c], s)'
         /\ \A s \in slSession : Issued(s)'
         /\ slSession' = slSession => OneSessionPerLogin'
<1>0. /\ \A c \in Callbacks : slCall[c].pc # "none" => slCall[c].login \in Logins
      /\ Redirects' = Redirects
  BY CallUnderWay DEF SsoInv, SsoCall, SsoAdvances, Redirects
<1>1. \A c \in Callbacks : CallFits(slCall[c]) /\ slCall'[c] = slCall[c] => CallFits(slCall[c])'
  BY <1>0 DEF SsoAdvances, CallFits, Vetted
<1>2. \A c, d \in Callbacks : c # d /\ slCall'[c] = slCall[c] /\ slCall'[d] = slCall[d]
               => Apart(slCall[c], slCall[d])'
  BY <1>0 DEF SsoAdvances, Apart, SsoInv, Vetted
<1>3. \A c \in Callbacks, s \in slSession : slCall'[c] = slCall[c] => Clear(slCall[c], s)'
  BY <1>0 DEF SsoAdvances, Clear, SsoInv, Vetted
<1>4. \A s \in slSession : Issued(s)'
  BY <1>0 DEF SsoAdvances, Issued, SsoInv
<1>5. slSession' = slSession => OneSessionPerLogin'
  BY DEF SsoAdvances, SsoInv, OneSessionPerLogin
<1> QED BY <1>1, <1>2, <1>3, <1>4, <1>5

(* A step that leaves callbacks and sessions alone.                        *)
LEMMA SsoQuiet ==
  ASSUME SsoInv, SsoAdvances, slCall' = slCall, slSession' = slSession,
         SsoShapes', AnswersFit', CookiesFit', MadeOnce'
  PROVE  SsoInv'
BY SsoKeeps DEF SsoInv

(* A step of one callback that hands out no session.                       *)
LEMMA SsoOneCall ==
  ASSUME SsoInv, SsoAdvances, slSession' = slSession,
         SsoShapes', AnswersFit', CookiesFit', MadeOnce',
         NEW c \in Callbacks,
         \A d \in Callbacks : d # c => slCall'[d] = slCall[d],
         CallFits(slCall[c])',
         \A d \in Callbacks : d # c => Apart(slCall[c], slCall[d])',
         \A s \in slSession : Clear(slCall[c], s)'
  PROVE  SsoInv'
<1>1. \A d \in Callbacks : d # c => Apart(slCall[d], slCall[c])'
  BY DEF Apart
<1>2. \A d \in Callbacks : CallFits(slCall[d])'
  BY SsoKeeps DEF SsoInv
<1>3. \A d, e \in Callbacks : d # e => Apart(slCall[d], slCall[e])'
  BY SsoKeeps, <1>1
<1>4. \A d \in Callbacks, s \in slSession' : Clear(slCall[d], s)'
  BY SsoKeeps
<1>5. (\A s \in slSession : Issued(s))' /\ OneSessionPerLogin'
  BY SsoKeeps
<1> QED BY <1>2, <1>3, <1>4, <1>5 DEF SsoInv

(* A callback goes on to its next stage or ends.                           *)
LEMMA SsoStageShapes ==
  ASSUME SsoShapes, NEW c \in Callbacks, slCall[c].pc # "none",
         NEW pc \in {"provider", "exchange", "resolve", "make", "issue"},
         Goes(c, pc) \/ Fails(c)
  PROVE  /\ slCall' \in [Callbacks -> SsoCall \cup {NoCall}]
         /\ slCookie' \in [Browsers -> Logins \cup {NoLogin}]
         /\ \A b \in Browsers : slCookie'[b] \in {slCookie[b], NoLogin}
         /\ \A d \in Callbacks : d # c => slCall'[d] = slCall[d]
         /\ \/ slCall'[c].pc = "none"
            \/ /\ slCall'[c].pc = pc /\ slCall'[c].login = slCall[c].login
               /\ slCall'[c].by = slCall[c].by
<1>1. slCall[c] \in SsoCall
  BY CallUnderWay
<1>2. CASE Goes(c, pc)
  <2>1. /\ slCall' = [slCall EXCEPT ![c] = [slCall[c] EXCEPT !.pc = pc]]
        /\ slCookie' = slCookie
    BY <1>2 DEF Goes
  <2>2. PICK q : q = [slCall[c] EXCEPT !.pc = pc]
    OBVIOUS
  <2>3. q \in SsoCall /\ q.pc = pc /\ q.login = slCall[c].login /\ q.by = slCall[c].by
    BY <1>1, <2>2 DEF SsoCall
  <2> QED BY <2>1, <2>2, <2>3 DEF SsoShapes
<1>3. CASE Fails(c)
  <2>1. /\ slCall' = [slCall EXCEPT ![c] = NoCall]
        /\ \/ slCookie' = slCookie
           \/ slCookie' = [slCookie EXCEPT ![slCall[c].by] = NoLogin]
    BY <1>3 DEF Fails, Ends
  <2> QED BY <2>1 DEF SsoShapes, NoCall
<1> QED BY <1>2, <1>3

(* A stage keeps the invariant if its login's row is gone and, of a        *)
(* redirect, if it passes the exchange with a code nobody had redeemed.    *)
LEMMA SsoMove ==
  ASSUME SsoInv, SsoAdvances, NEW c \in Callbacks, slCall[c].pc # "none",
         NEW pc \in {"provider", "exchange", "resolve", "make", "issue"},
         Goes(c, pc) \/ Fails(c),
         ProviderStays, UNCHANGED <<slAnswer, slTwice, slSession>>,
         slRow' \in [Logins -> SsoRow], slSpent' \subseteq Logins,
         slLinked' \subseteq Persons, slMade' \in [Persons -> Nat], MadeOnce',
         slRow'[slCall[c].login].at = "used",
         Redirects /\ pc \in {"resolve", "make", "issue"} =>
            \/ Vetted(slCall[c])
            \/ slCall[c].login \in slSpent' /\ slCall[c].login \notin slSpent
  PROVE  SsoInv'
<1> DEFINE l == slCall[c].login
<1>0. SsoShapes /\ slCall[c] \in SsoCall /\ l \in Logins
  BY CallUnderWay DEF SsoInv, SsoCall
<1>1. /\ slCall' \in [Callbacks -> SsoCall \cup {NoCall}]
      /\ slCookie' \in [Browsers -> Logins \cup {NoLogin}]
      /\ \A b \in Browsers : slCookie'[b] \in {slCookie[b], NoLogin}
      /\ \A d \in Callbacks : d # c => slCall'[d] = slCall[d]
      /\ \/ slCall'[c].pc = "none"
         \/ slCall'[c].pc = pc /\ slCall'[c].login = l /\ slCall'[c].by = slCall[c].by
  BY <1>0, SsoStageShapes
<1>2. SsoShapes'
  BY <1>0, <1>1 DEF SsoShapes, ProviderStays
<1>3. AnswersFit'
  <2>1. \A k \in Logins : slRow'[k].at = "none" => slRow[k].at = "none"
    BY DEF SsoAdvances
  <2> QED BY <2>1 DEF AnswersFit, SsoInv
<1>4. CookiesFit'
  BY <1>0, <1>1, SsoAssumption DEF CookiesFit, SsoAdvances, SsoInv
<1>5. Redirects' = Redirects
  BY DEF SsoAdvances, Redirects
<1>6. CallFits(slCall[c])'
  <2>1. CallFits(slCall[c])
    BY DEF SsoInv
  <2> QED BY <2>1, <1>0, <1>1, <1>5 DEF CallFits, SsoAdvances, Vetted
<1>7. \A d \in Callbacks : d # c => Apart(slCall[c], slCall[d])'
  <2> SUFFICES ASSUME NEW d \in Callbacks, d # c PROVE Apart(slCall[c], slCall[d])'
    OBVIOUS
  <2>1. Apart(slCall[c], slCall[d]) /\ CallFits(slCall[d])
    BY DEF SsoInv
  <2> QED BY <2>1, <1>0, <1>1, <1>5 DEF Apart, CallFits, SsoAdvances, Vetted
<1>8. \A s \in slSession : Clear(slCall[c], s)'
  <2> SUFFICES ASSUME NEW s \in slSession PROVE Clear(slCall[c], s)'
    OBVIOUS
  <2>1. Clear(slCall[c], s) /\ Issued(s)
    BY DEF SsoInv
  <2> QED BY <2>1, <1>0, <1>1, <1>5 DEF Clear, Issued, SsoAdvances, Vetted
<1> QED
  BY <1>1, <1>2, <1>3, <1>4, <1>6, <1>7, <1>8, SsoOneCall

(* The stages that end in a move: of each, from the row's deletion on.     *)
LEMMA SsoStages ==
  ASSUME SsoInv, NEW c \in Callbacks,
         \/ EnabledProvider(c) \/ ValidateIdToken(c) \/ FetchIdentity(c)
         \/ ProcessResponse(c) \/ Authenticate(c) \/ ExchangeFails(c)
         \/ ResolveLinked(c) \/ IdentityRejected(c)
  PROVE  SsoInv'
<1> USE DEF SsoInv
<1>0. slCall[c].pc \notin {"none", "consume"} /\ UNCHANGED <<slRow, slAnswer, slTwice, slSession, slLinked, slMade>> /\ ProviderStays
  BY DEF EnabledProvider, ValidateIdToken, FetchIdentity, ExchangeCode,
         ProcessResponse, Authenticate, ExchangeFails, ResolveLinked, IdentityRejected
<1>1. /\ slRow' \in [Logins -> SsoRow] /\ slSpent' \subseteq Logins /\ slSpent \subseteq slSpent'
      /\ slLinked' \subseteq Persons /\ slMade' \in [Persons -> Nat] /\ MadeOnce'
  <2>1. slCall[c] \in SsoCall
    BY <1>0, CallUnderWay
  <2>2. slSpent' = slSpent \/ slSpent' = slSpent \cup {slCall[c].login}
    BY DEF EnabledProvider, ValidateIdToken, FetchIdentity, ExchangeCode,
         ProcessResponse, Authenticate, ExchangeFails, ResolveLinked, IdentityRejected
  <2> QED BY <1>0, <2>1, <2>2 DEF SsoShapes, MadeOnce, SsoCall
<1>2. SsoAdvances
  BY <1>0, <1>1 DEF SsoAdvances, ProviderStays
<1>3. slRow'[slCall[c].login].at = "used"
  BY <1>0 DEF CallFits
<1>4. \E pc \in {"provider", "exchange", "resolve", "make", "issue"} :
         /\ Goes(c, pc) \/ Fails(c)
         /\ Redirects /\ pc \in {"resolve", "make", "issue"} =>
            \/ Vetted(slCall[c])
            \/ slCall[c].login \in slSpent' /\ slCall[c].login \notin slSpent
  <2>1. CASE EnabledProvider(c)
    BY <2>1 DEF EnabledProvider
  <2>2. CASE ValidateIdToken(c) \/ FetchIdentity(c)
    BY <2>2 DEF ValidateIdToken, FetchIdentity, ExchangeCode
  <2>3. CASE ProcessResponse(c)
    BY <2>3 DEF ProcessResponse, Redirects
  <2>4. CASE Authenticate(c)
    BY <2>4 DEF Authenticate, Redirects
  <2>5. CASE ExchangeFails(c)
    BY <2>5 DEF ExchangeFails
  <2>6. CASE ResolveLinked(c)
    BY <2>6 DEF ResolveLinked, Vetted
  <2>7. CASE IdentityRejected(c)
    BY <2>7 DEF IdentityRejected
  <2> QED BY <2>1, <2>2, <2>3, <2>4, <2>5, <2>6, <2>7
<1> QED
  BY <1>0, <1>1, <1>2, <1>3, <1>4, SsoMove

(* The row goes; the callback goes on to the provider or ends.             *)
LEMMA ConsumeStateStep ==
  ASSUME SsoInv, NEW c \in Callbacks, ConsumeState(c)
  PROVE  SsoInv'
<1> USE DEF SsoInv
<1> DEFINE l == slCall[c].login
<1>0. /\ slCall[c].pc = "consume" /\ slCall[c] \in SsoCall /\ l \in Logins
      /\ slRow' = [slRow EXCEPT ![l] = [slRow[l] EXCEPT !.at = "used"]]
      /\ UNCHANGED <<slAnswer, slSpent, slLinked, slMade, slSession, slTwice>> /\ ProviderStays
      /\ Goes(c, "provider") \/ Fails(c)
  BY CallUnderWay DEF ConsumeState, SsoCall
<1>1. PICK row : row = [slRow[l] EXCEPT !.at = "used"]
  OBVIOUS
<1>2. row \in SsoRow /\ row.at = "used" /\ row.by = slRow[l].by
  BY <1>0, <1>1 DEF SsoShapes, SsoRow
<1>3. slRow' \in [Logins -> SsoRow] /\ slRow'[l].at = "used" /\ slRow'[l].by = slRow[l].by
      /\ \A k \in Logins : k # l => slRow'[k] = slRow[k]
  BY <1>0, <1>1, <1>2 DEF SsoShapes
<1>4. SsoAdvances
  BY <1>0, <1>3 DEF SsoAdvances, ProviderStays
<1>5. /\ slSpent' \subseteq Logins /\ slLinked' \subseteq Persons
      /\ slMade' \in [Persons -> Nat] /\ MadeOnce'
  BY <1>0 DEF SsoShapes, MadeOnce
<1> QED
  BY <1>0, <1>3, <1>4, <1>5, SsoMove

(* The person who answered the login of a callback.                        *)
LEMMA PersonAnswered ==
  ASSUME SsoInv, NEW c \in Callbacks, slCall[c].pc # "none"
  PROVE  /\ PersonOf(c) \in Persons /\ slCall[c].login \in Logins
         /\ slAnswer[slCall[c].login] = {PersonOf(c)}
<1>1. slCall[c].login \in Logins
  BY CallUnderWay DEF SsoInv, SsoCall
<1>2. slAnswer[slCall[c].login] # {}
  BY DEF SsoInv, CallFits
<1>3. PICK p \in Persons : slAnswer[slCall[c].login] = {p}
  BY <1>1, <1>2 DEF SsoInv, AnswersFit
<1>4. PersonOf(c) = p
  BY <1>3 DEF PersonOf
<1> QED BY <1>1, <1>3, <1>4

(* A person not yet linked gets an account and its link at once.           *)
LEMMA MakeAccountStep ==
  ASSUME SsoInv, NEW c \in Callbacks, MakeAccount(c)
  PROVE  SsoInv'
<1> USE DEF SsoInv
<1> DEFINE p == PersonOf(c)
<1>0. /\ slCall[c].pc = "make" /\ p \in Persons
      /\ UNCHANGED <<slRow, slAnswer, slSpent, slSession, slTwice>> /\ ProviderStays
      /\ Goes(c, "issue") \/ Fails(c)
      /\ \/ UNCHANGED <<slLinked, slMade>>
         \/ /\ p \notin slLinked /\ slLinked' = slLinked \cup {p}
            /\ slMade' = [slMade EXCEPT ![p] = slMade[p] + 1]
  BY PersonAnswered DEF MakeAccount
<1>1. /\ slLinked' \subseteq Persons /\ slMade' \in [Persons -> Nat] /\ MadeOnce'
  <2>1. CASE UNCHANGED <<slLinked, slMade>>
    BY <2>1 DEF SsoShapes, MadeOnce
  <2>2. CASE /\ p \notin slLinked /\ slLinked' = slLinked \cup {p}
             /\ slMade' = [slMade EXCEPT ![p] = slMade[p] + 1]
    <3>1. slMade' \in [Persons -> Nat] /\ slLinked' \subseteq Persons
      BY <1>0, <2>2 DEF SsoShapes
    <3>2. slMade'[p] = 1 /\ \A o \in Persons : o # p => slMade'[o] = slMade[o]
      BY <1>0, <2>2 DEF SsoShapes, MadeOnce
    <3> QED BY <1>0, <2>2, <3>1, <3>2 DEF MadeOnce
  <2> QED BY <1>0, <2>1, <2>2
<1>2. SsoAdvances
  BY <1>0 DEF SsoAdvances, ProviderStays
<1>3. slRow'[slCall[c].login].at = "used" /\ Vetted(slCall[c])
  BY <1>0 DEF CallFits, Vetted
<1>4. slRow' \in [Logins -> SsoRow] /\ slSpent' \subseteq Logins
  BY <1>0 DEF SsoShapes
<1> QED
  BY <1>0, <1>1, <1>2, <1>3, <1>4, SsoMove

(* The callback ends with a session.                                       *)
LEMMA IssueSsoStep ==
  ASSUME SsoInv, NEW c \in Callbacks, IssueSso(c)
  PROVE  SsoInv'
<1> USE DEF SsoInv
<1> DEFINE l == slCall[c].login
<1>s. PICK s0 : s0 = [by |-> slRow[l].by, to |-> slCall[c].by, as |-> PersonOf(c),
                      login |-> l, n |-> Cardinality(slSession)]
  OBVIOUS
<1>t. s0.login = l /\ s0.to = slCall[c].by /\ s0.by = slRow[l].by /\ s0.as = PersonOf(c)
  BY <1>s
<1>0. /\ slCall[c].pc = "issue" /\ slCall[c] \in SsoCall /\ l \in Logins
      /\ slSession' = slSession \cup {s0}
      /\ slCookie' = [slCookie EXCEPT ![slCall[c].by] = NoLogin]
      /\ slCall' = [slCall EXCEPT ![c] = NoCall]
      /\ UNCHANGED <<slRow, slAnswer, slSpent, slLinked, slMade, slTwice>> /\ ProviderStays
  BY <1>s, CallUnderWay DEF IssueSso, Ends, SsoCall
<1>1. SsoAdvances
  BY <1>0 DEF SsoAdvances, ProviderStays
<1>2. /\ slCall' \in [Callbacks -> SsoCall \cup {NoCall}] /\ slCall'[c].pc = "none"
      /\ \A d \in Callbacks : d # c => slCall'[d] = slCall[d]
  BY <1>0 DEF SsoShapes, NoCall
<1>3. /\ slCookie' \in [Browsers -> Logins \cup {NoLogin}]
      /\ \A b \in Browsers : slCookie'[b] \in {slCookie[b], NoLogin}
  BY <1>0 DEF SsoShapes
<1>4. SsoShapes' /\ AnswersFit' /\ MadeOnce'
  BY <1>0, <1>2, <1>3 DEF SsoShapes, AnswersFit, MadeOnce, ProviderStays
<1>5. CookiesFit'
  BY <1>0, <1>3, SsoAssumption DEF CookiesFit
<1>6. Issued(s0)'
  <2>1. CallFits(slCall[c])
    OBVIOUS
  <2>2. slAnswer[l] = {PersonOf(c)}
    BY <1>0, PersonAnswered
  <2> QED BY <1>t, <1>0, <2>1, <2>2 DEF CallFits, Issued, Vetted, Redirects, ProviderStays
<1>7. \A d \in Callbacks : CallFits(slCall[d])'
  <2>1. CallFits(slCall[c])'
    BY <1>2 DEF CallFits
  <2> QED BY <1>1, <1>2, <2>1, SsoKeeps
<1>8. \A d, e \in Callbacks : d # e => Apart(slCall[d], slCall[e])'
  <2>1. \A d \in Callbacks : Apart(slCall[d], slCall[c])' /\ Apart(slCall[c], slCall[d])'
    BY <1>2 DEF Apart
  <2> QED BY <1>1, <1>2, <2>1, SsoKeeps
<1>9. \A d \in Callbacks, s \in slSession' : Clear(slCall[d], s)'
  <2>1. \A s \in slSession' : Clear(slCall[c], s)'
    BY <1>2 DEF Clear
  <2>2. \A d \in Callbacks, s \in slSession : d # c => Clear(slCall[d], s)'
    BY <1>1, <1>2, SsoKeeps
  <2>3. \A d \in Callbacks : d # c => Clear(slCall[d], s0)'
    <3> SUFFICES ASSUME NEW d \in Callbacks, d # c PROVE Clear(slCall[d], s0)'
      OBVIOUS
    <3>1. Apart(slCall[d], slCall[c])
      OBVIOUS
    <3> QED BY <1>t, <1>0, <1>2, <3>1 DEF Apart, Clear, Vetted, Redirects, ProviderStays
  <2> QED BY <1>0, <2>1, <2>2, <2>3
<1>10. \A s \in slSession' : Issued(s)'
  BY <1>0, <1>1, <1>6, SsoKeeps
<1>11. OneSessionPerLogin'
  <2>1. \A s \in slSession : s.login = s0.login => slKind = "saml" /\ l \in slTwice
    <3> SUFFICES ASSUME NEW s \in slSession, s.login = s0.login
                 PROVE  slKind = "saml" /\ l \in slTwice
      OBVIOUS
    <3>1. Clear(slCall[c], s) /\ s.login = l
      BY <1>t
    <3> QED BY <1>0, <3>1 DEF Clear, Vetted
  <2>2. s0.login = l
    BY <1>t
  <2>3. SUFFICES ASSUME NEW s \in slSession', NEW t \in slSession', s.login = t.login
                 PROVE  s = t \/ (slKind' = "saml" /\ s.login \in slTwice')
    BY DEF OneSessionPerLogin
  <2>4. slKind' = slKind /\ slTwice' = slTwice
    BY <1>0 DEF ProviderStays
  <2>5. CASE s \in slSession /\ t \in slSession
    BY <2>3, <2>4, <2>5 DEF OneSessionPerLogin
  <2>6. CASE s = s0 \/ t = s0
    BY <1>0, <2>1, <2>2, <2>3, <2>4, <2>6
  <2> QED BY <1>0, <2>5, <2>6
<1> QED
  BY <1>4, <1>5, <1>7, <1>8, <1>9, <1>10, <1>11

(* A row whose login is over keeps the browser that began it.              *)
UsedRow(row) == [row EXCEPT !.at = "used"]
LEMMA UsedRowKeeps ==
  ASSUME NEW row \in SsoRow
  PROVE  UsedRow(row) \in SsoRow /\ UsedRow(row).at = "used" /\ UsedRow(row).by = row.by
BY DEF UsedRow, SsoRow

(* A login begins: its row was not there, so nothing yet speaks of it.     *)
LEMMA SsoBeginsStep ==
  ASSUME SsoInv, NEW b \in Browsers, NEW l \in Logins, SsoBegins(b, l)
  PROVE  SsoInv'
<1> USE DEF SsoInv
<1>0. /\ slRow[l].at = "none" /\ slCookie' = [slCookie EXCEPT ![b] = l]
      /\ UNCHANGED <<slAnswer, slSpent, slCall, slLinked, slMade, slSession, slTwice>>
      /\ ProviderStays
  BY DEF SsoBegins
<1>1. /\ slRow' \in [Logins -> SsoRow] /\ slRow'[l].at = "open" /\ slRow'[l].by = b
      /\ \A k \in Logins : k # l => /\ slRow'[k].by = slRow[k].by
                                    /\ \/ slRow'[k].at = slRow[k].at
                                       \/ slRow[k].at = "open" /\ slRow'[k].at = "used"
  <2>1. PICK new : new = [at |-> "open", by |-> b, prov |-> slProv.id, old |-> FALSE]
    OBVIOUS
  <2>2. new \in SsoRow /\ new.at = "open" /\ new.by = b
    BY <2>1 DEF SsoRow, SsoShapes
  <2>3. \A k \in Logins : slRow[k] \in SsoRow
    BY DEF SsoShapes
  <2>4. slRow' = [k \in Logins |->
                    IF k = l THEN new
                    ELSE IF slRow[k].at = "open" /\ slRow[k].old THEN UsedRow(slRow[k])
                    ELSE slRow[k]]
    BY <2>1 DEF SsoBegins, UsedRow
  <2>5. slRow' \in [Logins -> SsoRow]
    BY <2>2, <2>3, <2>4, UsedRowKeeps
  <2>6. slRow'[l] = new
    BY <2>4
  <2>7. \A k \in Logins : k # l => \/ slRow'[k] = slRow[k]
                                   \/ slRow[k].at = "open" /\ slRow'[k] = UsedRow(slRow[k])
    <3> SUFFICES ASSUME NEW k \in Logins, k # l
                 PROVE  \/ slRow'[k] = slRow[k]
                        \/ slRow[k].at = "open" /\ slRow'[k] = UsedRow(slRow[k])
      OBVIOUS
    <3>1. CASE slRow[k].at = "open" /\ slRow[k].old
      BY <2>4, <3>1
    <3>2. CASE ~ (slRow[k].at = "open" /\ slRow[k].old)
      BY <2>4, <3>2
    <3> QED BY <3>1, <3>2
  <2> QED BY <2>2, <2>3, <2>5, <2>6, <2>7, UsedRowKeeps
<1>2. SsoAdvances
  BY <1>0, <1>1 DEF SsoAdvances, ProviderStays
<1>3. SsoShapes' /\ MadeOnce'
  BY <1>0, <1>1 DEF SsoShapes, MadeOnce, ProviderStays
<1>4. AnswersFit'
  BY <1>0, <1>1 DEF AnswersFit
<1>5. CookiesFit'
  <2> SUFFICES ASSUME NEW a \in Browsers, slCookie'[a] \in Logins
               PROVE  slRow'[slCookie'[a]].at # "none" /\ slRow'[slCookie'[a]].by = a
    BY DEF CookiesFit
  <2>1. CASE a = b
    BY <1>0, <1>1, <2>1 DEF SsoShapes
  <2>2. CASE a # b
    <3>1. slCookie'[a] = slCookie[a]
      BY <1>0, <2>2 DEF SsoShapes
    <3> QED BY <1>0, <1>1, <3>1 DEF CookiesFit
  <2> QED BY <2>1, <2>2
<1> QED
  BY <1>0, <1>2, <1>3, <1>4, <1>5, SsoQuiet

(* A login past its hour keeps its row until it is swept.                  *)
LEMMA LoginExpiresStep ==
  ASSUME SsoInv, NEW l \in Logins, LoginExpires(l)
  PROVE  SsoInv'
<1> USE DEF SsoInv
<1>0. /\ slRow' = [slRow EXCEPT ![l] = [slRow[l] EXCEPT !.old = TRUE]]
      /\ UNCHANGED <<slCookie, slAnswer, slSpent, slCall, slLinked, slMade, slSession, slTwice>>
      /\ ProviderStays
  BY DEF LoginExpires
<1>1. PICK row : row = [slRow[l] EXCEPT !.old = TRUE]
  OBVIOUS
<1>2. row \in SsoRow /\ row.at = slRow[l].at /\ row.by = slRow[l].by
  BY <1>1 DEF SsoShapes, SsoRow
<1>3. /\ slRow' \in [Logins -> SsoRow]
      /\ \A k \in Logins : slRow'[k].at = slRow[k].at /\ slRow'[k].by = slRow[k].by
  BY <1>0, <1>1, <1>2 DEF SsoShapes
<1>4. SsoAdvances
  BY <1>0, <1>3 DEF SsoAdvances, ProviderStays
<1>5. SsoShapes' /\ MadeOnce' /\ AnswersFit' /\ CookiesFit'
  <2>1. SsoShapes' /\ MadeOnce'
    BY <1>0, <1>3 DEF SsoShapes, MadeOnce, ProviderStays
  <2>2. AnswersFit' /\ CookiesFit'
    BY <1>0, <1>3 DEF AnswersFit, CookiesFit
  <2> QED BY <2>1, <2>2
<1> QED
  BY <1>0, <1>4, <1>5, SsoQuiet

(* An answer is given once, to a login that began.                         *)
LEMMA ProviderAnswersStep ==
  ASSUME SsoInv, NEW l \in Logins, NEW p \in Persons, ProviderAnswers(l, p)
  PROVE  SsoInv'
<1> USE DEF SsoInv
<1>0. /\ slRow[l].at # "none" /\ slAnswer[l] = {} /\ slAnswer' = [slAnswer EXCEPT ![l] = {p}]
      /\ UNCHANGED <<slRow, slCookie, slSpent, slCall, slLinked, slMade, slSession, slTwice>>
      /\ ProviderStays
  BY DEF ProviderAnswers
<1>1. /\ slAnswer' \in [Logins -> SUBSET Persons] /\ slAnswer'[l] = {p}
      /\ \A k \in Logins : k # l => slAnswer'[k] = slAnswer[k]
  BY <1>0 DEF SsoShapes
<1>2. SsoAdvances
  BY <1>0, <1>1 DEF SsoAdvances, ProviderStays
<1>3. SsoShapes' /\ MadeOnce'
  BY <1>0, <1>1 DEF SsoShapes, MadeOnce, ProviderStays
<1>4. AnswersFit' /\ CookiesFit'
  BY <1>0, <1>1 DEF AnswersFit, CookiesFit
<1> QED
  BY <1>0, <1>2, <1>3, <1>4, SsoQuiet

(* A cookie retired names no login.                                        *)
LEMMA SamlFailClearsStep ==
  ASSUME SsoInv, NEW b \in Browsers, NEW l \in Logins, SamlFailClears(b, l)
  PROVE  SsoInv'
<1> USE DEF SsoInv
<1>0. /\ slCookie' = [slCookie EXCEPT ![b] = NoLogin]
      /\ UNCHANGED <<slRow, slAnswer, slSpent, slCall, slLinked, slMade, slSession, slTwice>>
      /\ ProviderStays
  BY DEF SamlFailClears
<1>1. /\ slCookie' \in [Browsers -> Logins \cup {NoLogin}]
      /\ \A a \in Browsers : slCookie'[a] \in {slCookie[a], NoLogin}
  BY <1>0 DEF SsoShapes
<1>2. SsoAdvances
  BY <1>0 DEF SsoAdvances, ProviderStays
<1>3. SsoShapes' /\ MadeOnce' /\ AnswersFit'
  BY <1>0, <1>1 DEF SsoShapes, MadeOnce, AnswersFit, ProviderStays
<1>4. CookiesFit'
  BY <1>0, <1>1, SsoAssumption DEF CookiesFit
<1> QED
  BY <1>0, <1>2, <1>3, <1>4, SsoQuiet

(* A callback arrives while its login's row is there: no session of that   *)
(* login exists yet, and the callbacks it overlaps are noted.              *)
LEMMA CallbackArrivesStep ==
  ASSUME SsoInv, NEW c \in Callbacks, NEW b \in Browsers, NEW l \in Logins,
         CallbackArrives(c, b, l), slKind # "ldap"
  PROVE  SsoInv'
<1> USE DEF SsoInv
<1>q. PICK q : q = [pc |-> "consume", by |-> b, login |-> l,
                    old |-> slRow[l].old, prov |-> slRow[l].prov]
  OBVIOUS
<1>r. q \in SsoCall /\ q.pc = "consume" /\ q.by = b /\ q.login = l
  BY <1>q DEF SsoShapes, SsoRow, SsoCall
<1>0. /\ slCall[c].pc = "none" /\ slAnswer[l] # {} /\ slCookie[b] = l /\ slRow[l].at = "open"
      /\ slCall' = [slCall EXCEPT ![c] = q]
      /\ slTwice' = IF \E d \in Callbacks : slCall[d].pc # "none" /\ slCall[d].login = l
                    THEN slTwice \cup {l} ELSE slTwice
      /\ UNCHANGED <<slRow, slCookie, slAnswer, slSpent, slLinked, slMade, slSession>>
      /\ ProviderStays
  BY <1>q DEF CallbackArrives
<1>1. /\ slCall' \in [Callbacks -> SsoCall \cup {NoCall}] /\ slCall'[c] = q
      /\ \A d \in Callbacks : d # c => slCall'[d] = slCall[d]
  BY <1>0, <1>r DEF SsoShapes
<1>2. SsoAdvances
  BY <1>0 DEF SsoAdvances, ProviderStays
<1>3. SsoShapes' /\ MadeOnce' /\ AnswersFit' /\ CookiesFit'
  <2>1. SsoShapes'
    BY <1>0, <1>1 DEF SsoShapes, ProviderStays
  <2>2. MadeOnce' /\ AnswersFit' /\ CookiesFit'
    BY <1>0 DEF MadeOnce, AnswersFit, CookiesFit
  <2> QED BY <2>1, <2>2
<1>4. CallFits(slCall[c])'
  BY <1>0, <1>1, <1>r DEF CallFits, Vetted, CookiesFit
<1>5. Redirects \/ slKind = "saml"
  BY DEF SsoShapes, Redirects
<1>6. Redirects' = Redirects /\ slKind' = slKind
  BY <1>0 DEF Redirects, ProviderStays
<1>7. \A d \in Callbacks : d # c => Apart(slCall[c], slCall[d])'
  BY <1>0, <1>1, <1>r, <1>5, <1>6 DEF Apart, Vetted
<1>8. \A s \in slSession : Clear(slCall[c], s)'
  BY <1>0, <1>1, <1>r DEF Clear, Issued
<1> QED
  BY <1>0, <1>1, <1>2, <1>3, <1>4, <1>7, <1>8, SsoOneCall

(* A directory login is new: no other callback is about it.                *)
LEMMA DirectoryLoginStep ==
  ASSUME SsoInv, NEW c \in Callbacks, NEW b \in Browsers, NEW l \in Logins,
         NEW p \in Persons, DirectoryLogin(c, b, l, p)
  PROVE  SsoInv'
<1> USE DEF SsoInv
<1>q. PICK q : q = [pc |-> "exchange", by |-> b, login |-> l, old |-> FALSE, prov |-> slProv.id]
  OBVIOUS
<1>r. q \in SsoCall /\ q.pc = "exchange" /\ q.by = b /\ q.login = l
  BY <1>q DEF SsoShapes, SsoCall
<1>s. PICK row : row = [at |-> "used", by |-> b, prov |-> slProv.id, old |-> FALSE]
  OBVIOUS
<1>t. row \in SsoRow /\ row.at = "used" /\ row.by = b
  BY <1>s DEF SsoShapes, SsoRow
<1>0. /\ slCall[c].pc = "none" /\ slRow[l].at = "none"
      /\ slRow' = [slRow EXCEPT ![l] = row] /\ slAnswer' = [slAnswer EXCEPT ![l] = {p}]
      /\ slCall' = [slCall EXCEPT ![c] = q] /\ slKind = "ldap"
      /\ UNCHANGED <<slCookie, slSpent, slLinked, slMade, slSession, slTwice>>
      /\ ProviderStays
  BY <1>q, <1>s DEF DirectoryLogin
<1>1. /\ slCall' \in [Callbacks -> SsoCall \cup {NoCall}] /\ slCall'[c] = q
      /\ \A d \in Callbacks : d # c => slCall'[d] = slCall[d]
      /\ slRow' \in [Logins -> SsoRow] /\ slRow'[l] = row
      /\ \A k \in Logins : k # l => slRow'[k] = slRow[k]
      /\ slAnswer' \in [Logins -> SUBSET Persons] /\ slAnswer'[l] = {p}
      /\ \A k \in Logins : k # l => slAnswer'[k] = slAnswer[k]
  BY <1>0, <1>r, <1>t DEF SsoShapes
<1>2. SsoAdvances
  BY <1>0, <1>1 DEF SsoAdvances, ProviderStays, AnswersFit
<1>3. SsoShapes' /\ MadeOnce' /\ AnswersFit' /\ CookiesFit'
  <2>1. SsoShapes'
    BY <1>0, <1>1 DEF SsoShapes, ProviderStays
  <2>2. MadeOnce' /\ AnswersFit'
    BY <1>0, <1>1, <1>t DEF MadeOnce, AnswersFit
  <2>3. CookiesFit'
    BY <1>0, <1>1 DEF CookiesFit
  <2> QED BY <2>1, <2>2, <2>3
<1>4. CallFits(slCall[c])'
  BY <1>0, <1>1, <1>r, <1>t DEF CallFits, Vetted
<1>7. \A d \in Callbacks : d # c => Apart(slCall[c], slCall[d])'
  BY <1>0, <1>1, <1>r DEF Apart, CallFits
<1>8. \A s \in slSession : Clear(slCall[c], s)'
  BY <1>0, <1>1, <1>r DEF Clear, Issued
<1> QED
  BY <1>0, <1>1, <1>2, <1>3, <1>4, <1>7, <1>8, SsoOneCall

(* With a replaced provider go its links and its login states.             *)
LEMMA ProviderEditStep ==
  ASSUME SsoInv, UpdateProvider \/ ReplaceProvider
  PROVE  SsoInv'
<1> USE SsoAssumption DEF SsoInv
<1>0. /\ UNCHANGED <<slKind, slCookie, slAnswer, slSpent, slCall, slSession, slTwice>>
      /\ slEdits < MaxProviderEdits /\ slEdits' = slEdits + 1
  BY DEF UpdateProvider, ReplaceProvider
<1>1. slProv' \in [on : BOOLEAN, id : Nat] /\ slProv'.id <= slEdits'
  <2>1. CASE UpdateProvider
    <3>1. slProv' = [slProv EXCEPT !.on = ~ slProv.on]
      BY <2>1 DEF UpdateProvider
    <3>2. slProv' \in [on : BOOLEAN, id : Nat] /\ slProv'.id = slProv.id
      BY <3>1 DEF SsoShapes
    <3> QED BY <3>2, <1>0 DEF SsoShapes
  <2>2. CASE ReplaceProvider
    <3>1. slProv.id + 1 \in Nat /\ slProv.id + 1 <= slEdits'
      BY <1>0 DEF SsoShapes
    <3> QED BY <3>1, <2>2 DEF ReplaceProvider
  <2> QED BY <2>1, <2>2
<1>2. /\ slRow' \in [Logins -> SsoRow]
      /\ \A k \in Logins : /\ slRow'[k].by = slRow[k].by
                           /\ \/ slRow'[k].at = slRow[k].at
                              \/ slRow[k].at = "open" /\ slRow'[k].at = "used"
  <2>1. CASE UpdateProvider
    <3>1. slRow' = slRow
      BY <2>1 DEF UpdateProvider
    <3>2. slRow \in [Logins -> SsoRow]
      BY DEF SsoShapes
    <3> HIDE DEF SsoInv
    <3> QED BY <3>1, <3>2
  <2>2. CASE ReplaceProvider
    <3>1. slRow' = [k \in Logins |-> IF slRow[k].at = "open" THEN UsedRow(slRow[k]) ELSE slRow[k]]
      BY <2>2 DEF ReplaceProvider, UsedRow
    <3>2. \A k \in Logins : slRow[k] \in SsoRow
      BY DEF SsoShapes
    <3>3. \A k \in Logins : \/ slRow'[k] = slRow[k]
                            \/ slRow[k].at = "open" /\ slRow'[k] = UsedRow(slRow[k])
      BY <3>1
    <3>4. slRow' \in [Logins -> SsoRow]
      BY <3>1, <3>2, UsedRowKeeps
    <3> QED BY <3>2, <3>3, <3>4, UsedRowKeeps
  <2> QED BY <2>1, <2>2
<1>3. /\ slLinked' \subseteq Persons /\ slMade' \in [Persons -> Nat] /\ MadeOnce'
  BY DEF UpdateProvider, ReplaceProvider, SsoShapes, MadeOnce
<1>4. SsoAdvances
  BY <1>0, <1>2 DEF SsoAdvances
<1>5. SsoShapes' /\ AnswersFit' /\ CookiesFit'
  <2>1. SsoShapes'
    BY <1>0, <1>1, <1>2, <1>3 DEF SsoShapes
  <2>2. AnswersFit' /\ CookiesFit'
    BY <1>0, <1>2 DEF AnswersFit, CookiesFit
  <2> QED BY <2>1, <2>2
<1> QED
  BY <1>0, <1>3, <1>4, <1>5, SsoQuiet

(* Every step of the provider sign-in keeps the invariant.                 *)
LEMMA SsoStep == SsoInv /\ [SsoNext]_slVars => SsoInv'
<1> SUFFICES ASSUME SsoInv, [SsoNext]_slVars PROVE SsoInv'
  OBVIOUS
<1>1. CASE UNCHANGED slVars
  BY <1>1 DEF slVars, SsoInv, SsoShapes, AnswersFit, CookiesFit, MadeOnce, CallFits, Apart,
              Clear, Issued, OneSessionPerLogin, Redirects
<1>2. ASSUME NEW l \in Logins, NEW b \in Browsers,
             OidcLogin(b, l) \/ OAuth2Login(b, l) \/ SamlLogin(b, l) \/ SamlFailClears(b, l)
      PROVE  SsoInv'
  BY <1>2, SsoBeginsStep, SamlFailClearsStep DEF OidcLogin, OAuth2Login, SamlLogin
<1>3. ASSUME NEW l \in Logins,
             LoginExpires(l) \/ \E p \in Persons : ProviderAnswers(l, p)
      PROVE  SsoInv'
  BY <1>3, LoginExpiresStep, ProviderAnswersStep
<1>4. ASSUME NEW l \in Logins, NEW b \in Browsers, NEW c \in Callbacks,
             OidcCallback(c, b, l) \/ OAuth2Callback(c, b, l) \/ SamlAcs(c, b, l)
      PROVE  SsoInv'
  <2>1. CallbackArrives(c, b, l) /\ slKind # "ldap"
    BY <1>4 DEF OidcCallback, OAuth2Callback, SamlAcs
  <2> QED BY <2>1, CallbackArrivesStep
<1>5. ASSUME NEW l \in Logins, NEW b \in Browsers, NEW c \in Callbacks, NEW p \in Persons,
             DirectoryLogin(c, b, l, p)
      PROVE  SsoInv'
  BY <1>5, DirectoryLoginStep
<1>6. ASSUME NEW c \in Callbacks,
             \/ ConsumeState(c) \/ EnabledProvider(c) \/ ValidateIdToken(c) \/ FetchIdentity(c)
             \/ ProcessResponse(c) \/ Authenticate(c)
             \/ ExchangeFails(c) \/ ResolveLinked(c) \/ MakeAccount(c) \/ IdentityRejected(c)
             \/ IssueSso(c)
      PROVE  SsoInv'
  BY <1>6, ConsumeStateStep, SsoStages, MakeAccountStep, IssueSsoStep
<1>7. CASE UpdateProvider \/ ReplaceProvider
  BY <1>7, ProviderEditStep
<1> QED
  BY <1>1, <1>2, <1>3, <1>4, <1>5, <1>6, <1>7 DEF SsoNext

(* The invariant gives what the run checks.                                *)
LEMMA SsoKept == SsoInv => SsoTypeOK /\ SsoSafe
<1> SUFFICES ASSUME SsoInv PROVE SsoTypeOK /\ SsoSafe
  OBVIOUS
<1> USE DEF SsoInv
<1>1. \A l \in Logins : Cardinality(slAnswer[l]) <= 1
  <2> TAKE l \in Logins
  <2>1. CASE slAnswer[l] = {}
    <3>1. Cardinality(slAnswer[l]) = 0
      BY <2>1, FS_EmptySet
    <3> QED BY <3>1
  <2>2. ASSUME NEW p \in Persons, slAnswer[l] = {p}
        PROVE  Cardinality(slAnswer[l]) <= 1
    <3>1. Cardinality({p}) = 1
      BY FS_Singleton
    <3> QED BY <3>1, <2>2
  <2> QED BY <2>1, <2>2 DEF AnswersFit
<1>2. slProv.on \in BOOLEAN /\ slProv.id \in 0 .. MaxProviderEdits
  BY SsoAssumption DEF SsoShapes
<1>3. \A l \in Logins : slRow[l].at \in {"none", "open", "used"}
  BY DEF SsoShapes, SsoRow
<1>4. SsoTypeOK
  BY <1>1, <1>2, <1>3 DEF SsoTypeOK, SsoShapes
<1>5. SessionForBeginner
  BY DEF SessionForBeginner, Issued
<1>6. OneAccountPerPerson
  BY DEF OneAccountPerPerson, MadeOnce
<1> QED
  BY <1>4, <1>5, <1>6 DEF SsoSafe
-----------------------------------------------------------------------------
(* Signing in.  What counts as verified was proved or vouched for, for the *)
(* address the account holds, a reset or a linked login reaches only the   *)
(* holder of the address (routers/auth.py, auth/external_identity.py); a   *)
(* provider's answer opens one session, in the browser that asked, for the *)
(* account of that person (routers/oidc.py, oauth2.py, saml.py), whatever  *)
(* requests, links and answers overlap, but for what the parts except.     *)
THEOREM SignInHolds == AccessSpec => []SignInSafe
<1>1. AccessInit => EmailInv /\ SsoInv
  BY EmailStart, SsoStart DEF AccessInit
<1>2. EmailInv /\ SsoInv /\ [AccessNext]_accessVars => (EmailInv /\ SsoInv)'
  <2> SUFFICES ASSUME EmailInv, SsoInv, [AccessNext]_accessVars
               PROVE  EmailInv' /\ SsoInv'
    OBVIOUS
  <2>1. [EmailNext]_emailVars /\ [SsoNext]_slVars
    BY DEF AccessNext, accessVars
  <2> QED
    BY <2>1, EmailStep, SsoStep
<1>3. EmailInv /\ SsoInv => SignInSafe
  BY EmailKept, SsoKept DEF SignInSafe
<1> QED
  BY <1>1, <1>2, <1>3, PTL DEF AccessSpec
=============================================================================
