-------------------------- MODULE RefreshSessions --------------------------
(***************************************************************************)
(* The credentials of one account: refresh sessions and personal API       *)
(* tokens (routers/auth.py, routers/users.py, routers/api_tokens.py).      *)
(* A request is a record in `req`; each of its steps is one statement or   *)
(* one transaction, so requests of several processes interleave between    *)
(* the check of a credential and the insertion of a new one.  Revocation   *)
(* reads the live rows and writes them by primary key at its commit.       *)
(* Times are reduced to the bits the code compares: whether a row has      *)
(* expired and whether it was revoked longer ago than the reuse grace.     *)
(***************************************************************************)
EXTENDS Naturals, FiniteSets

CONSTANTS SessionRequests,  \* concurrent requests
          MaxSessions,      \* bound: refresh rows ever inserted
          MaxApiTokens,     \* bound: API tokens ever inserted
          MaxSweeps         \* bound: password changes, resets and bans

ASSUME SessionBounds == MaxSessions \in Nat \ {0} /\ MaxApiTokens \in Nat /\ MaxSweeps \in Nat

VARIABLES session,    \* the refresh_sessions rows, numbered as inserted
          apitok,     \* the api_tokens rows
          account,    \* is_active; how often sessions and tokens were swept;
                      \* the families a replay has condemned
          req         \* the requests in flight
sessionVars == <<session, apitok, account, req>>

NoFamily == 0
Legacy == 1           \* row 1 was minted before rows had a family

(* A sweep is a committed revocation of everything the account holds:      *)
(* `sweeps` counts those of sessions, `recoveries` those of API tokens.    *)
(* `epoch` is the count when the request behind a row checked its          *)
(* credential; `late` marks a row that raced with a sweep.  Both are       *)
(* history, and dropped with the row.  "recent" and "old" are rows revoked *)
(* within and beyond the reuse grace.                                      *)
SessionRow == [family: 0..MaxSessions, state: {"live", "expired", "recent", "old"},
               epoch: 0..MaxSweeps, late: BOOLEAN]
TokenRow == [revoked: BOOLEAN, epoch: 0..MaxSweeps, late: BOOLEAN]
Request == [op: {"none", "login", "refresh", "logout", "change", "recover", "mint"},
            pc: {"idle", "issue", "reuse", "claim", "write"},
            row: 0..MaxSessions, family: 0..MaxSessions,
            epoch: 0..MaxSweeps, crossed: BOOLEAN,
            rows: SUBSET (1..MaxSessions), toks: SUBSET (1..MaxApiTokens)]
Quiet == [op |-> "none", pc |-> "idle", row |-> 0, family |-> NoFamily,
          epoch |-> 0, crossed |-> FALSE, rows |-> {}, toks |-> {}]

SessionTypeOK ==
  /\ DOMAIN session \in {1..n : n \in 0..MaxSessions}
  /\ \A s \in DOMAIN session : session[s] \in SessionRow
  /\ DOMAIN apitok \in {1..n : n \in 0..MaxApiTokens}
  /\ \A t \in DOMAIN apitok : apitok[t] \in TokenRow
  /\ account \in [active: BOOLEAN, sweeps: 0..MaxSweeps, recoveries: 0..MaxSweeps,
                condemned: SUBSET (1..MaxSessions)]
  /\ req \in [SessionRequests -> Request]

SessionInit ==
  /\ session = [s \in {Legacy} |-> [family |-> NoFamily, state |-> "live",
                                    epoch |-> 0, late |-> FALSE]]
  /\ apitok = [t \in {} |-> t]
  /\ account = [active |-> TRUE, sweeps |-> 0, recoveries |-> 0, condemned |-> {}]
  /\ req = [r \in SessionRequests |-> Quiet]

Live(s) == session[s].state \in {"live", "expired"}      \* not revoked
LiveRows == {s \in DOMAIN session : Live(s)}
LiveToks == {t \in DOMAIN apitok : ~apitok[t].revoked}
Finished(r) == req' = [req EXCEPT ![r] = Quiet]
Revoked(row) == [row EXCEPT !.state = "recent", !.epoch = 0, !.late = FALSE]
RevokedToken == [revoked |-> TRUE, epoch |-> 0, late |-> FALSE]
(* What a sweep leaves on a request, or on a row, it raced with.           *)
Crossed(q, raced) == [q EXCEPT !.crossed = @ \/ raced]
Late(row, raced) == [row EXCEPT !.late = @ \/ raced]
Revoke(rows) == session' = [s \in DOMAIN session |->
                              IF s \in rows THEN Revoked(session[s]) ELSE session[s]]
----------------------------------------------------------------------------
(* The password (or a directory) admits the caller; is_active is read with *)
(* the account.  The session is inserted by IssueSession, after awaits.    *)
Login(r) ==
  /\ req[r].pc = "idle" /\ account.active
  /\ req' = [req EXCEPT ![r] = [Quiet EXCEPT !.op = "login", !.pc = "issue", !.epoch = account.sweeps]]
  /\ UNCHANGED <<session, apitok, account>>

(* A new login mints a family (the row's own number), a rotation inherits  *)
(* the one it was given.                                                   *)
IssueSession(r) ==
  LET n == Cardinality(DOMAIN session) + 1
      row == [family |-> IF req[r].family = NoFamily THEN n ELSE req[r].family,
              state |-> "live",
              epoch |-> req[r].epoch, late |-> req[r].crossed]
  IN /\ req[r].pc = "issue" /\ req[r].op \in {"login", "refresh"}
     /\ n <= MaxSessions
     /\ session' = [s \in 1..n |-> IF s = n THEN row ELSE session[s]]
     /\ Finished(r) /\ UNCHANGED <<apitok, account>>

(* refresh: the row of the cookie is read.  A revoked one is a replay; one *)
(* past the grace condemns its family, others are only refused.            *)
RefreshRead(r, s) ==
  /\ req[r].pc = "idle" /\ s \in DOMAIN session
  /\ IF Live(s)
     THEN /\ session[s].state = "live"
          /\ req' = [req EXCEPT ![r] = [Quiet EXCEPT !.op = "refresh", !.pc = "claim", !.row = s]]
     ELSE /\ session[s].family # NoFamily /\ session[s].state = "old"
          /\ req' = [req EXCEPT ![r] = [Quiet EXCEPT !.op = "refresh", !.pc = "reuse", !.row = s,
                                    !.family = session[s].family]]
  /\ UNCHANGED <<session, apitok, account>>

(* Every live row of the family is revoked; a rotation of it in flight is  *)
(* marked, since its successor comes after.                                *)
RevokeAmong(r, rows) ==
  /\ req[r].pc = "reuse"
  /\ Revoke({s \in rows : session[s].family = req[r].family})
  /\ account' = [account EXCEPT !.condemned = @ \cup {req[r].family}]
  /\ req' = [q \in SessionRequests |->
               IF q = r THEN Quiet
               ELSE Crossed(req[q], req[q].pc = "issue" /\ req[q].family = req[r].family)]
  /\ UNCHANGED apitok
RevokeFamily_OnlyReplayed(r) == RevokeAmong(r, {req[r].row})
RevokeFamily(r) == RevokeAmong(r, LiveRows)

(* The claimed row, with a family from now on, and the request, which has  *)
(* its successor to issue.                                                 *)
Lineage(s) == IF session[s].family = NoFamily THEN s ELSE session[s].family
Rotated(s) == [Revoked(session[s]) EXCEPT !.family = Lineage(s)]
Rotates(q, s) == [q EXCEPT !.pc = "issue", !.family = Lineage(s),
                           !.epoch = session[s].epoch, !.crossed = session[s].late]

(* One conditional UPDATE claims the rotation: the row must still be live. *)
ClaimRotation_Unconditional(r) ==
  /\ req[r].pc = "claim"
  /\ LET s == req[r].row
     IN /\ session' = [session EXCEPT ![s] = Rotated(s)]
        /\ IF account.active THEN req' = [req EXCEPT ![r] = Rotates(@, s)]
           ELSE Finished(r)
  /\ UNCHANGED <<apitok, account>>
ClaimRotation(r) ==
  /\ req[r].pc = "claim"
  /\ LET s == req[r].row
     IN IF Live(s)
        THEN /\ session' = [session EXCEPT ![s] = Rotated(s)]
             /\ IF account.active THEN req' = [req EXCEPT ![r] = Rotates(@, s)]
                ELSE Finished(r)
        ELSE UNCHANGED session /\ Finished(r)
  /\ UNCHANGED <<apitok, account>>

Logout(r, s) ==
  /\ req[r].pc = "idle" /\ s \in LiveRows
  /\ req' = [req EXCEPT ![r] = [Quiet EXCEPT !.op = "logout", !.pc = "write", !.rows = {s}]]
  /\ UNCHANGED <<session, apitok, account>>

(* create_token: the current password is verified, the row comes later.    *)
MintCheck(r) ==
  /\ req[r].pc = "idle" /\ account.active
  /\ Cardinality(DOMAIN apitok) < MaxApiTokens
  /\ req' = [req EXCEPT ![r] = [Quiet EXCEPT !.op = "mint", !.pc = "issue", !.epoch = account.recoveries]]
  /\ UNCHANGED <<session, apitok, account>>

MintToken(r) ==
  LET n == Cardinality(DOMAIN apitok) + 1
      row == [revoked |-> FALSE, epoch |-> req[r].epoch, late |-> req[r].crossed]
  IN /\ req[r].pc = "issue" /\ req[r].op = "mint" /\ n <= MaxApiTokens
     /\ apitok' = [t \in 1..n |-> IF t = n THEN row ELSE apitok[t]]
     /\ Finished(r) /\ UNCHANGED <<session, account>>

(* _revoke: the holder or an overseer revokes one token, idempotently.     *)
RevokeToken(t) ==
  /\ t \in LiveToks
  /\ apitok' = [apitok EXCEPT ![t] = RevokedToken]
  /\ UNCHANGED <<session, account, req>>

(* change_password revokes the sessions; reset_password, an administrator  *)
(* setting the password and a ban revoke the API tokens as well.  First    *)
(* the live rows are read ...                                              *)
SweepRead(r, op) ==
  /\ req[r].pc = "idle" /\ account.sweeps < MaxSweeps
  /\ op = "change" => account.active
  /\ req' = [req EXCEPT ![r] = [Quiet EXCEPT !.op = op, !.pc = "write", !.rows = LiveRows,
                                             !.toks = IF op = "recover" THEN LiveToks ELSE {}]]
  /\ UNCHANGED <<session, apitok, account>>

(* ... then they are written and committed together with the new password  *)
(* or the ban.  Whatever is inserted by a request in flight, or was        *)
(* inserted since the read, has raced with the sweep.                      *)
Sweep(r, rows, toks) ==
  /\ req[r].pc = "write" /\ req[r].op \in {"change", "recover"} /\ account.sweeps < MaxSweeps
  /\ session' = [s \in DOMAIN session |->
                   IF s \in rows THEN Revoked(session[s])
                   ELSE Late(session[s], s \in LiveRows \ req[r].rows)]
  /\ apitok' = [t \in DOMAIN apitok |->
                  IF t \in toks THEN RevokedToken
                  ELSE Late(apitok[t], req[r].op = "recover" /\ t \in LiveToks \ req[r].toks)]
  /\ \E ban \in BOOLEAN :
       /\ ban => req[r].op = "recover"
       /\ account' = [account EXCEPT !.sweeps = @ + 1,
                                     !.recoveries = IF req[r].op = "recover" THEN @ + 1 ELSE @,
                                     !.active = @ /\ ~ban]
  /\ req' = [q \in SessionRequests |-> IF q = r THEN Quiet
                                       ELSE Crossed(req[q], req[q].pc = "issue")]
SweepCommit_KeepsSessions(r) == Sweep(r, {}, req[r].toks)
SweepCommit_KeepsTokens(r) == Sweep(r, req[r].rows, {})
SweepCommit(r) == Sweep(r, req[r].rows, req[r].toks)

LogoutCommit(r) ==
  /\ req[r].pc = "write" /\ req[r].op = "logout"
  /\ Revoke(req[r].rows) /\ Finished(r) /\ UNCHANGED <<apitok, account>>

Unban ==
  /\ ~account.active /\ account' = [account EXCEPT !.active = TRUE]
  /\ UNCHANGED <<session, apitok, req>>

SessionAges_Stamps(s) ==
  /\ s \in DOMAIN session /\ Live(s)
  /\ session' = [session EXCEPT ![s].state = "gone"]
  /\ UNCHANGED <<apitok, account, req>>
(* Time passes: a row expires, or the grace of a revoked one ends.         *)
SessionAges(s) ==
  /\ s \in DOMAIN session
  /\ \/ session[s].state = "live" /\ session' = [session EXCEPT ![s].state = "expired"]
     \/ session[s].state = "recent" /\ session' = [session EXCEPT ![s].state = "old"]
  /\ UNCHANGED <<apitok, account, req>>

SessionNext ==
  \/ \E r \in SessionRequests :
       \/ Login(r) \/ IssueSession(r) \/ RevokeFamily(r) \/ ClaimRotation(r)
       \/ MintCheck(r) \/ MintToken(r) \/ SweepCommit(r) \/ LogoutCommit(r)
       \/ \E op \in {"change", "recover"} : SweepRead(r, op)
       \/ \E s \in DOMAIN session : RefreshRead(r, s) \/ Logout(r, s)
  \/ \E t \in DOMAIN apitok : RevokeToken(t)
  \/ \E s \in DOMAIN session : SessionAges(s)
  \/ Unban
SessionSpec == SessionInit /\ [][SessionNext]_sessionVars
----------------------------------------------------------------------------
(* A login lineage never forks: of all the refreshes that present its      *)
(* tokens, at once or late, at most one holds a live token or is about to  *)
(* get one (refresh claims the rotation with a conditional UPDATE).        *)
OneSuccessor ==
  \A f \in 1..MaxSessions :
    Cardinality({s \in LiveRows : session[s].family = f})
    + Cardinality({r \in SessionRequests : /\ req[r].pc = "issue" /\ req[r].op = "refresh"
                                           /\ req[r].family = f}) <= 1

(* After a password change, reset or ban every older session is dead: one  *)
(* that is live descends from a credential checked since, or was issued by *)
(* a request that raced with the revocation.                               *)
SweptSessionsDie ==
  \A s \in LiveRows : session[s].epoch = account.sweeps \/ session[s].late

(* A replayed token ends its whole lineage: no live session of a condemned *)
(* family but the one a rotation already under way still inserts.          *)
CondemnedFamilyDies ==
  \A s \in LiveRows : session[s].family \in account.condemned => session[s].late

(* The same of API tokens, which survive a plain password change and die   *)
(* with a reset, an administrator's intervention or a ban, so that an      *)
(* unban brings none of them back.                                         *)
SweptTokensDie ==
  \A t \in LiveToks : apitok[t].epoch = account.recoveries \/ apitok[t].late

(* Sessions: no rotation forks a login, and passwords changed, accounts    *)
(* recovered or banned and replayed tokens end what they must, whatever    *)
(* refreshes and logouts are under way.                                    *)
SessionsSafe ==
    /\ SessionTypeOK
    /\ OneSuccessor /\ SweptSessionsDie /\ SweptTokensDie /\ CondemnedFamilyDies
============================================================================
