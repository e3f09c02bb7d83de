---------------------------- MODULE AccountEmail ----------------------------
(***************************************************************************)
(* Who has proved which address: registration, change_email, the links of  *)
(* verification and of password resets (routers/auth.py), edits by staff   *)
(* (routers/users.py) and the external logins that are linked to the       *)
(* account holding a trusted address (auth/external_identity.py).          *)
(* A request loads the account, awaits, and commits later: ORM writes set  *)
(* only the attributes that differ from what was loaded, the two link      *)
(* handlers write with one conditional UPDATE.  Letter case is left out.   *)
(***************************************************************************)
EXTENDS Naturals, FiniteSets

CONSTANTS Users, Addresses, Subjects, NoAddr, NoOne,
          EmailRequests,      \* concurrent requests
          MaxLinks,           \* bound: links outstanding at a time
          MaxMailSteps,       \* bound: requests begun, and links they go on to send
          SubjectAddr         \* the address a provider asserts for a subject

ASSUME EmailAssumption == /\ MaxLinks \in Nat /\ MaxMailSteps \in Nat
                          /\ SubjectAddr \in [Subjects -> Addresses]
                          /\ NoAddr \notin Addresses /\ NoOne \notin Users

VARIABLES user,      \* users rows
          vtok,      \* email_verification_tokens: whose, and the address mailed
          rtok,      \* password_reset_tokens
          link,      \* user_external_identities: the account of a subject
          ereq,      \* requests in flight
          begun,     \* how many were begun
          proven,    \* history: addresses each account has proved it reads
          overtaken, \* history: accounts whose edit overtook a verification
          strayed    \* history: accounts reset by a link to an address not theirs
emailVars == <<user, vtok, rtok, link, ereq, begun, proven, overtaken, strayed>>

Account == [exists: BOOLEAN, email: Addresses \cup {NoAddr}, verified: BOOLEAN]
Mail == [user: Users, email: Addresses]
NoMail == [user |-> NoOne, email |-> NoAddr]
EmailRequest == [op: {"none", "change", "edit", "resend", "send", "forgot", "verify", "reset", "sso"},
                 user: Users \cup {NoOne}, email: Addresses \cup {NoAddr},
                 verified: BOOLEAN, subject: Subjects \cup {NoOne}]
Nothing == [op |-> "none", user |-> NoOne, email |-> NoAddr, verified |-> FALSE, subject |-> NoOne]

EmailTypeOK ==
  /\ user \in [Users -> Account] /\ vtok \subseteq Mail /\ rtok \subseteq Mail
  /\ link \in [Subjects -> Users \cup {NoOne}] /\ ereq \in [EmailRequests -> EmailRequest]
  /\ begun \in 0..MaxMailSteps
  /\ proven \in [Users -> SUBSET Addresses] /\ overtaken \subseteq Users /\ strayed \subseteq Users

NoAccount == [exists |-> FALSE, email |-> NoAddr, verified |-> FALSE]
EmailInit ==
  /\ user = [u \in Users |-> NoAccount] /\ vtok = {} /\ rtok = {}
  /\ link = [s \in Subjects |-> NoOne] /\ ereq = [r \in EmailRequests |-> Nothing] /\ begun = 0
  /\ proven = [u \in Users |-> {}] /\ overtaken = {} /\ strayed = {}

Free(r) == ereq[r].op = "none"
Begin(r, rec) == /\ begun < MaxMailSteps /\ begun' = begun + 1
                 /\ ereq' = [ereq EXCEPT ![r] = rec]
End(r) == ereq' = [ereq EXCEPT ![r] = Nothing] /\ UNCHANGED begun
Unclaimed(e, u) == e = NoAddr \/ \A v \in Users \ {u} : user[v].email # e     \* the unique index
Of(toks, u) == {t \in toks : t.user = u}
Outstanding(vs, rs) == Cardinality(vs) + Cardinality(rs) < MaxLinks
----------------------------------------------------------------------------
(* register: a live account with an unproven address; the link follows.    *)
Register(r, u, e) ==
  /\ Free(r) /\ ~user[u].exists /\ Unclaimed(e, u)
  /\ user' = [user EXCEPT ![u] = [exists |-> TRUE, email |-> e, verified |-> FALSE]]
  /\ IF e = NoAddr THEN End(r) ELSE Begin(r, [Nothing EXCEPT !.op = "send", !.user = u, !.email = e])
  /\ UNCHANGED <<vtok, rtok, link, proven, overtaken, strayed>>

(* create_user and JIT provisioning vouch for the address they set.        *)
CreateVouched(u, e) ==
  /\ ~user[u].exists /\ Unclaimed(e, u)
  /\ user' = [user EXCEPT ![u] = [exists |-> TRUE, email |-> e, verified |-> TRUE]]
  /\ proven' = [proven EXCEPT ![u] = @ \cup ({e} \ {NoAddr})]

CreateUser(u, e) == e # NoAddr /\ CreateVouched(u, e)
                    /\ UNCHANGED <<vtok, rtok, link, ereq, begun, overtaken, strayed>>

(* Handlers of a signed-in user, and of staff, start by loading the row.   *)
Load(r, u, op, e) ==
  /\ Free(r) /\ user[u].exists /\ op \in {"change", "edit", "resend"}
  /\ op \in {"change", "edit"} => user[u].email # e
  /\ op = "edit" => e # NoAddr
  /\ op = "resend" => e = user[u].email /\ e # NoAddr /\ ~user[u].verified
  /\ Begin(r, [Nothing EXCEPT !.op = op, !.user = u, !.email = e,
                       !.verified = op = "edit" /\ user[u].verified])
  /\ UNCHANGED <<user, vtok, rtok, link, proven, overtaken, strayed>>

(* change_email: flag_modified writes the reset of the stamp even when the *)
(* loaded value was empty, and outstanding links are dropped.              *)
ChangeEmail(r) ==
  LET u == ereq[r].user
      e == ereq[r].email
  IN /\ ereq[r].op = "change" /\ Unclaimed(e, u)
     /\ user' = [user EXCEPT ![u].email = e, ![u].verified = FALSE]
     /\ vtok' = vtok \ Of(vtok, u) /\ rtok' = rtok \ Of(rtok, u)
     /\ IF e = NoAddr THEN End(r) ELSE Begin(r, [ereq[r] EXCEPT !.op = "send"])
     /\ UNCHANGED <<link, proven, overtaken, strayed>>

(* update_user: an Administrator vouches, a delegate clears the stamp; the *)
(* cleared stamp is written only when the loaded one was set.              *)
EditEmail(r) ==
  LET u == ereq[r].user
      e == ereq[r].email
  IN /\ ereq[r].op = "edit" /\ Unclaimed(e, u)
     /\ \E vouches \in BOOLEAN :
          LET stays == ~vouches /\ ~ereq[r].verified
          IN /\ user' = [user EXCEPT ![u].email = e,
                                     ![u].verified = IF stays THEN @ ELSE vouches]
             /\ proven' = IF vouches THEN [proven EXCEPT ![u] = @ \cup {e}] ELSE proven
             /\ overtaken' = IF stays /\ user[u].verified THEN overtaken \cup {u}
                             ELSE overtaken
     /\ vtok' = vtok \ Of(vtok, u) /\ rtok' = rtok \ Of(rtok, u)
     /\ End(r) /\ UNCHANGED <<link, strayed>>

(* A unique address taken in the meantime: the commit fails.               *)
EmailConflict(r) ==
  /\ ereq[r].op \in {"change", "edit"} /\ ~Unclaimed(ereq[r].email, ereq[r].user)
  /\ End(r) /\ UNCHANGED <<user, vtok, rtok, link, proven, overtaken, strayed>>

(* _send_verification_email: one fresh link, bound to the address as the   *)
(* handler knows it, replaces those outstanding.                           *)
SendLink(r) ==
  LET u == ereq[r].user
  IN /\ ereq[r].op \in {"send", "resend"} /\ Outstanding(vtok \ Of(vtok, u), rtok)
     /\ vtok' = (vtok \ Of(vtok, u)) \cup {[user |-> u, email |-> ereq[r].email]}
     /\ End(r) /\ UNCHANGED <<user, rtok, link, proven, overtaken, strayed>>

(* _deliver_password_reset: the address is read again, the token inserted. *)
ForgotPassword(r, u) ==
  /\ Free(r) /\ user[u].exists /\ user[u].email # NoAddr
  /\ Begin(r, [Nothing EXCEPT !.op = "forgot", !.user = u, !.email = user[u].email])
  /\ UNCHANGED <<user, vtok, rtok, link, proven, overtaken, strayed>>
DeliverReset(r) ==
  /\ ereq[r].op = "forgot" /\ Outstanding(vtok, rtok)
  /\ rtok' = rtok \cup {[user |-> ereq[r].user, email |-> ereq[r].email]}
  /\ End(r) /\ UNCHANGED <<user, vtok, link, proven, overtaken, strayed>>

(* A link is followed: the token is read ...                               *)
FollowLink(r, t, op) ==
  /\ Free(r) /\ t \in IF op = "verify" THEN vtok ELSE rtok
  /\ Begin(r, [Nothing EXCEPT !.op = op, !.user = t.user, !.email = t.email])
  /\ UNCHANGED <<user, vtok, rtok, link, proven, overtaken, strayed>>

(* ... and one UPDATE stamps the account if it still holds the address.    *)
(* Otherwise only this link is retired.                                    *)
VerifyMatching(r, matches) ==
  LET u == ereq[r].user
      e == ereq[r].email
  IN /\ ereq[r].op = "verify"
     /\ user' = IF matches THEN [user EXCEPT ![u].verified = TRUE] ELSE user
     /\ proven' = IF matches THEN [proven EXCEPT ![u] = @ \cup {e}] ELSE proven
     /\ vtok' = IF matches THEN vtok \ Of(vtok, u) ELSE vtok \ {[user |-> u, email |-> e]}
     /\ End(r) /\ UNCHANGED <<rtok, link, overtaken, strayed>>
VerifyEmail_AnyAddress(r) == VerifyMatching(r, TRUE)
VerifyEmail(r) == VerifyMatching(r, user[ereq[r].user].email = ereq[r].email)

(* reset_password likewise; a success drops every reset link.              *)
ResetMatching(r, matches) ==
  LET u == ereq[r].user
      e == ereq[r].email
  IN /\ ereq[r].op = "reset"
     /\ strayed' = IF matches /\ user[u].email # e THEN strayed \cup {u} ELSE strayed
     /\ rtok' = IF matches THEN rtok \ Of(rtok, u) ELSE rtok \ {[user |-> u, email |-> e]}
     /\ End(r) /\ UNCHANGED <<user, vtok, link, proven, overtaken>>
ResetPassword_AnyAddress(r) == ResetMatching(r, TRUE)
ResetPassword(r) == ResetMatching(r, user[ereq[r].user].email = ereq[r].email)

(* resolve_identity: a subject already linked signs in without a change.   *)
(* On first contact the account holding the asserted address is looked up: *)
(* unproven refuses, proven will be linked, none provisions an account.    *)
Matches(s) == {u \in Users : user[u].exists /\ user[u].email = SubjectAddr[s]}
ResolveFor(r, s, acceptable) ==
  /\ Free(r) /\ link[s] = NoOne
  /\ \/ \E u \in Matches(s) :
          /\ acceptable[u]
          /\ Begin(r, [Nothing EXCEPT !.op = "sso", !.user = u, !.subject = s])
          /\ UNCHANGED <<user, link, proven>>
     \/ /\ Matches(s) = {}
        /\ \E u \in Users : CreateVouched(u, SubjectAddr[s]) /\ link' = [link EXCEPT ![s] = u]
        /\ UNCHANGED <<ereq, begun>>
  /\ UNCHANGED <<vtok, rtok, overtaken, strayed>>
ResolveIdentity_Unproven(r, s) == ResolveFor(r, s, [u \in Users |-> TRUE])
ResolveIdentity(r, s) == ResolveFor(r, s, [u \in Users |-> user[u].verified])

(* The unique (provider, subject) lets only the first link commit.         *)
LinkIdentity(r) ==
  /\ ereq[r].op = "sso"
  /\ link' = IF link[ereq[r].subject] = NoOne
             THEN [link EXCEPT ![ereq[r].subject] = ereq[r].user] ELSE link
  /\ End(r) /\ UNCHANGED <<user, vtok, rtok, proven, overtaken, strayed>>

EmailNext ==
  \/ \E r \in EmailRequests :
       \/ ChangeEmail(r) \/ EditEmail(r) \/ EmailConflict(r) \/ SendLink(r)
       \/ DeliverReset(r) \/ VerifyEmail(r) \/ ResetPassword(r) \/ LinkIdentity(r)
       \/ \E s \in Subjects : ResolveIdentity(r, s)
       \/ \E u \in Users : ForgotPassword(r, u)
       \/ \E u \in Users, e \in Addresses \cup {NoAddr} :
            Register(r, u, e) \/ \E op \in {"change", "edit", "resend"} : Load(r, u, op, e)
       \/ \E t \in Mail, op \in {"verify", "reset"} : FollowLink(r, t, op)
  \/ \E u \in Users, e \in Addresses : CreateUser(u, e)
EmailSpec == EmailInit /\ [][EmailNext]_emailVars
----------------------------------------------------------------------------
(* An account marked as verified has proved, or somebody entitled to has   *)
(* vouched for, the very address it holds now, however changes, edits and  *)
(* links to old addresses overlap.  The edit of a delegate that overtakes  *)
(* a verification is the exception: it leaves the other's stamp in place.  *)
VerifiedIsProven ==
  \A u \in Users : user[u].verified /\ u \notin overtaken => user[u].email \in proven[u]

(* The comment of update_user takes no exception: "a narrower delegate's   *)
(* edit leaves it unproven".                                               *)
DelegateEditIsUnproven ==
  \A u \in Users : user[u].verified => user[u].email \in proven[u]

(* A password was only ever reset by a link mailed to the address that the *)
(* account held at that moment (reset_password's conditional UPDATE).      *)
ResetByHolder == strayed = {}

(* An external login only ever reaches an account that had proved the      *)
(* address the provider asserts (resolve_identity refuses the others).     *)
LinkedOnProof ==
  \A s \in Subjects : link[s] # NoOne /\ link[s] \notin overtaken => SubjectAddr[s] \in proven[link[s]]
=============================================================================
