------------------------------ MODULE SsoLogin ------------------------------
(***************************************************************************)
(* Signing in through an identity provider: the redirect logins of         *)
(* routers/oidc.py, routers/oauth2.py and routers/saml.py over the table   *)
(* of login states, the directory login of routers/auth.py and             *)
(* utils/ldap.py, the account an identity resolves to                      *)
(* (auth/external_identity.py, whose use of e-mail addresses AccountEmail  *)
(* models), and the administration of providers                            *)
(* (routers/auth_providers_admin.py).  The provider itself is external: it *)
(* answers a login with the person who signed in there, and redeems an     *)
(* authorization code once.  Answers arrive late, twice, or in another     *)
(* browser than the one that asked.                                        *)
(***************************************************************************)
EXTENDS Naturals, FiniteSets

CONSTANTS
    Logins,         \* login attempts, each one a value of state
    Browsers,
    Persons,        \* who can sign in at the provider
    Callbacks,      \* callback requests under way at a time
    Kinds,          \* of the provider: "oidc", "oauth2", "saml", "ldap"
    NoLogin,        \* an absent cookie
    MaxProviderEdits \* bound: edits of the provider

ASSUME SsoAssumption ==
    /\ Kinds \subseteq {"oidc", "oauth2", "saml", "ldap"} /\ MaxProviderEdits \in Nat
    /\ NoLogin \notin Logins

VARIABLES
    slKind,     \* the protocol of the provider behind the slug
    slProv,     \* [on, id]: a deleted provider that is made again has another id
    slRow,      \* login -> [at, by, prov, old]: its row of auth_login_states
    slCookie,   \* browser -> the login its state cookie names
    slAnswer,   \* login -> the persons who answered it, at most one
    slSpent,    \* logins whose code was redeemed
    slCall,     \* callback -> where it is
    slLinked,   \* persons linked to an account
    slMade,     \* accounts made for a person since the provider was made
    slSession,  \* sessions handed out: [by, to, as, login, n]
    slEdits,
    slTwice     \* logins two of whose callbacks overlapped

slVars == <<slKind, slProv, slRow, slCookie, slAnswer, slSpent, slCall, slLinked, slMade,
            slSession, slEdits, slTwice>>

NoCall == [pc |-> "none"]
SsoInit ==
    /\ slKind \in Kinds
    /\ slProv = [on |-> TRUE, id |-> 0]
    /\ slRow = [l \in Logins |-> [at |-> "none", by |-> NoLogin, prov |-> 0, old |-> FALSE]]
    /\ slCookie = [b \in Browsers |-> NoLogin]
    /\ slAnswer = [l \in Logins |-> {}]
    /\ slSpent = {} /\ slLinked = {} /\ slSession = {} /\ slTwice = {}
    /\ slMade = [p \in Persons |-> 0]
    /\ slCall = [c \in Callbacks |-> NoCall]
    /\ slEdits = 0

Goes(c, pc) == slCall' = [slCall EXCEPT ![c].pc = pc] /\ UNCHANGED slCookie
Ends(c) == slCall' = [slCall EXCEPT ![c] = NoCall]
(* fail, _fail: past the binding check SAML retires the state cookie too.  *)
Fails(c) ==
    /\ Ends(c)
    /\ slCookie' = IF slKind = "saml" THEN [slCookie EXCEPT ![slCall[c].by] = NoLogin] ELSE slCookie
ProviderStays == UNCHANGED <<slKind, slProv, slEdits>>

(* oidc_login, oauth2_login, saml_login: an enabled provider; rows past    *)
(* their hour are swept, this login's is added, and its state becomes the  *)
(* browser's cookie, whatever login that named before.                     *)
SsoBegins(b, l) ==
    /\ slProv.on
    /\ slRow[l].at = "none"
    /\ slRow' = [k \in Logins |->
         IF k = l THEN [at |-> "open", by |-> b, prov |-> slProv.id, old |-> FALSE]
         ELSE IF slRow[k].at = "open" /\ slRow[k].old THEN [slRow[k] EXCEPT !.at = "used"]
         ELSE slRow[k]]
    /\ slCookie' = [slCookie EXCEPT ![b] = l]
    /\ UNCHANGED <<slAnswer, slSpent, slCall, slLinked, slMade, slSession, slTwice>>
    /\ ProviderStays

OidcLogin(b, l) == slKind = "oidc" /\ SsoBegins(b, l)
OAuth2Login(b, l) == slKind = "oauth2" /\ SsoBegins(b, l)
SamlLogin(b, l) == slKind = "saml" /\ SsoBegins(b, l)

LoginExpires(l) ==
    /\ slRow[l].at = "open" /\ ~ slRow[l].old
    /\ slRow' = [slRow EXCEPT ![l].old = TRUE]
    /\ UNCHANGED <<slCookie, slAnswer, slSpent, slCall, slLinked, slMade, slSession, slTwice>>
    /\ ProviderStays

(* External: somebody signs in at the provider for this login.             *)
ProviderAnswers(l, p) ==
    /\ slRow[l].at # "none" /\ slAnswer[l] = {}
    /\ slAnswer' = [slAnswer EXCEPT ![l] = {p}]
    /\ UNCHANGED <<slRow, slCookie, slSpent, slCall, slLinked, slMade, slSession, slTwice>>
    /\ ProviderStays

-----------------------------------------------------------------------------
CallbackArrives_AnyBrowser(c, b, l) ==
    /\ slCall[c].pc = "none" /\ slAnswer[l] # {}
    /\ slRow[l].at = "open"
    /\ slCall' = [slCall EXCEPT ![c] = [pc |-> "consume", by |-> b, login |-> l,
                                       old |-> slRow[l].old, prov |-> slRow[l].prov]]
    /\ slTwice' = IF \E d \in Callbacks : slCall[d].pc # "none" /\ slCall[d].login = l
                  THEN slTwice \cup {l} ELSE slTwice
    /\ UNCHANGED <<slRow, slCookie, slAnswer, slSpent, slLinked, slMade, slSession>>
    /\ ProviderStays

(* A callback with an answer: the browser's cookie must name the login,    *)
(* and its row must still be there.                                        *)
CallbackArrives(c, b, l) ==
    /\ slCall[c].pc = "none" /\ slAnswer[l] # {}
    /\ slCookie[b] = l
    /\ slRow[l].at = "open"
    /\ slCall' = [slCall EXCEPT ![c] = [pc |-> "consume", by |-> b, login |-> l,
                                       old |-> slRow[l].old, prov |-> slRow[l].prov]]
    /\ slTwice' = IF \E d \in Callbacks : slCall[d].pc # "none" /\ slCall[d].login = l
                  THEN slTwice \cup {l} ELSE slTwice
    /\ UNCHANGED <<slRow, slCookie, slAnswer, slSpent, slLinked, slMade, slSession>>
    /\ ProviderStays

OidcCallback(c, b, l) == slKind = "oidc" /\ CallbackArrives(c, b, l)
OAuth2Callback(c, b, l) == slKind = "oauth2" /\ CallbackArrives(c, b, l)
SamlAcs(c, b, l) == slKind = "saml" /\ CallbackArrives(c, b, l)

(* Past the cookie with its row gone, SAML retires the cookie.             *)
SamlFailClears(b, l) ==
    /\ slKind = "saml" /\ slAnswer[l] # {}
    /\ slCookie[b] = l /\ slRow[l].at = "used"
    /\ slCookie' = [slCookie EXCEPT ![b] = NoLogin]
    /\ UNCHANGED <<slRow, slAnswer, slSpent, slCall, slLinked, slMade, slSession, slTwice>>
    /\ ProviderStays

(* The row is deleted (deleting what another callback deleted first is     *)
(* only warned about); a login past its hour ends here.                    *)
ConsumeState(c) ==
    LET r == slCall[c] IN
    /\ r.pc = "consume"
    /\ slRow' = [slRow EXCEPT ![r.login].at = "used"]
    /\ IF r.old THEN Fails(c) ELSE Goes(c, "provider")
    /\ UNCHANGED <<slAnswer, slSpent, slLinked, slMade, slSession, slTwice>>
    /\ ProviderStays

(* _enabled_provider: still on, and the one the login began with.          *)
EnabledProvider(c) ==
    /\ slCall[c].pc = "provider"
    /\ IF slProv.on /\ slProv.id = slCall[c].prov THEN Goes(c, "exchange") ELSE Fails(c)
    /\ UNCHANGED <<slRow, slAnswer, slSpent, slLinked, slMade, slSession, slTwice>>
    /\ ProviderStays

(* exchange_code: the code is redeemed at the provider, which does so      *)
(* once.                                                                   *)
ExchangeCode(c) ==
    LET l == slCall[c].login IN
    /\ slCall[c].pc = "exchange"
    /\ slSpent' = slSpent \cup {l}
    /\ IF l \in slSpent THEN Fails(c) ELSE Goes(c, "resolve")
    /\ UNCHANGED <<slRow, slAnswer, slLinked, slMade, slSession, slTwice>>
    /\ ProviderStays

(* validate_id_token: signed by the provider, for this login's nonce.      *)
ValidateIdToken(c) == slKind = "oidc" /\ ExchangeCode(c)

(* fetch_identity asks the provider with the token it got for the code.    *)
FetchIdentity(c) == slKind = "oauth2" /\ ExchangeCode(c)

(* process_response: the assertion is checked here, without the provider,  *)
(* against the AuthnRequest of this login.                                 *)
ProcessResponse(c) ==
    /\ slCall[c].pc = "exchange" /\ slKind = "saml"
    /\ Goes(c, "resolve")
    /\ UNCHANGED <<slRow, slAnswer, slSpent, slLinked, slMade, slSession, slTwice>>
    /\ ProviderStays

(* _directory_login: no redirect and no state.  The enabled directory is   *)
(* read once, and the password of p offered to it in the same request.     *)
DirectoryLogin(c, b, l, p) ==
    /\ slKind = "ldap" /\ slProv.on
    /\ slCall[c].pc = "none" /\ slRow[l].at = "none"
    /\ slRow' = [slRow EXCEPT ![l] = [at |-> "used", by |-> b, prov |-> slProv.id, old |-> FALSE]]
    /\ slAnswer' = [slAnswer EXCEPT ![l] = {p}]
    /\ slCall' = [slCall EXCEPT ![c] = [pc |-> "exchange", by |-> b, login |-> l,
                                       old |-> FALSE, prov |-> slProv.id]]
    /\ UNCHANGED <<slCookie, slSpent, slLinked, slMade, slSession, slTwice>>
    /\ ProviderStays

(* authenticate: the search finds one entry and the entry's own bind works.*)
Authenticate(c) ==
    /\ slCall[c].pc = "exchange" /\ slKind = "ldap"
    /\ Goes(c, "resolve")
    /\ UNCHANGED <<slRow, slAnswer, slSpent, slLinked, slMade, slSession, slTwice>>
    /\ ProviderStays

(* The provider, or a check of its answer, fails the login.                *)
ExchangeFails(c) ==
    /\ slCall[c].pc = "exchange"
    /\ Fails(c)
    /\ UNCHANGED <<slRow, slAnswer, slSpent, slLinked, slMade, slSession, slTwice>>
    /\ ProviderStays

PersonOf(c) == CHOOSE p \in slAnswer[slCall[c].login] : TRUE

(* resolve_identity: the account linked to the subject, ...                *)
ResolveLinked(c) ==
    /\ slCall[c].pc = "resolve"
    /\ Goes(c, IF PersonOf(c) \in slLinked THEN "issue" ELSE "make")
    /\ UNCHANGED <<slRow, slAnswer, slSpent, slLinked, slMade, slSession, slTwice>>
    /\ ProviderStays

MakeAccount_NoUnique(c) ==
    LET p == PersonOf(c) IN
    /\ slCall[c].pc = "make"
    /\ IF slProv.id # slCall[c].prov THEN Fails(c) /\ UNCHANGED <<slLinked, slMade>>
       ELSE Goes(c, "issue") /\ slLinked' = slLinked \cup {p} /\ slMade' = [slMade EXCEPT ![p] = @ + 1]
    /\ UNCHANGED <<slRow, slAnswer, slSpent, slSession, slTwice>> /\ ProviderStays

(* ... or a new account with its link in one commit, which fails when the  *)
(* subject was linked meanwhile or the provider is gone.                   *)
MakeAccount(c) ==
    LET p == PersonOf(c) IN
    /\ slCall[c].pc = "make"
    /\ IF p \in slLinked \/ slProv.id # slCall[c].prov
       THEN Fails(c) /\ UNCHANGED <<slLinked, slMade>>
       ELSE Goes(c, "issue") /\ slLinked' = slLinked \cup {p} /\ slMade' = [slMade EXCEPT ![p] = @ + 1]
    /\ UNCHANGED <<slRow, slAnswer, slSpent, slSession, slTwice>> /\ ProviderStays

(* Site policy turns a new account down, or the account is disabled.       *)
IdentityRejected(c) ==
    /\ slCall[c].pc \in {"make", "issue"}
    /\ Fails(c)
    /\ UNCHANGED <<slRow, slAnswer, slSpent, slLinked, slMade, slSession, slTwice>>
    /\ ProviderStays

(* _issue_session: the refresh cookie goes to the browser of the callback, *)
(* whose state cookie is retired.                                          *)
IssueSso(c) ==
    LET r == slCall[c] IN
    /\ r.pc = "issue"
    /\ slSession' = slSession \cup {[by |-> slRow[r.login].by, to |-> r.by, as |-> PersonOf(c),
                                     login |-> r.login, n |-> Cardinality(slSession)]}
    /\ slCookie' = [slCookie EXCEPT ![r.by] = NoLogin]
    /\ Ends(c)
    /\ UNCHANGED <<slRow, slAnswer, slSpent, slLinked, slMade, slTwice>> /\ ProviderStays

-----------------------------------------------------------------------------
(* update_provider: turned off or on.                                      *)
UpdateProvider ==
    /\ slEdits < MaxProviderEdits /\ slEdits' = slEdits + 1
    /\ slProv' = [slProv EXCEPT !.on = ~ @]
    /\ UNCHANGED <<slKind, slRow, slCookie, slAnswer, slSpent, slCall, slLinked, slMade,
                   slSession, slTwice>>

(* delete_provider, and a new one made under the same slug: links and      *)
(* login states go with the old one.                                       *)
ReplaceProvider ==
    /\ slEdits < MaxProviderEdits /\ slEdits' = slEdits + 1
    /\ slProv' = [on |-> TRUE, id |-> slProv.id + 1]
    /\ slRow' = [l \in Logins |-> IF slRow[l].at = "open" THEN [slRow[l] EXCEPT !.at = "used"]
                                  ELSE slRow[l]]
    /\ slLinked' = {} /\ slMade' = [p \in Persons |-> 0]
    /\ UNCHANGED <<slKind, slCookie, slAnswer, slSpent, slCall, slSession, slTwice>>

SsoNext ==
    \/ \E l \in Logins :
         \/ \E b \in Browsers : OidcLogin(b, l) \/ OAuth2Login(b, l) \/ SamlLogin(b, l)
                               \/ SamlFailClears(b, l)
         \/ LoginExpires(l)
         \/ \E p \in Persons : ProviderAnswers(l, p)
         \/ \E b \in Browsers, c \in Callbacks :
               \/ OidcCallback(c, b, l) \/ OAuth2Callback(c, b, l) \/ SamlAcs(c, b, l)
               \/ \E p \in Persons : DirectoryLogin(c, b, l, p)
    \/ \E c \in Callbacks :
         \/ ConsumeState(c) \/ EnabledProvider(c) \/ ValidateIdToken(c) \/ FetchIdentity(c)
         \/ ProcessResponse(c) \/ Authenticate(c)
         \/ ExchangeFails(c) \/ ResolveLinked(c) \/ MakeAccount(c) \/ IdentityRejected(c)
         \/ IssueSso(c)
    \/ UpdateProvider \/ ReplaceProvider

SsoSpec == SsoInit /\ [][SsoNext]_slVars

-----------------------------------------------------------------------------
SsoTypeOK ==
    /\ slProv.on \in BOOLEAN /\ slProv.id \in 0..MaxProviderEdits
    /\ \A l \in Logins : slRow[l].at \in {"none", "open", "used"} /\ Cardinality(slAnswer[l]) <= 1
    /\ \A b \in Browsers : slCookie[b] \in Logins \cup {NoLogin}
    /\ slSpent \subseteq Logins /\ slLinked \subseteq Persons /\ slTwice \subseteq Logins
    /\ slMade \in [Persons -> Nat]

(* A session goes to the browser that began the login, as the person who   *)
(* answered it, wherever else the answer turns up.                         *)
SessionForBeginner ==
    \A s \in slSession : s.to = s.by /\ slAnswer[s.login] = {s.as}

(* A login yields one session, however often its callback arrives; of SAML *)
(* answers only when they do not overlap, for the assertion is not         *)
(* redeemed anywhere.                                                      *)
OneSessionPerLogin ==
    \A s, t \in slSession :
        s.login = t.login => s = t \/ (slKind = "saml" /\ s.login \in slTwice)

(* Two first sign-ins of one person make one account.                      *)
OneAccountPerPerson == \A p \in Persons : slMade[p] <= 1

SsoSafe == SessionForBeginner /\ OneSessionPerLogin /\ OneAccountPerPerson
=============================================================================
