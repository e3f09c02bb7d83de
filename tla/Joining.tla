------------------------------ MODULE Joining ------------------------------
(***************************************************************************)
(* Entering a competition: by an invite link, by its code, or from the     *)
(* lobby (routers/invite_links.py, utils/invite_links.py and the join      *)
(* routes of routers/competitions.py), past the rules gate and the         *)
(* registration fields (utils/rules.py, utils/registration_fields.py),     *)
(* while organisers revoke the link and the rules change: an override of   *)
(* the competition makes everyone accept anew, clearing it, marking it for *)
(* display only or editing the site-wide text does not.                    *)
(* One link and one competition.  A request works on the link and the      *)
(* competition it loaded; its reservation of a use keeps the link's row    *)
(* locked until its transaction ends.                                      *)
(***************************************************************************)
EXTENDS Naturals, FiniteSets

CONSTANTS
    People,
    JoinRequests,   \* request slots
    LinkCaps,       \* values of max_uses, 0 for none
    NoHolder,       \* the link's row is not locked
    MaxJoins,       \* bound: requests
    MaxChanges      \* bound: changes by organisers

ASSUME JoiningAssumption ==
    /\ LinkCaps \subseteq Nat /\ MaxJoins \in Nat /\ MaxChanges \in Nat
    /\ NoHolder \notin JoinRequests

VARIABLES
    jnLink,     \* [cap, uses, dead]: dead is revoked or expired
    jnHolder,   \* the request that has a use reserved
    jnMembers,  \* who has the Participant role
    jnVia,      \* whom the link let in, not a member when the request looked
    jnOver,     \* the competition's rules_override and rules_display_only
    jnSite,     \* the site's rules_text and rules_display_only
    jnSince,    \* the texts in force since the competition last got an override
    jnStaff,    \* who holds edit_competition
    jnAccepted, \* rows of rules_acceptances: [who, doc], doc the text the person was shown
    jnUnder,    \* person -> when let in: the text asked of them, the one accepted, jnSince
    jnReq,      \* request -> where it is and what it read
    jnEdit,     \* a new override under way: the rows it deletes, and the override
    jnJoins, jnChanges,
    jnShifted   \* an override was set under a request

jnVars == <<jnLink, jnHolder, jnMembers, jnVia, jnOver, jnSite, jnSince, jnStaff, jnAccepted, jnUnder, jnReq, jnEdit,
            jnJoins, jnChanges, jnShifted>>

(* Rules: which text, 0 for one that says nothing, and the display-only    *)
(* flag that goes with it.                                                 *)
Doc(text, only) == [text |-> text, only |-> only]
Blank == Doc(0, FALSE)
IdleJoin == [pc |-> "idle", who |-> NoHolder]
NoEdit == [pc |-> "none", rows |-> {}, doc |-> Blank]
Outsider == [asked |-> 0, agreed |-> 0, since |-> {}]

(* effective_rules: the override if it says anything, or the site's text.  *)
Effective(over, site) == IF over.text # 0 THEN over ELSE site
InForce(over, site) == {Effective(over, site).text} \ {0}

JoiningInit ==
    /\ \E cap \in LinkCaps : jnLink = [cap |-> cap, uses |-> 0, dead |-> FALSE]
    /\ jnHolder = NoHolder /\ jnMembers = {} /\ jnVia = {}
    /\ jnSite \in {Blank, Doc(1, FALSE)} /\ jnOver \in {Blank, Doc(2, FALSE)}
    /\ jnSince = InForce(jnOver, jnSite)
    /\ \E p \in People : jnStaff \in {{}, {p}}
    /\ jnAccepted = {} /\ jnUnder = [p \in People |-> Outsider]
    /\ jnReq = [q \in JoinRequests |-> IdleJoin]
    /\ jnEdit = NoEdit /\ jnJoins = 0 /\ jnChanges = 0
    /\ jnShifted = FALSE

JoinGoes(q, pc) == jnReq' = [jnReq EXCEPT ![q].pc = pc]
JoinEnds(q) == jnReq' = [jnReq EXCEPT ![q] = IdleJoin]
RowOf(p) == {a \in jnAccepted : a.who = p}
Ruled == UNCHANGED <<jnOver, jnSite, jnSince, jnStaff>>
Organised == Ruled /\ UNCHANGED <<jnEdit, jnChanges>>
Counted == UNCHANGED <<jnJoins, jnShifted>>
Admitted == UNCHANGED <<jnMembers, jnVia, jnUnder>>

(* is_active: not revoked or expired, uses left.                           *)
IsActive(l) == ~ l.dead /\ (l.cap = 0 \/ l.uses < l.cap)

-----------------------------------------------------------------------------
(* Whoever comes by the code or from the lobby goes on to the gates.       *)
PastRules(door) == IF door = "link" THEN "member" ELSE "gates"

(* join_via_invite_link loads the link and the competition, whose override *)
(* the request goes by from here on; the site's text is read where it is   *)
(* needed.  join_by_code loads the competition, and so does the lobby's    *)
(* join_competition, which has no acceptance with it.                      *)
JoinBegins(q, p, door, accept) ==
    /\ jnReq[q].pc = "idle" /\ jnJoins < MaxJoins
    /\ door = "link" => IsActive(jnLink)
    /\ jnReq' = [jnReq EXCEPT ![q] =
         [pc |-> IF accept THEN "accept" ELSE PastRules(door), who |-> p, door |-> door, over |-> jnOver,
          asked |-> 0, uses |-> jnLink.uses, known |-> FALSE, new |-> FALSE]]
    /\ jnJoins' = jnJoins + 1
    /\ UNCHANGED <<jnLink, jnHolder, jnAccepted, jnShifted>> /\ Organised /\ Admitted

(* accept_rules of whoever was shown the texts: a row, unless one is there.*)
Accepts(who, texts) ==
    jnAccepted' = IF RowOf(who) # {} THEN jnAccepted ELSE jnAccepted \cup [who : {who}, doc : texts]

(* accept_rules on the way in, if there are rules, for display or not.  (A *)
(* row that appears between its look and its commit makes the request      *)
(* fail.)                                                                  *)
AcceptWithJoin(q) ==
    LET r == jnReq[q] IN
    /\ r.pc = "accept"
    /\ Accepts(r.who, InForce(r.over, jnSite))
    /\ JoinGoes(q, PastRules(r.door))
    /\ UNCHANGED <<jnLink, jnHolder>> /\ Organised /\ Counted /\ Admitted

(* Whether they are a member already; a new one needs a use of a capped    *)
(* link.                                                                   *)
LookMember(q) ==
    LET r == jnReq[q]
        known == r.who \in jnMembers IN
    /\ r.pc = "member"
    /\ jnReq' = [jnReq EXCEPT ![q].known = known,
                              ![q].pc = IF ~ known /\ jnLink.cap # 0 THEN "reserve" ELSE "gates"]
    /\ UNCHANGED <<jnLink, jnHolder, jnAccepted>> /\ Organised /\ Counted /\ Admitted

Reserve_ByTheRead(q) ==
    /\ jnReq[q].pc = "reserve" /\ jnHolder = NoHolder
    /\ jnHolder' = q /\ JoinGoes(q, "gates")
    /\ UNCHANGED <<jnLink, jnAccepted>> /\ Organised /\ Counted /\ Admitted

(* UPDATE ... WHERE use_count < max_uses, in the join's own transaction.   *)
Reserve(q) ==
    /\ jnReq[q].pc = "reserve" /\ jnHolder = NoHolder
    /\ IF jnLink.uses < jnLink.cap THEN jnHolder' = q /\ JoinGoes(q, "gates")
       ELSE jnHolder' = jnHolder /\ JoinEnds(q)
    /\ UNCHANGED <<jnLink, jnAccepted>> /\ Organised /\ Counted /\ Admitted

Frees(q) == jnHolder' = IF jnHolder = q THEN NoHolder ELSE jnHolder

(* require_rules_accepted: the text that must have been accepted, if any;  *)
(* not by staff, and not one for display only.                             *)
AskedOf(r) ==
    LET doc == Effective(r.over, jnSite)
    IN  IF doc.only \/ r.who \in jnStaff THEN 0 ELSE doc.text
Passes(r) == AskedOf(r) # 0 => RowOf(r.who) # {}

(* _join: past the gate, the role is looked up.                            *)
JoinGates(q) ==
    LET r == jnReq[q] IN
    /\ r.pc = "gates"
    /\ Passes(r)
    /\ jnReq' = [jnReq EXCEPT ![q].pc = "commit", ![q].asked = AskedOf(r), ![q].new = (r.who \notin jnMembers)]
    /\ UNCHANGED <<jnLink, jnHolder, jnAccepted>> /\ Organised /\ Counted /\ Admitted

(* A gate refuses: rules, the email address, a required registration       *)
(* field.  The session closes without a commit, and the reservation with   *)
(* it.                                                                     *)
JoinRefused(q) ==
    /\ jnReq[q].pc = "gates"
    /\ Frees(q) /\ JoinEnds(q)
    /\ UNCHANGED <<jnLink, jnAccepted>> /\ Organised /\ Counted /\ Admitted

(* Role, answers and reservation in one commit; the role's uniqueness      *)
(* fails it when another request granted it first.                         *)
MembershipCommit(q) ==
    LET r == jnReq[q]
        lost == r.new /\ r.who \in jnMembers IN
    /\ r.pc = "commit"
    /\ Frees(q)
    /\ IF lost THEN JoinEnds(q) /\ UNCHANGED <<jnLink, jnMembers, jnVia, jnUnder>>
       ELSE /\ jnMembers' = jnMembers \cup {r.who}
            /\ jnVia' = IF r.new /\ ~ r.known /\ r.door = "link" THEN jnVia \cup {r.who} ELSE jnVia
            /\ jnUnder' = IF r.new
                          THEN [jnUnder EXCEPT ![r.who] =
                                  [asked |-> r.asked, since |-> jnSince,
                                   agreed |-> IF RowOf(r.who) = {} THEN 0
                                              ELSE (CHOOSE a \in RowOf(r.who) : TRUE).doc]]
                          ELSE jnUnder
            /\ jnLink' = IF jnHolder = q THEN [jnLink EXCEPT !.uses = @ + 1] ELSE jnLink
            /\ IF r.door = "link" /\ ~ r.known /\ jnLink.cap = 0 THEN JoinGoes(q, "count") ELSE JoinEnds(q)
    /\ UNCHANGED jnAccepted /\ Organised /\ Counted

(* A link without a cap counts from the number it loaded.                  *)
CountUse(q) ==
    /\ jnReq[q].pc = "count"
    /\ jnLink' = [jnLink EXCEPT !.uses = jnReq[q].uses + 1]
    /\ JoinEnds(q)
    /\ UNCHANGED <<jnHolder, jnAccepted>> /\ Organised /\ Counted /\ Admitted

(* accept_competition_rules, ahead of a join from the lobby.               *)
AcceptRules(p) ==
    /\ InForce(jnOver, jnSite) # {} /\ RowOf(p) = {}
    /\ Accepts(p, InForce(jnOver, jnSite))
    /\ UNCHANGED <<jnLink, jnHolder, jnReq>> /\ Organised /\ Counted /\ Admitted

-----------------------------------------------------------------------------
Change == jnChanges < MaxChanges /\ jnChanges' = jnChanges + 1

(* revoke_invite_link, or the link's hour passes.                          *)
RevokeInviteLink ==
    /\ Change /\ ~ jnLink.dead /\ jnHolder = NoHolder
    /\ jnLink' = [jnLink EXCEPT !.dead = TRUE]
    /\ UNCHANGED <<jnHolder, jnEdit, jnAccepted, jnReq>> /\ Ruled /\ Counted /\ Admitted

(* A text nobody has seen yet, the site's first being 1 and the            *)
(* competition's 2.                                                        *)
FreshText == jnChanges + 3

(* update_competition with another override, which may say nothing,        *)
(* deletes the acceptances there are ...                                   *)
RulesDelete ==
    /\ Change /\ jnEdit.pc = "none"
    /\ \E text \in {0, FreshText}, only \in BOOLEAN :
          jnEdit' = [pc |-> "commit", rows |-> jnAccepted, doc |-> Doc(text, only)]
    /\ UNCHANGED <<jnLink, jnHolder, jnAccepted, jnReq>> /\ Ruled /\ Counted /\ Admitted

Underway == \E q \in JoinRequests : jnReq[q].pc # "idle"

RulesCommit_Keeps ==
    /\ jnEdit.pc = "commit"
    /\ jnOver' = jnEdit.doc /\ jnSince' = InForce(jnEdit.doc, jnSite)
    /\ jnEdit' = NoEdit
    /\ jnShifted' = (jnShifted \/ Underway \/ jnAccepted # jnEdit.rows)
    /\ UNCHANGED <<jnLink, jnHolder, jnSite, jnStaff, jnAccepted, jnChanges, jnReq, jnJoins>> /\ Admitted

(* ... and commits the text with it.                                       *)
RulesCommit ==
    /\ jnEdit.pc = "commit"
    /\ jnOver' = jnEdit.doc /\ jnSince' = InForce(jnEdit.doc, jnSite)
    /\ jnEdit' = NoEdit
    /\ jnAccepted' = jnAccepted \ jnEdit.rows
    /\ jnShifted' = (jnShifted \/ Underway \/ jnAccepted # jnEdit.rows)
    /\ UNCHANGED <<jnLink, jnHolder, jnSite, jnStaff, jnChanges, jnReq, jnJoins>> /\ Admitted

(* update_competition that clears the override or flips its display-only   *)
(* flag: "back to the global rules they may have already accepted", no     *)
(* acceptance is deleted.  (A new override under way has the row locked.)  *)
OverrideAside ==
    /\ Change /\ jnEdit.pc = "none" /\ jnOver.text # 0
    /\ jnOver' \in {Blank, [jnOver EXCEPT !.only = ~ @]}
    /\ jnSince' = jnSince \cup InForce(jnOver', jnSite)
    /\ UNCHANGED <<jnLink, jnHolder, jnSite, jnStaff, jnEdit, jnAccepted, jnReq>> /\ Counted /\ Admitted

(* update_rules_settings: "Editing the global text does NOT reset          *)
(* acceptances".                                                           *)
EditSiteRules ==
    /\ Change
    /\ \E text \in {0, jnSite.text, FreshText}, only \in BOOLEAN : jnSite' = Doc(text, only)
    /\ jnSince' = jnSince \cup InForce(jnOver, jnSite')
    /\ UNCHANGED <<jnLink, jnHolder, jnOver, jnStaff, jnEdit, jnAccepted, jnReq>> /\ Counted /\ Admitted

(* The role is taken away (routers/roles.py).                              *)
MemberLeaves(p) ==
    /\ Change /\ p \in jnMembers
    /\ jnMembers' = jnMembers \ {p} /\ jnUnder' = [jnUnder EXCEPT ![p] = Outsider]
    /\ UNCHANGED <<jnLink, jnHolder, jnVia, jnEdit, jnAccepted, jnReq>>
    /\ Ruled /\ Counted

JoiningNext ==
    \/ \E q \in JoinRequests :
         \/ \E p \in People, door \in {"link", "code"}, a \in BOOLEAN :
               JoinBegins(q, p, door, a)
         \/ AcceptWithJoin(q) \/ LookMember(q) \/ Reserve(q) \/ JoinGates(q) \/ JoinRefused(q)
         \/ MembershipCommit(q) \/ CountUse(q)
    \/ \E p \in People : AcceptRules(p) \/ MemberLeaves(p)
    \/ RevokeInviteLink \/ RulesDelete \/ RulesCommit \/ OverrideAside \/ EditSiteRules

JoiningSpec == JoiningInit /\ [][JoiningNext]_jnVars

-----------------------------------------------------------------------------
JoiningTypeOK ==
    /\ jnLink \in [cap : LinkCaps, uses : 0..MaxJoins, dead : BOOLEAN]
    /\ jnHolder \in JoinRequests \cup {NoHolder}
    /\ jnMembers \subseteq People /\ jnVia \subseteq People
    /\ {jnOver, jnSite} \subseteq [text : 0..(MaxChanges + 2), only : BOOLEAN]
    /\ jnSince \subseteq 1..(MaxChanges + 2) /\ jnStaff \subseteq People
    /\ jnAccepted \subseteq [who : People, doc : 1..(MaxChanges + 2)]
    /\ jnJoins \in 0..MaxJoins /\ jnChanges \in 0..MaxChanges

(* However many present a link at once, it lets in no more people than its *)
(* cap; whoever is refused at a later gate gives their use back.           *)
CapHolds == jnLink.cap # 0 => /\ Cardinality(jnVia) <= jnLink.cap
                              /\ jnLink.uses <= jnLink.cap
                              /\ Cardinality(jnVia) <= jnLink.uses

(* Unless an override was set under a request, whoever rules were asked of *)
(* had accepted a text in force since the competition last got an override *)
(* of its own: under that override, the override itself; after it was      *)
(* cleared, it or a site-wide text since; never what it superseded.        *)
AgreedUnlessShifted ==
    ~ jnShifted => \A p \in jnMembers : jnUnder[p].asked # 0 => jnUnder[p].agreed \in jnUnder[p].since

JoiningSafe == CapHolds /\ AgreedUnlessShifted

(* max_uses counts people: unless the link has no cap, every use counted   *)
(* let somebody in who was not in.                                         *)
UsesAreAdmissions ==
    jnLink.cap # 0 /\ jnChanges = 0 => jnLink.uses = Cardinality(jnVia)
=============================================================================
