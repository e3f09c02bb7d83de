----------------------------- MODULE MCCommunity -----------------------------
(***************************************************************************)
(* What the participants see and share: the live scoreboard and its pings, *)
(* hints, teams, joining, announcements, tickets and certificates.  They   *)
(* share no state; the scene says which of them a behaviour is about.      *)
(***************************************************************************)
EXTENDS LiveBoard, Hints, Teams, Joining, Notices, Certificates, TLC

CONSTANT Scenes

VARIABLE scene

communityVars == <<scene, bdVars, coVars, hnVars, tmVars, jnVars, anVars, tkVars, ctVars>>

(* A component off the scene has one of its initial states, whichever.     *)
CommunityInit ==
  /\ scene \in Scenes
  /\ LiveBoardInit /\ CoalescerInit /\ HintsInit /\ TeamsInit /\ JoiningInit
  /\ AnnInit /\ TicketInit /\ CertificatesInit
  /\ scene # "pings" => coAudience
  /\ scene # "hints" => hnHint.hidden /\ hnHint.cost = 1
  /\ scene # "joining" => jnLink.cap = 0 /\ jnSite = Blank /\ jnOver = Blank /\ jnStaff = {}
  /\ jnSite = Blank => jnOver = Blank
  /\ scene # "tickets" => tkRow.question

CommunityNext ==
  /\ UNCHANGED scene
  /\ \/ /\ scene = "board" /\ LiveBoardNext
        /\ UNCHANGED <<coVars, hnVars, tmVars, jnVars, anVars, tkVars, ctVars>>
     \/ /\ scene = "pings" /\ CoalescerNext
        /\ UNCHANGED <<bdVars, hnVars, tmVars, jnVars, anVars, tkVars, ctVars>>
     \/ /\ scene = "hints" /\ HintsNext
        /\ UNCHANGED <<bdVars, coVars, tmVars, jnVars, anVars, tkVars, ctVars>>
     \/ /\ scene = "teams" /\ TeamsNext
        /\ UNCHANGED <<bdVars, coVars, hnVars, jnVars, anVars, tkVars, ctVars>>
     \/ /\ scene = "joining" /\ JoiningNext
        /\ UNCHANGED <<bdVars, coVars, hnVars, tmVars, anVars, tkVars, ctVars>>
     \/ /\ scene = "announcements" /\ AnnNext
        /\ UNCHANGED <<bdVars, coVars, hnVars, tmVars, jnVars, tkVars, ctVars>>
     \/ /\ scene = "tickets" /\ TicketNext
        /\ UNCHANGED <<bdVars, coVars, hnVars, tmVars, jnVars, anVars, ctVars>>
     \/ /\ scene = "certificates" /\ CertificatesNext
        /\ UNCHANGED <<bdVars, coVars, hnVars, tmVars, jnVars, anVars, tkVars>>

CommunitySpec == CommunityInit /\ [][CommunityNext]_communityVars

(* Two requests, teams, subjects or editors can change places, and so can  *)
(* players and their requests.                                             *)
CommunitySymmetry == Permutations(Subjects) \cup Permutations(Players)

(* A solve, and a hint that costs half of it.                              *)
ScoringMoves == {[kind |-> "solve", pts |-> 2], [kind |-> "hint", pts |-> 1]}

(* The scoreboard people watch: a cached board is current, a frozen room   *)
(* learns nothing, the room shows the current board when all is quiet, and *)
(* the last ping of a burst gets through.                                  *)
BoardSafe ==
  /\ scene = "board" => /\ LiveBoardTypeOK /\ CacheCurrentUnlessRaced
                        /\ FrozenRoomIsSilent /\ RoomConvergesUnlessOvertaken
  /\ scene = "pings" => CoalescerTypeOK /\ LastValueReaches

(* Seats, captains, invite links, consents and hints: no cap is passed,    *)
(* nobody leads or is charged other than as the code promises, and a new   *)
(* override of the rules is asked of everyone it should be, where requests *)
(* do not fall together.                                                   *)
MembershipSafe ==
  /\ scene = "teams" => TeamsTypeOK /\ SeatsHold /\ LedUnlessStale
  /\ scene = "joining" => JoiningTypeOK /\ JoiningSafe
  /\ scene = "hints" => HintsTypeOK /\ ChargedOnceUnlessTogether /\ ShownIsAnnounced

(* Announcements reach everyone once and leave no trace when withdrawn; a  *)
(* ticket's status, its screenshots and its bells agree.                   *)
NoticesSafe ==
  /\ scene = "announcements" => AnnTypeOK /\ AnnouncementsSafe
  /\ scene = "tickets" => TicketTypeOK /\ TicketsSafe
=============================================================================
