------------------------------- MODULE Hints -------------------------------
(***************************************************************************)
(* One hint of a challenge: authoring, publishing (by an editor, by the    *)
(* scheduler's tick, by a rule's publish_hint) and revealing at a price    *)
(* (routers/hints.py, the hint actions of utils/automation_actions.py,     *)
(* publish_scheduled_hints of utils/automation_scheduler.py).  A request   *)
(* loads the hint, decides, and commits in a later step; hint_reveals has  *)
(* no uniqueness constraint.                                               *)
(***************************************************************************)
EXTENDS Naturals, FiniteSets

CONSTANTS
    HintTeams,      \* the scoring subjects
    HintRequests,   \* request slots: a player, an editor, a rule or the tick
    Costs,          \* prices an editor may set
    MaxReveals,     \* bound: rows of hint_reveals
    MaxEdits        \* bound: edits of the hint

ASSUME HintsAssumption == Costs \subseteq Nat /\ MaxReveals \in Nat /\ MaxEdits \in Nat

VARIABLES
    hnHint,     \* [here, hidden, cost]
    hnReveals,  \* rows: [team, cost, n], n numbers them
    hnReq,      \* request -> what it loaded and is about to commit
    hnPlay,     \* the competition is running and not paused
    hnEdits,
    hnUntold,   \* the hint was shown and hint.published is still to come
    hnTogether  \* a team's reveal was decided while another of it was under way

hnVars == <<hnHint, hnReveals, hnReq, hnPlay, hnEdits, hnUntold, hnTogether>>

IdleHintReq == [pc |-> "idle"]
Paid(t) == {r \in hnReveals : r.team = t}

HintsInit ==
    /\ hnHint \in [here : {TRUE}, hidden : BOOLEAN, cost : Costs]
    /\ hnReveals = {}
    /\ hnReq = [q \in HintRequests |-> IdleHintReq]
    /\ hnPlay = TRUE
    /\ hnEdits = 0
    /\ hnUntold = FALSE
    /\ hnTogether = FALSE

NextReq(q, r) == hnReq' = [hnReq EXCEPT ![q] = r]
UnderWay(t) == \E q \in HintRequests : hnReq[q].pc = "reveal" /\ hnReq[q].team = t

RevealHint_ChargesAgain(q, t) ==
    /\ hnReq[q].pc = "idle"
    /\ hnHint.here /\ ~ hnHint.hidden /\ hnPlay
    /\ NextReq(q, [pc |-> "reveal", team |-> t, cost |-> hnHint.cost])
    /\ hnTogether' = (hnTogether \/ UnderWay(t))
    /\ UNCHANGED <<hnHint, hnReveals, hnPlay, hnEdits, hnUntold>>

(* reveal_hint: a visible hint, a playable competition, a team, and not    *)
(* revealed before; the price is the one loaded.                           *)
RevealHint(q, t) ==
    /\ hnReq[q].pc = "idle"
    /\ hnHint.here /\ ~ hnHint.hidden /\ hnPlay
    /\ Paid(t) = {}
    /\ NextReq(q, [pc |-> "reveal", team |-> t, cost |-> hnHint.cost])
    /\ hnTogether' = (hnTogether \/ UnderWay(t))
    /\ UNCHANGED <<hnHint, hnReveals, hnPlay, hnEdits, hnUntold>>

(* release_hint of a rule: the same, free, whatever the competition's      *)
(* status.                                                                 *)
ReleaseHint(q, t) ==
    /\ hnReq[q].pc = "idle"
    /\ hnHint.here /\ ~ hnHint.hidden
    /\ Paid(t) = {}
    /\ NextReq(q, [pc |-> "reveal", team |-> t, cost |-> 0])
    /\ hnTogether' = (hnTogether \/ UnderWay(t))
    /\ UNCHANGED <<hnHint, hnReveals, hnPlay, hnEdits, hnUntold>>

(* The row is inserted, unless the hint is gone (its foreign key fails).   *)
RevealCommit(q) ==
    /\ hnReq[q].pc = "reveal"
    /\ Cardinality(hnReveals) < MaxReveals
    /\ hnReveals' = IF hnHint.here
                    THEN hnReveals \cup {[team |-> hnReq[q].team, cost |-> hnReq[q].cost,
                                          n |-> Cardinality(hnReveals) + 1]}
                    ELSE hnReveals
    /\ NextReq(q, IdleHintReq)
    /\ UNCHANGED <<hnHint, hnPlay, hnEdits, hnUntold, hnTogether>>

(* publish_hint of a rule, publish_scheduled_hints of the tick: load a     *)
(* hidden hint ...                                                         *)
PublishRead(q) ==
    /\ hnReq[q].pc = "idle"
    /\ hnHint.here /\ hnHint.hidden
    /\ NextReq(q, [pc |-> "publish"])
    /\ UNCHANGED <<hnHint, hnReveals, hnPlay, hnEdits, hnUntold, hnTogether>>

(* ... show it and tell.                                                   *)
PublishCommit(q) ==
    /\ hnReq[q].pc = "publish"
    /\ hnHint' = [hnHint EXCEPT !.hidden = hnHint.hidden /\ ~ hnHint.here]
    /\ hnUntold' = (hnUntold \/ (hnHint.here /\ hnHint.hidden))
    /\ NextReq(q, IF hnHint.here THEN [pc |-> "tell"] ELSE IdleHintReq)
    /\ UNCHANGED <<hnReveals, hnPlay, hnEdits, hnTogether>>

(* update_hint: load, ... *)
UpdateRead(q, hide, cost) ==
    /\ hnReq[q].pc = "idle" /\ hnHint.here /\ hnEdits < MaxEdits
    /\ hnEdits' = hnEdits + 1
    /\ NextReq(q, [pc |-> "update", was |-> hnHint.hidden, price |-> hnHint.cost,
                       hide |-> hide, cost |-> cost])
    /\ UNCHANGED <<hnHint, hnReveals, hnPlay, hnUntold, hnTogether>>

(* ... write the columns that differ from what was loaded, ... *)
UpdateCommit(q) ==
    LET r == hnReq[q] IN
    /\ r.pc = "update"
    /\ hnHint' = IF ~ hnHint.here THEN hnHint
                 ELSE [hnHint EXCEPT !.hidden = IF r.hide = r.was THEN @ ELSE r.hide,
                                     !.cost = IF r.cost = r.price THEN @ ELSE r.cost]
    /\ hnUntold' = (hnUntold \/ (hnHint.here /\ hnHint.hidden /\ r.was /\ ~ r.hide))
    /\ NextReq(q, IF hnHint.here THEN [pc |-> "refresh", was |-> r.was] ELSE IdleHintReq)
    /\ UNCHANGED <<hnReveals, hnPlay, hnEdits, hnTogether>>

UpdateRefresh_IfShown(q) ==
    /\ hnReq[q].pc = "refresh"
    /\ NextReq(q, IF hnReq[q].was /\ hnHint.hidden THEN [pc |-> "tell"] ELSE IdleHintReq)
    /\ UNCHANGED <<hnHint, hnReveals, hnPlay, hnEdits, hnUntold, hnTogether>>

(* ... read it again, and tell if it was hidden and now is not.            *)
UpdateRefresh(q) ==
    /\ hnReq[q].pc = "refresh"
    /\ NextReq(q, IF hnHint.here /\ hnReq[q].was /\ ~ hnHint.hidden
                      THEN [pc |-> "tell"] ELSE IdleHintReq)
    /\ UNCHANGED <<hnHint, hnReveals, hnPlay, hnEdits, hnUntold, hnTogether>>

(* hint.published goes out. *)
Tell(q) ==
    /\ hnReq[q].pc = "tell"
    /\ hnUntold' = FALSE
    /\ NextReq(q, IdleHintReq)
    /\ UNCHANGED <<hnHint, hnReveals, hnPlay, hnEdits, hnTogether>>

DeleteHint_KeepsReveals ==
    /\ hnHint.here /\ hnEdits < MaxEdits
    /\ hnEdits' = hnEdits + 1
    /\ hnHint' = [hnHint EXCEPT !.here = FALSE]
    /\ hnUntold' = FALSE
    /\ UNCHANGED <<hnReveals, hnReq, hnPlay, hnTogether>>

(* delete_hint: its reveals go with it, and their cost comes back.         *)
DeleteHint ==
    /\ hnHint.here /\ hnEdits < MaxEdits
    /\ hnEdits' = hnEdits + 1
    /\ hnHint' = [hnHint EXCEPT !.here = FALSE]
    /\ hnReveals' = {}
    /\ hnUntold' = FALSE
    /\ UNCHANGED <<hnReq, hnPlay, hnTogether>>

PauseOrEnd ==
    /\ hnPlay /\ hnPlay' = FALSE
    /\ UNCHANGED <<hnHint, hnReveals, hnReq, hnEdits, hnUntold, hnTogether>>

HintsNext ==
    \/ \E q \in HintRequests :
         \/ \E t \in HintTeams : RevealHint(q, t) \/ ReleaseHint(q, t)
         \/ RevealCommit(q) \/ PublishRead(q) \/ PublishCommit(q)
         \/ \E h \in BOOLEAN, c \in Costs : UpdateRead(q, h, c)
         \/ UpdateCommit(q) \/ UpdateRefresh(q) \/ Tell(q)
    \/ DeleteHint
    \/ PauseOrEnd

HintsSpec == HintsInit /\ [][HintsNext]_hnVars

-----------------------------------------------------------------------------
HintsTypeOK ==
    /\ hnHint \in [here : BOOLEAN, hidden : BOOLEAN, cost : Costs]
    /\ hnReveals \subseteq [team : HintTeams, cost : Costs \cup {0}, n : 1 .. MaxReveals]
    /\ ~ hnHint.here => hnReveals = {}
    /\ \A q \in HintRequests :
         hnReq[q].pc \in {"idle", "reveal", "publish", "update", "refresh", "tell"}

(* A team pays for the hint once however often its members ask, unless two *)
(* of its requests were decided together.                                  *)
ChargedOnceUnlessTogether ==
    ~ hnTogether => \A t \in HintTeams : Cardinality(Paid(t)) <= 1

(* A hint that became visible is announced: once no request is under way,  *)
(* whoever showed it, and however the writers overlapped, hint.published   *)
(* has gone out since.                                                     *)
ShownIsAnnounced ==
    (\A q \in HintRequests : hnReq[q].pc \in {"idle", "reveal"})
        /\ hnHint.here /\ ~ hnHint.hidden => ~ hnUntold

(* "the cost is charged once per subject, never per click" (models/hint.py).*)
ChargedOnce == \A t \in HintTeams : Cardinality(Paid(t)) <= 1
=============================================================================
