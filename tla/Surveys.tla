------------------------------ MODULE Surveys ------------------------------
(***************************************************************************)
(* One feedback survey, its questions and the responses to it, and the     *)
(* ratings of one solved challenge (routers/feedback.py, utils/feedback.py,*)
(* routers/challenge_ratings.py, models/feedback.py).  Every handler reads *)
(* its rows, decides, and commits without a lock; the ORM writes only the  *)
(* columns whose value differs from what the request read.  The database   *)
(* contributes the unique constraints and the cascading foreign keys.      *)
(***************************************************************************)
EXTENDS Naturals, FiniteSets

CONSTANTS SurveyStaff,    \* staff requests in flight
          Submits,        \* requests of competitors: a response or a rating
          VoterOf,        \* the competitor behind each of those requests
          Asks,           \* ids of questions that may ever be added
          AskTypes,       \* types staff give their questions
          MaxSurveyOps    \* bound: staff requests and ratings

ASSUME SurveyAssumption == MaxSurveyOps \in Nat /\ AskTypes \subseteq {"rating", "multiple_choice", "text"}

VARIABLES svRow,      \* the survey's row
          svAsk,      \* its questions
          svReply,    \* response rows, by the request that wrote them: its answers
          svRate,     \* rating rows, by the request that wrote them: 0 when there is none
          svStaff,    \* staff requests
          svSub,      \* competitors' requests
          svOps,      \* staff requests and ratings begun
          svOpened,   \* survey.opened events emitted
          svEdges,    \* ghost: commits that really turned the survey from closed to open
          svOverlap,  \* ghost: two staff requests were in flight together
          svTouched   \* ghost: questions changed since each competitor's request read them

svVars == <<svRow, svAsk, svReply, svRate, svStaff, svSub, svOps, svOpened, svEdges,
            svOverlap, svTouched>>

Blank == "blank"
AnswerValues == {Blank, "number", "option"}
NoAsk == [there |-> FALSE, type |-> "none", required |-> FALSE, pos |-> 0]
NoAnswers == [q \in Asks |-> Blank]
StaffIdle == [pc |-> "idle", what |-> "none", q |-> "none", open |-> FALSE, saw |-> [q \in Asks |-> NoAsk],
              body |-> NoAsk, order |-> [q \in Asks |-> 0]]
SubIdle == [pc |-> "idle", body |-> NoAnswers, saw |-> [q \in Asks |-> NoAsk], had |-> {}, rating |-> 0]

SurveyInit ==
    /\ svRow = [there |-> TRUE, open |-> FALSE]
    /\ svAsk = [q \in Asks |-> NoAsk]
    /\ svReply = [s \in Submits |-> [there |-> FALSE, answers |-> NoAnswers]]
    /\ svRate = [s \in Submits |-> 0]
    /\ svStaff = [r \in SurveyStaff |-> StaffIdle]
    /\ svSub = [s \in Submits |-> SubIdle]
    /\ svOps = 0 /\ svOpened = 0 /\ svEdges = 0 /\ svOverlap = FALSE
    /\ svTouched = [s \in Submits |-> {}]

AsksThere == {q \in Asks : svAsk[q].there}
ReplyRows == {s \in Submits : svReply[s].there}
RateRows(u) == {s \in Submits : VoterOf[s] = u /\ svRate[s] # 0}

-----------------------------------------------------------------------------
(* Staff requests: the read.                                               *)
StaffReads(r, req) ==
    /\ svStaff[r].pc = "idle" /\ svOps < MaxSurveyOps /\ svRow.there
    /\ svStaff' = [svStaff EXCEPT ![r] = [req EXCEPT !.pc = "read"]]
    /\ svOps' = svOps + 1
    /\ svOverlap' = (svOverlap \/ \E o \in SurveyStaff : svStaff[o].pc = "read")
    /\ UNCHANGED <<svRow, svAsk, svReply, svRate, svSub, svOpened, svEdges, svTouched>>

(* update_survey reads the row; body.is_open is the wanted state.          *)
UpdateSurveyReads(r, open) ==
    StaffReads(r, [StaffIdle EXCEPT !.what = IF open THEN "open" ELSE "close", !.open = svRow.open])

DeleteSurveyReads(r) == StaffReads(r, [StaffIdle EXCEPT !.what = "drop"])

(* add_question reads the highest position in use.                         *)
NextPos == IF AsksThere = {} THEN 0
           ELSE 1 + CHOOSE p \in {svAsk[q].pos : q \in AsksThere} :
                        \A q \in AsksThere : svAsk[q].pos <= p

AddQuestionReads(r, q, type, required) ==
    /\ ~svAsk[q].there /\ \A o \in SurveyStaff : svStaff[o].q # q
    /\ StaffReads(r, [StaffIdle EXCEPT !.what = "add", !.q = q,
                      !.body = [there |-> TRUE, type |-> type, required |-> required, pos |-> NextPos]])

(* reorder_questions: exactly the survey's questions, in the wanted order. *)
ReorderQuestionsReads(r, order) ==
    /\ AsksThere # {}
    /\ order \in [Asks -> 0..Cardinality(AsksThere) - 1]
    /\ \A q \in Asks : ~svAsk[q].there => order[q] = 0
    /\ \A p, q \in AsksThere : p # q => order[p] # order[q]
    /\ StaffReads(r, [StaffIdle EXCEPT !.what = "reorder", !.saw = svAsk, !.order = order])

UpdateQuestionReads(r, q, type, required) ==
    /\ svAsk[q].there
    /\ StaffReads(r, [StaffIdle EXCEPT !.what = "edit", !.q = q, !.saw = svAsk,
                      !.body = [svAsk[q] EXCEPT !.type = type, !.required = required]])

DeleteQuestionReads(r, q) ==
    svAsk[q].there /\ StaffReads(r, [StaffIdle EXCEPT !.what = "remove", !.q = q])

-----------------------------------------------------------------------------
(* Staff requests: the commit.                                             *)
StaffEnds(r) == svStaff' = [svStaff EXCEPT ![r] = StaffIdle]
Doing(r, what) == svStaff[r].pc = "read" /\ svStaff[r].what = what
Touches(qs) == svTouched' = [s \in Submits |->
                   IF svSub[s].pc = "idle" /\ ~svReply[s].there THEN {} ELSE svTouched[s] \cup qs]
RowsStay == UNCHANGED <<svRow, svAsk, svReply, svTouched>>
AnnounceStays == UNCHANGED <<svOpened, svEdges>>
OthersStay == UNCHANGED <<svRate, svSub, svOps, svOverlap>>

(* update_survey: is_open is written when it differs from what was read,   *)
(* and just_opened, from that same read, decides the event.                *)
UpdateSurveyCommits(r) ==
    LET want == svStaff[r].what = "open" IN
    /\ Doing(r, "open") \/ Doing(r, "close")
    /\ svRow.there
    /\ svRow' = IF want = svStaff[r].open THEN svRow ELSE [svRow EXCEPT !.open = want]
    /\ svOpened' = svOpened + (IF want /\ ~svStaff[r].open THEN 1 ELSE 0)
    /\ svEdges' = svEdges + (IF svRow'.open /\ ~svRow.open THEN 1 ELSE 0)
    /\ StaffEnds(r) /\ UNCHANGED <<svAsk, svReply, svTouched>> /\ OthersStay

DeleteSurveyCommits(r) ==
    /\ Doing(r, "drop")
    /\ svRow' = [there |-> FALSE, open |-> FALSE]
    /\ svAsk' = [q \in Asks |-> NoAsk]
    /\ svReply' = [s \in Submits |-> [there |-> FALSE, answers |-> NoAnswers]]
    /\ Touches(Asks)
    /\ StaffEnds(r) /\ AnnounceStays /\ OthersStay

(* add_question: the insert needs its survey.                              *)
AddQuestionCommits(r) ==
    /\ Doing(r, "add") /\ svRow.there
    /\ svAsk' = [svAsk EXCEPT ![svStaff[r].q] = svStaff[r].body]
    /\ Touches({svStaff[r].q})
    /\ StaffEnds(r) /\ UNCHANGED <<svRow, svReply>> /\ AnnounceStays /\ OthersStay

(* reorder_questions: the positions that change are written; a row that is *)
(* gone fails the whole request.                                           *)
Moved(r) == {q \in Asks : svStaff[r].saw[q].there /\ svStaff[r].saw[q].pos # svStaff[r].order[q]}

ReorderQuestionsCommits(r) ==
    /\ Doing(r, "reorder") /\ Moved(r) \subseteq AsksThere
    /\ svAsk' = [q \in Asks |-> IF q \in Moved(r) THEN [svAsk[q] EXCEPT !.pos = svStaff[r].order[q]]
                                ELSE svAsk[q]]
    /\ StaffEnds(r) /\ UNCHANGED <<svRow, svReply, svTouched>> /\ AnnounceStays /\ OthersStay

(* update_question: the type and the flag, each when it differs.           *)
UpdateQuestionCommits(r) ==
    LET q == svStaff[r].q old == svStaff[r].saw[q] new == svStaff[r].body IN
    /\ Doing(r, "edit") /\ svAsk[q].there
    /\ svAsk' = [svAsk EXCEPT ![q].type = IF new.type = old.type THEN @ ELSE new.type,
                              ![q].required = IF new.required = old.required THEN @ ELSE new.required]
    /\ Touches({q})
    /\ StaffEnds(r) /\ UNCHANGED <<svRow, svReply>> /\ AnnounceStays /\ OthersStay

(* delete_question: its answers go with it.                                *)
DeleteQuestionCommits(r) ==
    LET q == svStaff[r].q IN
    /\ Doing(r, "remove")
    /\ svAsk' = [svAsk EXCEPT ![q] = NoAsk]
    /\ svReply' = [s \in Submits |-> [svReply[s] EXCEPT !.answers[q] = Blank]]
    /\ Touches({q})
    /\ StaffEnds(r) /\ UNCHANGED svRow /\ AnnounceStays /\ OthersStay

(* The UPDATE finds no row, or the INSERT no survey: a 500 and no change.  *)
StaffFails(r) ==
    /\ svStaff[r].pc = "read"
    /\ \/ svStaff[r].what \in {"open", "close", "add"} /\ ~svRow.there
       \/ Doing(r, "reorder") /\ ~(Moved(r) \subseteq AsksThere)
       \/ Doing(r, "edit") /\ ~svAsk[svStaff[r].q].there
    /\ StaffEnds(r) /\ RowsStay /\ AnnounceStays /\ OthersStay

-----------------------------------------------------------------------------
(* _validate_answer.                                                       *)
Fits(type, v) ==
    \/ type = "text" /\ v # Blank
    \/ type = "rating" /\ v = "number"
    \/ type = "multiple_choice" /\ v = "option"

(* submit_response: open, not yet answered by this user, every required    *)
(* question answered and every answer of its question's type.              *)
ReplyReads(s, body) ==
    /\ svSub[s].pc = "idle" /\ ~svReply[s].there
    /\ svRow.there /\ svRow.open
    /\ \A o \in ReplyRows : VoterOf[o] # VoterOf[s]
    /\ \A q \in Asks \ AsksThere : body[q] = Blank    \* an answer to nothing is dropped
    /\ \A q \in AsksThere : /\ svAsk[q].required => body[q] # Blank
                            /\ body[q] # Blank => Fits(svAsk[q].type, body[q])
    /\ svSub' = [svSub EXCEPT ![s] = [SubIdle EXCEPT !.pc = "submit", !.body = body, !.saw = svAsk]]
    /\ svTouched' = [svTouched EXCEPT ![s] = {}]
    /\ UNCHANGED <<svRow, svAsk, svReply, svRate, svStaff, svOps, svOpened, svEdges, svOverlap>>

Answered(s) == [q \in Asks |-> IF svSub[s].saw[q].there THEN svSub[s].body[q] ELSE Blank]
SubEnds(s) == svSub' = [svSub EXCEPT ![s] = SubIdle]
SubStays == UNCHANGED <<svRow, svAsk, svStaff, svOps, svOpened, svEdges, svOverlap>>

Insertable_Anyway(s) ==
    /\ svRow.there
    /\ \A q \in Asks : Answered(s)[q] # Blank => svAsk[q].there

(* The response and its answers in one transaction: uq_survey_response_user*)
(* and the foreign keys of the answers.                                    *)
Insertable(s) ==
    /\ svRow.there
    /\ \A o \in ReplyRows : VoterOf[o] # VoterOf[s]
    /\ \A q \in Asks : Answered(s)[q] # Blank => svAsk[q].there

SubmitCommits(s) ==
    /\ svSub[s].pc = "submit" /\ Insertable(s)
    /\ svReply' = [svReply EXCEPT ![s] = [there |-> TRUE, answers |-> Answered(s)]]
    /\ SubEnds(s) /\ UNCHANGED <<svRate, svTouched>> /\ SubStays

SubmitFails(s) ==
    /\ svSub[s].pc = "submit" /\ ~Insertable(s)
    /\ SubEnds(s) /\ UNCHANGED <<svReply, svRate, svTouched>> /\ SubStays

(* rate_challenge by someone who solved it: update the row found, or       *)
(* insert one.                                                             *)
RateReads(s, n) ==
    /\ svSub[s].pc = "idle" /\ ~svReply[s].there /\ svOps < MaxSurveyOps
    /\ svSub' = [svSub EXCEPT ![s] = [SubIdle EXCEPT !.pc = "rate", !.had = RateRows(VoterOf[s]), !.rating = n]]
    /\ svOps' = svOps + 1
    /\ UNCHANGED <<svRow, svAsk, svReply, svRate, svStaff, svOpened, svEdges, svOverlap, svTouched>>

RateCommits(s) ==
    /\ svSub[s].pc = "rate"
    /\ IF svSub[s].had # {}
       THEN svRate' = [o \in Submits |-> IF o \in svSub[s].had THEN svSub[s].rating ELSE svRate[o]]
       ELSE /\ RateRows(VoterOf[s]) = {}
            /\ svRate' = [svRate EXCEPT ![s] = svSub[s].rating]
    /\ SubEnds(s) /\ UNCHANGED <<svReply, svTouched>> /\ SubStays

RateFails(s) ==
    /\ svSub[s].pc = "rate" /\ svSub[s].had = {} /\ RateRows(VoterOf[s]) # {}
    /\ SubEnds(s) /\ UNCHANGED <<svReply, svRate, svTouched>> /\ SubStays

-----------------------------------------------------------------------------
StaffNext(r) ==
    \/ \E b \in BOOLEAN : UpdateSurveyReads(r, b)
    \/ DeleteSurveyReads(r)
    \/ \E q \in Asks, t \in AskTypes, b \in BOOLEAN : AddQuestionReads(r, q, t, b) \/ UpdateQuestionReads(r, q, t, b)
    \/ \E order \in [Asks -> 0..Cardinality(Asks) - 1] : ReorderQuestionsReads(r, order)
    \/ \E q \in Asks : DeleteQuestionReads(r, q)
    \/ UpdateSurveyCommits(r) \/ DeleteSurveyCommits(r) \/ AddQuestionCommits(r)
    \/ ReorderQuestionsCommits(r) \/ UpdateQuestionCommits(r) \/ DeleteQuestionCommits(r)
    \/ StaffFails(r)

SurveyNext ==
    \/ \E r \in SurveyStaff : StaffNext(r)
    \/ \E s \in Submits :
        \/ \E body \in [Asks -> AnswerValues] : ReplyReads(s, body)
        \/ SubmitCommits(s) \/ SubmitFails(s)
        \/ \E n \in 1..2 : RateReads(s, n)
        \/ RateCommits(s) \/ RateFails(s)

SurveySpec == SurveyInit /\ [][SurveyNext]_svVars

-----------------------------------------------------------------------------
(* What compute_survey_results counts for one question.                    *)
CountOf(q, v) == Cardinality({s \in ReplyRows : svReply[s].answers[q] = v})

SurveyTypeOK ==
    /\ svRow \in [there : BOOLEAN, open : BOOLEAN]
    /\ svAsk \in [Asks -> [there : BOOLEAN, type : AskTypes \cup {"none"}, required : BOOLEAN, pos : Nat]]
    /\ svReply \in [Submits -> [there : BOOLEAN, answers : [Asks -> AnswerValues]]]
    /\ svRate \in [Submits -> 0..2]
    /\ svOps \in 0..MaxSurveyOps /\ svOpened \in Nat /\ svEdges \in Nat /\ svOverlap \in BOOLEAN
    /\ svTouched \in [Submits -> SUBSET Asks]
    /\ \A r \in SurveyStaff : svStaff[r].pc \in {"idle", "read"}
    /\ \A s \in Submits : svSub[s].pc \in {"idle", "submit", "rate"}

(* However many requests one competitor sends at once, the survey keeps one*)
(* response of theirs and the challenge one rating, and the counts the     *)
(* results page shows for a question never exceed the people who answered. *)
OneVoiceEach ==
    /\ \A s, t \in ReplyRows : VoterOf[s] = VoterOf[t] => s = t
    /\ \A s, t \in Submits : VoterOf[s] = VoterOf[t] /\ svRate[s] # 0 /\ svRate[t] # 0 => s = t
    /\ \A q \in Asks, v \in AnswerValues :
           CountOf(q, v) <= Cardinality({VoterOf[s] : s \in ReplyRows})

(* An answer on file belongs to a question that is still there; and unless *)
(* the question was changed after the response was checked against it, a   *)
(* required one is answered and the answer fits the question's type.       *)
RepliesFitUnlessEdited ==
    \A s \in ReplyRows : \A q \in Asks :
        LET v == svReply[s].answers[q] IN
        /\ v # Blank => svAsk[q].there
        /\ svAsk[q].there /\ q \notin svTouched[s] =>
               /\ svAsk[q].required => v # Blank
               /\ v # Blank => Fits(svAsk[q].type, v)

(* Each time the survey really opens is announced, and announced once      *)
(* unless staff requests overlapped; two questions share a position only   *)
(* after such an overlap.                                                  *)
OpenedOnceUnlessOverlapped ==
    /\ svEdges <= svOpened
    /\ ~svOverlap => svEdges = svOpened
    /\ ~svOverlap => \A p, q \in AsksThere : p # q => svAsk[p].pos # svAsk[q].pos

SurveysSafe == OneVoiceEach /\ RepliesFitUnlessEdited /\ OpenedOnceUnlessOverlapped
=============================================================================
