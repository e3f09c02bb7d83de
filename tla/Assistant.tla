----------------------------- MODULE Assistant -----------------------------
(***************************************************************************)
(* One account's conversations with the assistants                         *)
(* (routers/ai_conversations.py, utils/ai).  A message is gated, counted   *)
(* against the length of its thread, marked in flight in its process,      *)
(* stored, answered through a bounded loop of provider rounds and tool     *)
(* calls, and the answer is stored; every stage awaits.  The mark lives in *)
(* one process, the rows in the database.  A tool handler that raises is   *)
(* turned into an answer for the model and its session is rolled back,     *)
(* which expires the objects the rest of the turn still reads ids from.    *)
(* An answer's text is the set of the things found in it.                  *)
(***************************************************************************)
EXTENDS Naturals, FiniteSets

CONSTANTS AiRequests,     \* requests in flight
          AiProcs,        \* API processes
          Threads,        \* conversations that may be created, as numbers
          MaxExchanges,   \* MAX_EXCHANGES
          MaxToolRounds,  \* MAX_TOOL_ROUNDS
          MaxAiPosts,     \* bound: messages posted
          MaxAiSwitches,  \* bound: settings and status changes
          MaxAiFaults     \* bound: raising handlers and dying processes

ASSUME AiAssumption == {MaxExchanges, MaxToolRounds, MaxAiPosts, MaxAiSwitches, MaxAiFaults}
                          \cup Threads \subseteq Nat

VARIABLES aiSet,      \* enabled site-wide, running, competitor_enabled
          aiAccepted, \* the disclosure is accepted
          aiConv,     \* conversations
          aiFlight,   \* _in_flight of each process (has the account in it)
          aiReq,
          aiRoom,     \* what competitors' rooms were shown
          aiPosts, aiSwitches, aiFaults,
          aiRaced     \* ghost: "open": two opens at once, "count": a count was stale when used

aiVars == <<aiSet, aiAccepted, aiConv, aiFlight, aiReq, aiRoom, aiPosts, aiSwitches, aiFaults,
            aiRaced>>

Assistants == {"admin", "competitor"}
Finds == {"prose", "flag", "call"}
Texts == {{}, {"prose"}, {"flag", "call"}}
NoThread == [kind |-> "none", open |-> FALSE, asked |-> 0, audited |-> 0, text |-> {}]
IdleTurn == [pc |-> "idle", proc |-> CHOOSE w \in AiProcs : TRUE, conv |-> 0, kind |-> "none",
             used |-> 0, round |-> 0, text |-> {}, poisoned |-> FALSE]

AssistantInit ==
    /\ aiSet = [on |-> TRUE, running |-> TRUE, competitor |-> TRUE]
    /\ aiAccepted = FALSE
    /\ aiConv = [c \in Threads |-> NoThread]
    /\ aiFlight = [w \in AiProcs |-> FALSE]
    /\ aiReq = [q \in AiRequests |-> IdleTurn]
    /\ aiRoom = {} /\ aiPosts = 0 /\ aiSwitches = 0 /\ aiFaults = 0 /\ aiRaced = {}

AiGoes(q, pc) == aiReq' = [aiReq EXCEPT ![q].pc = pc]
AiEnds(q) == aiReq' = [aiReq EXCEPT ![q] = IdleTurn]
AiWorld == UNCHANGED <<aiSet, aiAccepted, aiSwitches>>
AiRest == UNCHANGED <<aiPosts, aiFaults, aiRaced>>

(* _require_ai and _require_access; the account is staff and a player.     *)
MayUse(kind) ==
    aiSet.on /\ (kind = "competitor" => aiSet.running /\ aiSet.competitor)

-----------------------------------------------------------------------------
(* Settings of the site and of the competition, and its clock.             *)
AiSwitch(k) ==
    /\ aiSwitches < MaxAiSwitches /\ aiSwitches' = aiSwitches + 1
    /\ aiSet' = [aiSet EXCEPT ![k] = ~ @]
    /\ UNCHANGED <<aiAccepted, aiConv, aiFlight, aiReq, aiRoom>> /\ AiRest

(* accept_disclosure: of two tabs one loses on the key and stays silent.   *)
AcceptDisclosure ==
    /\ ~ aiAccepted /\ MayUse("competitor") /\ aiAccepted' = TRUE
    /\ UNCHANGED <<aiSet, aiSwitches, aiConv, aiFlight, aiReq, aiRoom>> /\ AiRest

OpenThreads(kind) == {c \in Threads : aiConv[c].kind = kind /\ aiConv[c].open}

(* create_conversation: resumes the open thread, or starts one.            *)
OpenLooks(q, kind) ==
    /\ aiReq[q].pc = "idle" /\ MayUse(kind) /\ (kind = "competitor" => aiAccepted)
    /\ OpenThreads(kind) = {} /\ \E c \in Threads : aiConv[c].kind = "none"
    /\ aiReq' = [aiReq EXCEPT ![q] = [IdleTurn EXCEPT !.pc = "open", !.kind = kind]]
    /\ UNCHANGED <<aiConv, aiFlight, aiRoom>> /\ AiWorld /\ AiRest

OpenCommits(q) ==
    LET kind == aiReq[q].kind
        free == {c \in Threads : aiConv[c].kind = "none"} IN
    /\ aiReq[q].pc = "open" /\ AiEnds(q) /\ free # {}
    /\ LET c == CHOOSE c \in free : \A d \in free : c <= d IN
         aiConv' = [aiConv EXCEPT ![c] = [NoThread EXCEPT !.kind = kind, !.open = TRUE]]
    /\ aiRaced' = aiRaced \cup {x \in {"open"} : OpenThreads(kind) # {}}
    /\ UNCHANGED <<aiFlight, aiRoom, aiPosts, aiFaults>> /\ AiWorld

-----------------------------------------------------------------------------
(* post_message: gates, and the thread must be open.                       *)
PostLoads(q, w, c) ==
    /\ aiReq[q].pc = "idle" /\ aiPosts < MaxAiPosts
    /\ aiConv[c].open /\ MayUse(aiConv[c].kind)
    /\ aiReq' = [aiReq EXCEPT ![q] = [IdleTurn EXCEPT !.pc = "count", !.proc = w, !.conv = c,
                                          !.kind = aiConv[c].kind]]
    /\ aiPosts' = aiPosts + 1
    /\ UNCHANGED <<aiConv, aiFlight, aiRoom, aiFaults, aiRaced>> /\ AiWorld

(* The number of user messages; a full thread is closed.                   *)
PostCounts(q) ==
    LET c == aiReq[q].conv IN
    /\ aiReq[q].pc = "count"
    /\ IF aiConv[c].asked >= MaxExchanges
       THEN aiConv' = [aiConv EXCEPT ![c].open = FALSE] /\ AiEnds(q)
       ELSE /\ aiReq' = [aiReq EXCEPT ![q].pc = "claim", ![q].used = aiConv[c].asked]
            /\ UNCHANGED aiConv
    /\ UNCHANGED <<aiFlight, aiRoom>> /\ AiWorld /\ AiRest

PostClaims_NoMark(q) ==
    /\ aiReq[q].pc = "claim" /\ AiGoes(q, "store") /\ UNCHANGED aiFlight
    /\ UNCHANGED <<aiConv, aiRoom>> /\ AiWorld /\ AiRest

(* The in-flight mark, tested and set without an await.                    *)
PostClaims(q) ==
    LET w == aiReq[q].proc IN
    /\ aiReq[q].pc = "claim"
    /\ IF aiFlight[w] THEN AiEnds(q) /\ UNCHANGED aiFlight
       ELSE AiGoes(q, "store") /\ aiFlight' = [aiFlight EXCEPT ![w] = TRUE]
    /\ UNCHANGED <<aiConv, aiRoom>> /\ AiWorld /\ AiRest

(* The history is read, then the message committed; it stays, answered or  *)
(* not.                                                                    *)
PostStores(q) ==
    LET r == aiReq[q] IN
    /\ r.pc = "store" /\ AiGoes(q, "round")
    /\ aiConv' = [aiConv EXCEPT ![r.conv].asked = @ + 1]
    /\ aiRaced' = aiRaced \cup {x \in {"count"} : aiConv[r.conv].asked # r.used}
    /\ UNCHANGED <<aiFlight, aiRoom, aiPosts, aiFaults>> /\ AiWorld

(* _run_turn_for, and one streamed completion of it: text, and perhaps a   *)
(* tool call.                                                              *)
ProviderAnswers(q, text, calls) ==
    LET r == aiReq[q] IN
    /\ r.pc = "round"
    /\ aiReq' = [aiReq EXCEPT ![q].text = @ \cup text, ![q].round = @ + 1,
                              ![q].pc = IF calls THEN "tool" ELSE "answer"]
    /\ UNCHANGED <<aiConv, aiFlight, aiRoom>> /\ AiWorld /\ AiRest

(* After a tool call the loop goes on until the rounds are used up.        *)
NextRound(r) == IF r.round > MaxToolRounds THEN "answer" ELSE "round"

(* execute_admin_tool, execute_competitor_tool: data or a refusal.  After  *)
(* a rollback the caller's id cannot be read: the competitor's tools all   *)
(* answer with an error, the admin's call raises out of the turn.          *)
ExecuteTool(q) ==
    LET r == aiReq[q] IN
    /\ r.pc = "tool"
    /\ AiGoes(q, IF r.poisoned /\ r.kind = "admin" THEN "raise" ELSE NextRound(r))
    /\ UNCHANGED <<aiConv, aiFlight, aiRoom>> /\ AiWorld /\ AiRest

(* The handler raises: an error for the model, and a rollback.             *)
ToolRaises(q) ==
    /\ aiReq[q].pc = "tool" /\ ~ aiReq[q].poisoned /\ aiFaults < MaxAiFaults
    /\ aiReq' = [aiReq EXCEPT ![q].poisoned = TRUE, ![q].pc = NextRound(aiReq[q])]
    /\ aiFaults' = aiFaults + 1
    /\ UNCHANGED <<aiConv, aiFlight, aiRoom, aiPosts, aiRaced>> /\ AiWorld

(* _scrub_competitor_output: leaked calls go, flags are redacted, and a    *)
(* message that was nothing else becomes a placeholder.                    *)
Scrubbed(text) == IF text = {} THEN {} ELSE {"prose"}

ShownText(r) == IF r.kind = "competitor" THEN Scrubbed(r.text) ELSE r.text

(* The end of _drive_turn, the answer's row and its "done"; the length of  *)
(* the loop is told in words when it left no text.  A competitor's answer  *)
(* is shown only here, after the scan.                                     *)
AnswerCommits(q) ==
    LET r == aiReq[q] IN
    /\ r.pc = "answer" /\ AiGoes(q, "audit")
    /\ aiRoom' = aiRoom \cup (IF r.kind = "competitor" THEN ShownText(r) ELSE {})
    /\ aiConv' = [aiConv EXCEPT ![r.conv].text = @ \cup ShownText(r)]
    /\ UNCHANGED aiFlight /\ AiWorld /\ AiRest

Unmarked(q) == aiFlight' = [aiFlight EXCEPT ![aiReq[q].proc] = FALSE]

(* ai.query and the finally clause: both read ids a rollback has expired.  *)
AnswerAudits(q) ==
    LET r == aiReq[q] IN
    /\ r.pc = "audit" /\ AiEnds(q)
    /\ IF r.poisoned THEN UNCHANGED <<aiConv, aiFlight>>
       ELSE aiConv' = [aiConv EXCEPT ![r.conv].audited = @ + 1] /\ Unmarked(q)
    /\ UNCHANGED aiRoom /\ AiWorld /\ AiRest

(* AiProviderError, also when the turn passes its deadline: the client and *)
(* the audit log are told, and nothing but the question is stored.         *)
ProviderFails(q) ==
    LET r == aiReq[q] IN
    /\ r.pc \in {"round", "tool"} /\ AiEnds(q)
    /\ IF r.poisoned THEN UNCHANGED <<aiConv, aiFlight>>
       ELSE aiConv' = [aiConv EXCEPT ![r.conv].audited = @ + 1] /\ Unmarked(q)
    /\ UNCHANGED aiRoom /\ AiWorld /\ AiRest

(* Any other exception: the finally clause raises too.                     *)
TurnRaises(q) ==
    /\ aiReq[q].pc = "raise" /\ AiEnds(q)
    /\ UNCHANGED <<aiConv, aiFlight, aiRoom>> /\ AiWorld /\ AiRest

(* A process ends: its requests and its marks go with it.                  *)
AiProcessEnds(w) ==
    /\ aiFaults < MaxAiFaults /\ aiFaults' = aiFaults + 1
    /\ aiFlight' = [aiFlight EXCEPT ![w] = FALSE]
    /\ \E q \in AiRequests : aiReq[q].pc # "idle" /\ aiReq[q].proc = w
    /\ aiReq' = [q \in AiRequests |-> IF aiReq[q].proc = w THEN IdleTurn ELSE aiReq[q]]
    /\ UNCHANGED <<aiConv, aiRoom, aiPosts, aiRaced>> /\ AiWorld

AssistantNext ==
    \/ \E k \in DOMAIN aiSet : AiSwitch(k)
    \/ AcceptDisclosure
    \/ \E w \in AiProcs : AiProcessEnds(w)
    \/ \E q \in AiRequests :
         \/ \E kind \in Assistants : OpenLooks(q, kind)
         \/ OpenCommits(q)
         \/ \E w \in AiProcs, c \in Threads : PostLoads(q, w, c)
         \/ PostCounts(q) \/ PostClaims(q) \/ PostStores(q)
         \/ \E text \in Texts, calls \in BOOLEAN : ProviderAnswers(q, text, calls)
         \/ ExecuteTool(q) \/ ToolRaises(q)
         \/ AnswerCommits(q) \/ AnswerAudits(q) \/ ProviderFails(q) \/ TurnRaises(q)

AssistantSpec == AssistantInit /\ [][AssistantNext]_aiVars

-----------------------------------------------------------------------------
(* Threads, requests and marks are of the shape of the code.               *)
AssistantTypeOK ==
    /\ \A c \in Threads : /\ aiConv[c].kind \in Assistants \cup {"none"}
                          /\ aiConv[c].asked \in 0..MaxAiPosts /\ aiConv[c].text \subseteq Finds
    /\ aiFlight \in [AiProcs -> BOOLEAN]
    /\ \A q \in AiRequests : /\ aiReq[q].conv \in Threads \cup {0}
                             /\ aiReq[q].round \in 0..(MaxToolRounds + 1)
    /\ aiRoom \subseteq Finds

InTurn(q) == aiReq[q].pc \notin {"idle", "open", "count", "claim"}

(* An account has one open thread per assistant, unless two opens raced.   *)
OneThreadUnlessRaced ==
    "open" \notin aiRaced => \A kind \in Assistants : Cardinality(OpenThreads(kind)) <= 1

(* No thread grows past its cap, unless a count was stale when the message *)
(* it admitted was stored.                                                 *)
CapUnlessStale == "count" \notin aiRaced => \A c \in Threads : aiConv[c].asked <= MaxExchanges

(* One generation at a time in a process.                                  *)
OneTurnPerProcess ==
    \A q, p \in AiRequests : InTurn(q) /\ InTurn(p) /\ aiReq[q].proc = aiReq[p].proc => q = p

(* What a competitor sees, live or in the transcript, has passed the scan, *)
(* and was asked after the disclosure was accepted.                        *)
CompetitorSeesScrubbed ==
    /\ aiRoom \subseteq {"prose"}
    /\ \A c \in Threads : aiConv[c].kind = "competitor" =>
         aiConv[c].text \subseteq {"prose"} /\ aiAccepted

(* Every question ends in an audited answer or in a reported failure, and  *)
(* frees its account, unless a handler raised or the process died.         *)
SettledUnlessFaulty ==
    aiFaults = 0 =>
        /\ \A w \in AiProcs : aiFlight[w] => \E q \in AiRequests : InTurn(q) /\ aiReq[q].proc = w
        /\ (\A q \in AiRequests : ~ InTurn(q)) =>
              \A c \in Threads : aiConv[c].asked = aiConv[c].audited

AssistantSafe == /\ OneThreadUnlessRaced /\ CapUnlessStale /\ OneTurnPerProcess
                 /\ CompetitorSeesScrubbed /\ SettledUnlessFaulty

(* A tool that fails costs the turn that lookup and no more: an account is *)
(* in flight only while a turn of it is under way (violated: the rollback  *)
(* expires current_user, and the finally clause cannot read its id).       *)
FlightIsFreed ==
    \A w \in AiProcs : aiFlight[w] => \E q \in AiRequests : InTurn(q) /\ aiReq[q].proc = w
=============================================================================
