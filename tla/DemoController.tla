--------------------------- MODULE DemoController ---------------------------
(***************************************************************************)
(* The browser page of the Demo: the controller that holds the page state, *)
(* the asynchronous functions that run in it (called flows here), the      *)
(* buttons a viewer can reach, and the server as the page meets it.        *)
(*                                                                         *)
(* JavaScript runs one piece of a flow at a time, from the arrival of an   *)
(* answer to the next await.  A request is sent at the end of a piece, is  *)
(* handled by the server later, and its answer arrives later still, in any *)
(* order with the answers of other flows.                                  *)
(*                                                                         *)
(* The controller's two counters are only ever compared for equality, so   *)
(* they are kept as what the comparison would say: "live" is that a flow's *)
(* epoch is still the current one, "fresh" that its generation is.         *)
(***************************************************************************)
EXTENDS Integers, Sequences

CONSTANTS
    MaxSessions,  \* bound: sessions the server ever creates
    MaxFlows,     \* bound: flows under way at a time
    MaxSaved,     \* bound: commands saved for one session
    Plan          \* the steps of a scenario: their commands, and whether they pause

ASSUME ControllerAssumption ==
    /\ MaxSessions \in Nat \ {0}
    /\ MaxFlows \in Nat \ {0}
    /\ MaxSaved \in Nat
    /\ Plan \in Seq([commands : Nat \ {0}, pause : BOOLEAN])
    /\ Plan # <<>>

VARIABLES
    page,     \* DemoState: what the page shows and which buttons it offers
    flows,    \* the asynchronous functions under way
    gate,     \* the flow that waits for the viewer, or 0
    cookie,   \* the session of the browser's cookie, or 0
    created,  \* sessions the server has created so far
    alive,    \* the sessions it still accepts
    saved     \* commands saved for each session

pageVars == <<page, gate, cookie>>
serverVars == <<created, alive, saved>>
vars == <<pageVars, flows, serverVars>>

Session == 1..MaxSessions
Flow == 1..MaxFlows

\* A read of a session's data: the session and how many commands it had saved.
Nothing == [of |-> 0, at |-> 0]
Reads == [of : 0..MaxSessions, at : 0..MaxSaved]

EmptyPage ==
    [session |-> 0, shown |-> Nothing, playback |-> "none", dialog |-> "none",
     clearing |-> FALSE, manual |-> "closed"]

Ended ==
    [kind |-> "none", pc |-> "end", live |-> FALSE, fresh |-> FALSE, sent |-> 0,
     answer |-> "none", got |-> Nothing, step |-> 0, left |-> 0, stepwise |-> FALSE,
     failed |-> FALSE, wrote |-> Nothing]

\* DemoState, with PlaybackState and ManualState
PageRecord ==
    [session : 0..MaxSessions, shown : Reads,
     playback : {"none", "running", "waiting", "paused", "over"},
     dialog : {"none", "notice", "pause", "run", "clear"},
     clearing : BOOLEAN, manual : {"closed", "open", "busy"}]

FlowRecord ==
    [kind : {"none", "load", "play", "manual", "clear"},
     pc : {"end", "current", "session", "workflow", "refresh", "command", "summary",
           "reset", "gate", "sleep"},
     live : BOOLEAN, fresh : BOOLEAN, sent : 0..MaxSessions,
     answer : {"none", "sent", "foreign", "ok", "lost"},
     got : Reads, step : 0..Len(Plan), left : Nat, stepwise : BOOLEAN,
     failed : BOOLEAN, wrote : Reads]

Active == page.playback \in {"running", "waiting", "paused"}

-----------------------------------------------------------------------------
(* What a piece of a flow does to the flows. *)

\* Flow f, in the state r, sends its next request with the cookie c.  A refresh
\* takes the next generation, which makes every earlier refresh stale.
Send(fl, f, r, pc, c) ==
    [g \in Flow |->
        IF g = f
        THEN [r EXCEPT !.pc = pc, !.sent = c, !.got = Nothing, !.fresh = pc = "refresh",
                       !.answer = IF pc = "command" /\ r.pc = "command" /\ r.sent # c
                                  THEN "foreign" ELSE "sent"]
        ELSE [fl[g] EXCEPT !.fresh = @ /\ pc # "refresh"]]

\* The commands of a step after its first name rows that the session of the
\* first one owns, so another session's cookie makes them "foreign".
BeginStep(fl, f, k, c) ==
    Send(fl, f, [fl[f] EXCEPT !.step = k, !.left = Plan[k].commands, !.wrote = Nothing, !.pc = "between"],
         "command", c)

NextStep(fl, f, c) ==
    IF fl[f].step < Len(Plan) THEN BeginStep(fl, f, fl[f].step + 1, c)
    ELSE Send(fl, f, fl[f], "summary", c)

Finish(fl, f) == [fl EXCEPT ![f] = Ended]

\* The flow waits without a request: for the viewer, or for the delay.
Rest(fl, f, pc) ==
    [fl EXCEPT ![f] = [fl[f] EXCEPT !.pc = pc, !.sent = 0, !.answer = "none", !.got = Nothing]]

\* An outdated flow: only its request, and the commands of its step that still
\* follow, can have an effect.
Stale(r) ==
    IF r.kind = "none" THEN r
    ELSE [Ended EXCEPT !.kind = r.kind, !.pc = r.pc, !.sent = r.sent, !.answer = r.answer,
                       !.got = r.got, !.left = r.left, !.fresh = r.fresh]

\* A new epoch.
Outdated(fl) == [g \in Flow |-> Stale(fl[g])]

\* Mutant: a reset or a lost session leaves the generation as it is.
AbandonedKeepsReads(fl) == [g \in Flow |-> IF g = gate THEN Ended ELSE Stale(fl[g])]

\* abandon(): a new epoch and generation, and the waiting flow is let go: it
\* finds itself outdated and returns.
Abandoned(fl) ==
    [g \in Flow |-> IF g = gate THEN Ended ELSE [Stale(fl[g]) EXCEPT !.fresh = FALSE]]

\* The slot of a flow about to start.
Free(f) ==
    /\ flows[f].kind = "none"
    /\ \A g \in 1..(f - 1) : flows[g].kind # "none"

-----------------------------------------------------------------------------
(* The viewer.  A dialog is modal: while one is open only its own buttons,  *)
(* its mask and Escape can be reached.  A "notice" is a summary or an      *)
(* error; playback is "over" when it is done or has failed.                 *)

Uncovered == page.dialog = "none"

\* Mutant: a play leaves the manual panel as it is.
StartPlayOverManual(f, stepwise) ==
    /\ Uncovered
    /\ ~Active /\ ~page.clearing
    /\ Free(f)
    /\ page' = [page EXCEPT !.dialog = "none", !.playback = "running"]
    /\ flows' = Send(Outdated(flows), f,
                     [Ended EXCEPT !.kind = "play", !.live = TRUE, !.stepwise = stepwise],
                     IF page.session = 0 THEN "session" ELSE "workflow", cookie)
    /\ UNCHANGED <<gate, cookie, serverVars>>

\* start, then play: the scenario cards, the button of the page's head, which
\* a manual command under way does not disable, and the action of an explanation.
StartPlay(f, stepwise) ==
    /\ Uncovered
    /\ ~Active /\ ~page.clearing
    /\ Free(f)
    /\ page' = [page EXCEPT !.manual = "closed", !.dialog = "none", !.playback = "running"]
    /\ flows' = Send(Outdated(flows), f,
                     [Ended EXCEPT !.kind = "play", !.live = TRUE, !.stepwise = stepwise],
                     IF page.session = 0 THEN "session" ELSE "workflow", cookie)
    /\ UNCHANGED <<gate, cookie, serverVars>>

OpenManual ==
    /\ Uncovered /\ page.manual = "closed"
    /\ ~Active /\ ~page.clearing
    /\ page' = [page EXCEPT !.playback = "none", !.manual = "open"]
    /\ UNCHANGED <<gate, cookie, flows, serverVars>>

CloseManual ==
    /\ Uncovered /\ page.manual = "open"
    /\ ~Active /\ ~page.clearing
    /\ page' = [page EXCEPT !.manual = "closed"]
    /\ UNCHANGED <<gate, cookie, flows, serverVars>>

\* manualAct with n commands: one from a button of the panel, one or two from
\* the outcomes of the dialog about a run.
ManualCommand(f, n) ==
    /\ \/ Uncovered /\ ~page.clearing /\ n = 1
       \/ page.dialog = "run" /\ n \in {1, 2}
    /\ page.manual = "open"
    /\ Free(f)
    /\ page' = [page EXCEPT !.dialog = "none", !.manual = "busy"]
    /\ flows' = Send(flows, f, [Ended EXCEPT !.kind = "manual", !.live = TRUE, !.left = n],
                     IF page.session = 0 THEN "session" ELSE "workflow", cookie)
    /\ UNCHANGED <<gate, cookie, serverVars>>

AskToRun ==
    /\ Uncovered /\ page.manual = "open" /\ ~page.clearing
    /\ page' = [page EXCEPT !.dialog = "run"]
    /\ UNCHANGED <<gate, cookie, flows, serverVars>>

\* The dialog of a pause is locked; every other one can be dismissed, the one
\* that confirms the clearing also while the clearing is under way.
Dismiss ==
    /\ page.dialog \notin {"none", "pause"}
    /\ page' = [page EXCEPT !.dialog = "none"]
    /\ UNCHANGED <<gate, cookie, flows, serverVars>>

AskToClear ==
    /\ Uncovered /\ page.session # 0 /\ ~page.clearing /\ page.manual # "busy"
    /\ page.playback \notin {"running", "paused"}
    /\ page' = [page EXCEPT !.dialog = "clear"]
    /\ UNCHANGED <<gate, cookie, flows, serverVars>>

Clear(f) ==
    /\ page.dialog = "clear" /\ ~page.clearing
    /\ Free(f)
    /\ page' = [page EXCEPT !.clearing = TRUE]
    /\ flows' = Send(flows, f, [Ended EXCEPT !.kind = "clear"], "reset", cookie)
    /\ UNCHANGED <<gate, cookie, serverVars>>

\* The next step of a stepwise play, or the button of a pause.
Proceed ==
    /\ gate # 0
    /\ \/ Uncovered /\ page.playback = "waiting" /\ page.manual = "closed"
       \/ page.dialog = "pause"
    /\ page' = [page EXCEPT !.playback = "running",
                            !.dialog = IF page.playback = "paused" THEN "none" ELSE @]
    /\ gate' = 0
    /\ flows' = NextStep(flows, gate, cookie)
    /\ UNCHANGED <<cookie, serverVars>>

Stop ==
    /\ Uncovered /\ page.playback = "waiting"
    /\ page' = [page EXCEPT !.playback = "none"]
    /\ flows' = Abandoned(flows)
    /\ gate' = 0
    /\ UNCHANGED <<cookie, serverVars>>

Viewer ==
    \/ OpenManual \/ CloseManual \/ AskToRun \/ Dismiss \/ AskToClear
    \/ Proceed \/ Stop
    \/ \E f \in Flow :
        \/ \E stepwise \in BOOLEAN : StartPlay(f, stepwise)
        \/ \E n \in {1, 2} : ManualCommand(f, n)
        \/ Clear(f)

-----------------------------------------------------------------------------
(* The server carries out a request that is in flight.  A refusal changes   *)
(* nothing there, and a session that is gone stays gone: those two answers  *)
(* are decided when they arrive.                                            *)

InFlight(f) == flows[f].answer \in {"sent", "foreign"}
Requested(f, pcs) == InFlight(f) /\ flows[f].pc \in pcs

Answer(f, answer, got) ==
    flows' = [flows EXCEPT ![f] = [flows[f] EXCEPT !.answer = answer, !.got = got]]

\* POST /demo/sessions without a cookie.  The answer may be lost.
CreateSession(f) ==
    /\ Requested(f, {"session"}) /\ flows[f].sent = 0
    /\ created < MaxSessions
    /\ created' = created + 1
    /\ alive' = alive \cup {created'}
    /\ \/ Answer(f, "ok", [of |-> created', at |-> 0])
       \/ Answer(f, "lost", Nothing)
    /\ UNCHANGED <<saved, pageVars>>

\* Every other request needs a session that is alive.
Read(f) ==
    /\ Requested(f, {"current", "session", "workflow", "refresh", "summary"})
    /\ flows[f].sent \in alive
    /\ Answer(f, "ok",
              CASE flows[f].pc = "refresh" -> [of |-> flows[f].sent, at |-> saved[flows[f].sent]]
                [] flows[f].pc \in {"current", "session"} -> [of |-> flows[f].sent, at |-> 0]
                [] OTHER -> Nothing)
    /\ UNCHANGED <<serverVars, pageVars>>

\* A command saves something, or finds it saved already and succeeds.
Save(f) ==
    LET s == flows[f].sent IN
    /\ Requested(f, {"command"}) /\ flows[f].answer = "sent"
    /\ s \in alive
    /\ saved' \in {saved, [saved EXCEPT ![s] = @ + 1]} /\ saved'[s] <= MaxSaved
    /\ \/ Answer(f, "ok", [of |-> s, at |-> saved'[s]])
       \/ Answer(f, "lost", Nothing)
    /\ UNCHANGED <<created, alive, pageVars>>

Reset(f) ==
    /\ Requested(f, {"reset"}) /\ flows[f].sent \in alive
    /\ alive' = alive \ {flows[f].sent}
    /\ saved' = [saved EXCEPT ![flows[f].sent] = 0]
    /\ \E answer \in {"ok", "lost"} : Answer(f, answer, Nothing)
    /\ UNCHANGED <<created, pageVars>>

Handle(f) ==
    CreateSession(f) \/ Read(f) \/ Save(f) \/ Reset(f)

\* A session lasts four hours; its data are not served after that.
Expire ==
    /\ \E s \in alive :
        /\ alive' = alive \ {s}
        /\ saved' = [saved EXCEPT ![s] = 0]
    /\ UNCHANGED <<created, flows, pageVars>>

-----------------------------------------------------------------------------
(* An answer arrives, and its flow runs until it awaits again. *)

Arrived(f, answer, pc) == flows[f].answer = answer /\ flows[f].pc = pc

\* sessionEnded: a 401 takes the cookie away, whoever asked, and the page starts
\* over.  The flow that asked is outdated now, and returns.
SessionEnded(f) ==
    /\ InFlight(f) /\ flows[f].sent \notin alive
    /\ ~(flows[f].pc = "session" /\ flows[f].sent = 0)
    /\ page' = [EmptyPage EXCEPT !.dialog = IF page.session = 0 THEN "none" ELSE "notice"]
    /\ flows' = Finish(Abandoned(flows), f)
    /\ gate' = 0
    /\ cookie' = 0
    /\ UNCHANGED serverVars

\* load, after GET /demo/sessions/current.
CurrentRead(f) ==
    /\ Arrived(f, "ok", "current")
    /\ IF flows[f].live
       THEN /\ page' = [page EXCEPT !.session = flows[f].got.of]
            /\ flows' = Send(flows, f, flows[f], "refresh", cookie)
       ELSE UNCHANGED page /\ flows' = Finish(flows, f)
    /\ UNCHANGED <<gate, cookie, serverVars>>

\* ensureSession, after POST /demo/sessions: the page takes the session whether
\* or not the flow is outdated.
SessionOpened(f) ==
    /\ Arrived(f, "ok", "session")
    /\ page' = [page EXCEPT !.session = flows[f].got.of]
    /\ cookie' = IF flows[f].sent = 0 THEN flows[f].got.of ELSE cookie
    /\ flows' = Send(flows, f, flows[f], "workflow", cookie')
    /\ UNCHANGED <<gate, serverVars>>

WorkflowRead(f) ==
    LET r == flows[f] IN
    /\ Arrived(f, "ok", "workflow")
    /\ flows' = IF r.kind = "load" \/ ~r.live THEN Finish(flows, f)
                ELSE IF r.kind = "play" THEN Send(flows, f, r, "refresh", cookie)
                ELSE Send(flows, f, r, "command", cookie)
    /\ UNCHANGED <<pageVars, serverVars>>

\* Mutant: a read is shown whatever was read since.
ShownAlways(f) == flows[f].got

\* The page's data are replaced by a whole read that is the newest one.
Shown(f) == IF flows[f].fresh THEN flows[f].got ELSE page.shown

\* Between two steps of a play: it pauses, waits for the viewer, waits for the
\* delay, or goes on.
BetweenSteps(f, shown) ==
    LET r == flows[f] IN
    IF r.step > 0 /\ Plan[r.step].pause
    THEN /\ page' = [page EXCEPT !.shown = shown, !.dialog = "pause", !.playback = "paused"]
         /\ gate' = f
         /\ flows' = Rest(flows, f, "gate")
    ELSE IF r.step = 0 \/ r.step = Len(Plan)
    THEN /\ page' = [page EXCEPT !.shown = shown]
         /\ flows' = NextStep(flows, f, cookie)
         /\ UNCHANGED gate
    ELSE /\ page' = [page EXCEPT !.shown = shown,
                                 !.playback = IF r.stepwise THEN "waiting" ELSE @]
         /\ gate' = IF r.stepwise THEN f ELSE gate
         /\ flows' = Rest(flows, f, IF r.stepwise THEN "gate" ELSE "sleep")

RefreshRead(f) ==
    LET r == flows[f] IN
    /\ Arrived(f, "ok", "refresh")
    /\ IF r.kind = "play" /\ r.live /\ ~r.failed
       THEN BetweenSteps(f, Shown(f))
       ELSE /\ page' = [page EXCEPT !.shown = Shown(f),
                                    !.manual = IF r.kind = "manual" /\ r.live THEN "open" ELSE @]
            /\ flows' = IF r.kind = "load" /\ r.live THEN Send(flows, f, r, "workflow", cookie)
                        ELSE Finish(flows, f)
            /\ UNCHANGED gate
    /\ UNCHANGED <<cookie, serverVars>>

DelayOver(f) ==
    /\ flows[f].pc = "sleep"
    /\ flows' = IF flows[f].live THEN NextStep(flows, f, cookie) ELSE Finish(flows, f)
    /\ UNCHANGED <<pageVars, serverVars>>

\* Mutant: an outdated play or manual command still reads the data.
CommandSavedOutdated(f) ==
    LET r == [flows[f] EXCEPT !.left = @ - 1, !.wrote = IF flows[f].kind = "play" THEN flows[f].got ELSE Nothing] IN
    /\ Arrived(f, "ok", "command")
    /\ flows' = IF r.left > 0 THEN Send(flows, f, r, "command", cookie)
                ELSE Send(flows, f, r, "refresh", cookie)
    /\ UNCHANGED <<pageVars, serverVars>>

\* The rest of a step's commands follow without a look at the epoch.
CommandSaved(f) ==
    LET r == [flows[f] EXCEPT !.left = @ - 1, !.wrote = IF flows[f].kind = "play" THEN flows[f].got ELSE Nothing] IN
    /\ Arrived(f, "ok", "command")
    /\ flows' = IF r.left > 0 THEN Send(flows, f, r, "command", cookie)
                ELSE IF r.live THEN Send(flows, f, r, "refresh", cookie)
                ELSE Finish(flows, f)
    /\ UNCHANGED <<pageVars, serverVars>>

SummaryRead(f) ==
    /\ Arrived(f, "ok", "summary")
    /\ page' = IF flows[f].live THEN [page EXCEPT !.playback = "over", !.dialog = "notice"] ELSE page
    /\ flows' = Finish(flows, f)
    /\ UNCHANGED <<gate, cookie, serverVars>>

\* clear, after 204: no look at the epoch.
Cleared(f) ==
    /\ Arrived(f, "ok", "reset")
    /\ page' = [EmptyPage EXCEPT !.manual = IF page.manual = "closed" THEN "closed" ELSE "open"]
    /\ flows' = Finish(Abandoned(flows), f)
    /\ gate' = 0
    /\ cookie' = 0
    /\ UNCHANGED serverVars

\* Mutant: an error of the read that follows an error is treated like any other.
FailAgain(f) ==
    LET r == flows[f] IN
    IF r.live /\ r.kind \in {"play", "manual"}
    THEN /\ page' = [page EXCEPT !.dialog = "notice",
                                 !.playback = IF r.kind = "play" THEN "over" ELSE @]
         /\ flows' = Send(flows, f, [r EXCEPT !.failed = TRUE], "refresh", cookie)
    ELSE /\ page' = CASE r.kind = "clear" -> [page EXCEPT !.clearing = FALSE, !.dialog = "notice"]
                      [] r.kind = "load" /\ r.live -> [page EXCEPT !.dialog = "notice"]
                      [] OTHER -> page
         /\ flows' = Finish(flows, f)

\* The catch blocks of play and manualAct: an error of a live flow is shown and
\* the data are read once more; whatever that read ends with, the flow is over.
\* A step may also throw by itself, when an answer is not what it expects.
Fail(f) ==
    LET r == flows[f] IN
    IF r.live /\ ~r.failed /\ r.kind \in {"play", "manual"}
    THEN /\ page' = [page EXCEPT !.dialog = "notice",
                                 !.playback = IF r.kind = "play" THEN "over" ELSE @]
         /\ flows' = Send(flows, f, [r EXCEPT !.failed = TRUE], "refresh", cookie)
    ELSE /\ page' = CASE r.kind = "clear" -> [page EXCEPT !.clearing = FALSE, !.dialog = "notice"]
                      [] r.kind = "load" /\ r.live -> [page EXCEPT !.dialog = "notice"]
                      [] r.kind = "manual" /\ r.live -> [page EXCEPT !.manual = "open"]
                      [] OTHER -> page
         /\ flows' = Finish(flows, f)

\* Any refusal but 401, or no answer at all.
Refused(f) ==
    /\ InFlight(f) \/ flows[f].answer = "lost"
    /\ Fail(f)
    /\ UNCHANGED <<gate, cookie, serverVars>>

Mismatch(f) ==
    /\ flows[f].kind = "play" /\ Arrived(f, "ok", "command") /\ flows[f].left = 1
    /\ Fail(f)
    /\ UNCHANGED <<gate, cookie, serverVars>>

Arrive(f) ==
    \/ SessionEnded(f) \/ CurrentRead(f) \/ SessionOpened(f) \/ WorkflowRead(f) \/ RefreshRead(f)
    \/ DelayOver(f) \/ CommandSaved(f) \/ SummaryRead(f) \/ Cleared(f) \/ Refused(f) \/ Mismatch(f)

-----------------------------------------------------------------------------
\* A page load: of a first visit, or of one with the cookie of a session.
Init ==
    /\ page = EmptyPage
    /\ gate = 0
    /\ created \in {0, 1}
    /\ cookie = created
    /\ alive \in SUBSET (1..created)
    /\ saved = [s \in Session |-> 0]
    /\ flows = Send([g \in Flow |-> Ended], 1, [Ended EXCEPT !.kind = "load", !.live = TRUE],
                    "current", cookie)

Next == Viewer \/ Expire \/ \E f \in Flow : Handle(f) \/ Arrive(f)

Spec == Init /\ [][Next]_vars

-----------------------------------------------------------------------------
(* Properties *)

\* Every variable has its type.
TypeOK ==
    /\ page \in PageRecord
    /\ flows \in [Flow -> FlowRecord]
    /\ gate \in 0..MaxFlows
    /\ cookie \in 0..MaxSessions
    /\ created \in 0..MaxSessions
    /\ alive \subseteq 1..created
    /\ saved \in [Session -> 0..MaxSaved]

\* Answers arrive in any order, and the data on the page still never go back: of
\* one session, a refresh never replaces what a later one has shown.
NeverOlder ==
    [][page'.shown.of # 0 /\ page'.shown.of = page.shown.of
         => page'.shown.at >= page.shown.at]_vars

\* Once the browser has left its session, by clearing it or by a 401 to whichever
\* request, no read that was under way puts the session's data back on the page.
NothingAfterSession == cookie = 0 => page.shown = Nothing

\* Where a scenario waits for the viewer, the page shows what the step's commands
\* have saved: no outdated flow has taken the refresh of the step away.
ShowsOwnCommands ==
    gate # 0 /\ page.shown.of = flows[gate].wrote.of => page.shown.at >= flows[gate].wrote.at

\* Every state that disables buttons has a flow that ends it: the page is never
\* left running, busy or clearing by a flow that has become outdated, and a play
\* that waits for the viewer is the one the gate would resume.
Served ==
    /\ page.playback = "running" =>
         \E f \in Flow : flows[f].kind = "play" /\ flows[f].live /\ ~flows[f].failed /\ f # gate
    /\ page.playback \in {"waiting", "paused"} =>
         gate # 0 /\ flows[gate].live /\ page.manual = "closed"
    /\ page.manual = "busy" => \E f \in Flow : flows[f].kind = "manual" /\ flows[f].live
    /\ page.clearing => \E f \in Flow : flows[f].kind = "clear"

\* How far a flow is from its end, within a step of its scenario.
Phase ==
    [pc \in {"end", "current", "session", "workflow", "refresh", "command", "summary",
             "reset", "gate", "sleep"} |->
        CASE pc = "current" -> 8 [] pc = "session" -> 7 [] pc = "workflow" -> 6
          [] pc = "command" -> 5 [] pc = "refresh" -> 4 [] pc \in {"gate", "sleep"} -> 3
          [] pc = "summary" -> 2 [] pc = "reset" -> 1 [] pc = "end" -> 0]

\* A load reads the workflow after the data.
PhaseOf(r) == IF r.kind = "load" /\ r.pc = "workflow" THEN 1 ELSE Phase[r.pc]

Unanswered(r) ==
    IF r.answer \in {"sent", "foreign"} THEN 2 ELSE IF r.answer = "none" THEN 0 ELSE 1

\* What tells how far a flow is.
Progress(r) == <<r.kind, r.live, r.failed, r.step, r.pc, r.left, r.answer>>

\* A flow that has become q is nearer its end than it was as r: it has ended, has
\* been outdated, has failed, is in a later step, or is further within its step.
Nearer(q, r) ==
    \/ q.kind = "none"
    \/ ~q.live /\ r.live
    \/ q.live = r.live /\ q.failed /\ ~r.failed
    \/ /\ q.live = r.live /\ q.failed = r.failed
       /\ \/ q.step > r.step
          \/ q.step = r.step /\ PhaseOf(q) < PhaseOf(r)
          \/ /\ q.step = r.step /\ PhaseOf(q) = PhaseOf(r)
             /\ \/ q.left < r.left
                \/ q.left = r.left /\ Unanswered(q) < Unanswered(r)

Moved(f) == flows'[f] # flows[f] /\ Progress(flows'[f]) # Progress(flows[f])

\* No flow goes on for ever: whatever is done to it, by the viewer, the server, an
\* answer or another flow, brings it nearer its end, and neither a request carried
\* out nor an answer arrived leaves every flow where it was.  An error is followed
\* by one more read, and never by a read for the error of that one.
FlowsRunOut ==
    [][/\ \A f \in Flow : flows[f].kind # "none" /\ Moved(f) => Nearer(flows'[f], flows[f])
       /\ (\A f \in Flow : ~Moved(f)) => \A f \in Flow : ~Handle(f) /\ ~Arrive(f)]_vars
=============================================================================
