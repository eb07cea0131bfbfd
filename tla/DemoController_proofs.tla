------------------------ MODULE DemoController_proofs ------------------------
(***************************************************************************)
(* Proofs about the page of the Demo, for any scenario, and any number of  *)
(* sessions and flows: what it shows, and that it stays usable.            *)
(***************************************************************************)
EXTENDS DemoController, TLAPS

----------------------------------------------------------------------------
(* The inductive invariant *)

\* What a flow awaits, by its kind.
Shape(r) ==
    /\ r.kind = "none" => r.pc = "end" /\ r.answer = "none" /\ ~ r.live /\ r.wrote = Nothing
    /\ r.kind = "load" => r.pc \in {"current", "refresh", "workflow"}
    /\ r.kind = "play" =>
          r.pc \in {"session", "workflow", "refresh", "command", "summary", "sleep", "gate"}
    /\ r.kind = "manual" => r.pc \in {"session", "workflow", "command", "refresh"}
    /\ r.kind = "clear" => r.pc = "reset" /\ ~ r.live
    /\ r.pc \in {"gate", "sleep"} => r.answer = "none"
    /\ r.failed => r.kind \in {"play", "manual"} /\ r.pc = "refresh"
    /\ r.fresh => r.pc \in {"refresh", "gate", "sleep"}
    /\ r.pc = "command" => r.left > 0
    /\ r.kind = "manual" /\ r.pc \in {"session", "workflow"} => r.left > 0
    /\ r.pc = "refresh" /\ r.sent = 0 => r.got = Nothing
    /\ r.pc = "session" /\ r.answer = "ok" => r.got.of # 0

\* What a read has seen of a session that is still alive, that session still has.
Backed(v) ==
    /\ v.of <= created
    /\ v.of = 0 => v.at = 0
    /\ v.of \in alive => v.at <= saved[v.of]

FlowInv(r) == Shape(r) /\ Backed(r.got) /\ Backed(r.wrote)

\* One read is the newest, and it is not older than what the page shows.
FreshInv ==
    /\ \A f, g \in Flow : flows[f].fresh /\ flows[g].fresh => f = g
    /\ \A f \in Flow : flows[f].fresh =>
          /\ cookie = 0 => flows[f].sent = 0
          /\ flows[f].pc = "refresh" /\ flows[f].answer = "ok" /\ flows[f].got.of = page.shown.of =>
                page.shown.at <= flows[f].got.at

\* A scenario that has neither failed nor been outdated.
Playing(f) == flows[f].kind = "play" /\ flows[f].live /\ ~ flows[f].failed

\* It is alone, its reads are the newest ones, and show what it has saved.
PlayInv ==
    /\ \A f \in Flow : Playing(f) =>
          /\ Active
          /\ \A g \in Flow \ {f} : ~ flows[g].live
          /\ flows[f].pc \in {"refresh", "gate"} => flows[f].fresh
          /\ flows[f].pc = "refresh" /\ flows[f].answer = "ok" /\ flows[f].got.of = flows[f].wrote.of =>
                flows[f].wrote.at <= flows[f].got.at
    /\ Active => page.manual = "closed"
    /\ page.playback = "running" => \E f \in Flow : Playing(f)
    /\ page.playback \in {"waiting", "paused"} <=> gate # 0
    /\ gate # 0 => gate \in Flow /\ Playing(gate) /\ flows[gate].pc = "gate"

\* What disables buttons is under way.
BusyInv ==
    /\ page.manual = "busy" => \E f \in Flow : flows[f].kind = "manual" /\ flows[f].live
    /\ page.clearing => \E f \in Flow : flows[f].kind = "clear"

PageInv ==
    /\ TypeOK
    /\ \A f \in Flow : FlowInv(flows[f])
    /\ Backed(page.shown)
    /\ FreshInv
    /\ PlayInv
    /\ BusyInv
    /\ NothingAfterSession
    /\ ShowsOwnCommands

----------------------------------------------------------------------------
(* What the pieces of a flow do to the flows *)

Await == {"end", "current", "session", "workflow", "refresh", "command", "summary",
          "reset", "gate", "sleep"}

\* A flow on its way to the next request.
Draft ==
    [kind : {"none", "load", "play", "manual", "clear"},
     pc : Await \cup {"between"},
     live : BOOLEAN, fresh : BOOLEAN, sent : 0..MaxSessions,
     answer : {"none", "sent", "foreign", "ok", "lost"},
     got : Reads, step : 0..Len(Plan), left : Nat, stepwise : BOOLEAN,
     failed : BOOLEAN, wrote : Reads]

LEMMA NothingTyped == Nothing \in Reads /\ Nothing.of = 0 /\ Nothing.at = 0
<1>1. 0 \in 0..MaxSessions /\ 0 \in 0..MaxSaved
  BY ControllerAssumption
<1> QED BY <1>1 DEF Nothing, Reads

LEMMA EndedTyped ==
    /\ Ended \in FlowRecord
    /\ Ended.kind = "none" /\ Ended.pc = "end" /\ Ended.answer = "none" /\ Ended.got = Nothing
    /\ Ended.wrote = Nothing /\ Ended.sent = 0
    /\ ~ Ended.live /\ ~ Ended.fresh /\ ~ Ended.failed
    /\ Shape(Ended)
<1>1. 0 \in 0..Len(Plan) /\ 0 \in 0..MaxSessions /\ 0 \in Nat
  BY ControllerAssumption
<1>2. Ended \in FlowRecord
  BY <1>1, NothingTyped, Zenon DEF Ended, FlowRecord
<1>3. /\ Ended.kind = "none" /\ Ended.pc = "end" /\ Ended.answer = "none" /\ Ended.got = Nothing
      /\ Ended.wrote = Nothing /\ Ended.sent = 0
      /\ ~ Ended.live /\ ~ Ended.fresh /\ ~ Ended.failed
  BY DEF Ended
<1> HIDE DEF Ended
<1> QED BY <1>2, <1>3 DEF Shape

LEMMA DraftTyped == FlowRecord \subseteq Draft
BY DEF FlowRecord, Draft, Await

\* q is the flow r after it has sent a request with the cookie c.
Sent(q, r, pc, c) ==
    /\ q \in FlowRecord
    /\ q.kind = r.kind /\ q.live = r.live /\ q.failed = r.failed
    /\ q.step = r.step /\ q.left = r.left /\ q.stepwise = r.stepwise /\ q.wrote = r.wrote
    /\ q.pc = pc /\ q.sent = c /\ q.got = Nothing /\ q.fresh = (pc = "refresh")
    /\ q.answer \in {"sent", "foreign"}

\* The flow q goes on as r, except that it may have lost its freshness.
Keeps(q, r) ==
    /\ q \in FlowRecord
    /\ q.kind = r.kind /\ q.pc = r.pc /\ q.live = r.live /\ q.sent = r.sent
    /\ q.answer = r.answer /\ q.got = r.got /\ q.left = r.left /\ q.failed = r.failed
    /\ q.wrote = r.wrote /\ (q.fresh => r.fresh)

LEMMA SendEffect ==
    ASSUME NEW fl \in [Flow -> FlowRecord], NEW f \in Flow, NEW r \in Draft, NEW pc \in Await,
           NEW c \in 0..MaxSessions, NEW s, s = Send(fl, f, r, pc, c)
    PROVE  /\ s \in [Flow -> FlowRecord]
           /\ Sent(s[f], r, pc, c)
           /\ \A g \in Flow \ {f} :
                 Keeps(s[g], fl[g]) /\ s[g].fresh = (fl[g].fresh /\ pc # "refresh")
<1> DEFINE answer == IF pc = "command" /\ r.pc = "command" /\ r.sent # c THEN "foreign" ELSE "sent"
           q == [r EXCEPT !.pc = pc, !.sent = c, !.got = Nothing, !.fresh = pc = "refresh",
                          !.answer = answer]
           other(g) == [fl[g] EXCEPT !.fresh = fl[g].fresh /\ pc # "refresh"]
<1>1. s = [g \in Flow |-> IF g = f THEN q ELSE other(g)]
  BY DEF Send
<1>2. Sent(q, r, pc, c)
  <2>1. answer \in {"sent", "foreign"}
    OBVIOUS
  <2> HIDE DEF answer
  <2>2. PICK fresh \in BOOLEAN : fresh = (pc = "refresh")
    OBVIOUS
  <2>3. PICK p : p = [r EXCEPT !.pc = pc, !.sent = c, !.got = Nothing, !.fresh = fresh,
                               !.answer = answer]
    OBVIOUS
  <2>4. p \in FlowRecord
    BY <2>1, <2>3, NothingTyped DEF Draft, FlowRecord, Await
  <2>5. Sent(p, r, pc, c)
    BY <2>1, <2>2, <2>3, <2>4 DEF Sent, Draft
  <2>6. p = q
    BY <2>2, <2>3
  <2> QED BY <2>5, <2>6
<1>3. ASSUME NEW g \in Flow
      PROVE  /\ Keeps(other(g), fl[g])
             /\ other(g).fresh = (fl[g].fresh /\ pc # "refresh")
  <2>1. PICK fresh \in BOOLEAN : fresh = (fl[g].fresh /\ pc # "refresh")
    OBVIOUS
  <2>2. other(g) = [fl[g] EXCEPT !.fresh = fresh]
    BY <2>1
  <2>3. fl[g] \in FlowRecord
    OBVIOUS
  <2> QED BY <2>1, <2>2, <2>3 DEF FlowRecord, Keeps
<1>4. q \in FlowRecord
  BY <1>2 DEF Sent
<1>5. \A g \in Flow : other(g) \in FlowRecord
  BY <1>3 DEF Keeps
<1> HIDE DEF q, other
<1> QED BY <1>1, <1>2, <1>3, <1>4, <1>5

LEMMA ElementTyped ==
    ASSUME NEW S, NEW q \in Seq(S), NEW k \in 1..Len(q)
    PROVE  q[k] \in S
OBVIOUS

LEMMA NextStepEffect ==
    ASSUME NEW fl \in [Flow -> FlowRecord], NEW f \in Flow, NEW c \in 0..MaxSessions,
           NEW s, s = NextStep(fl, f, c)
    PROVE  /\ s \in [Flow -> FlowRecord]
           /\ s[f].kind = fl[f].kind /\ s[f].live = fl[f].live /\ s[f].failed = fl[f].failed
           /\ s[f].pc \in {"command", "summary"} /\ (s[f].pc = "command" => s[f].left > 0)
           /\ s[f].sent = c /\ s[f].got = Nothing /\ ~ s[f].fresh
           /\ s[f].answer \in {"sent", "foreign"} /\ s[f].wrote \in {fl[f].wrote, Nothing}
           /\ \A g \in Flow \ {f} : Keeps(s[g], fl[g]) /\ s[g].fresh = fl[g].fresh
<1>0. fl[f] \in FlowRecord /\ fl[f] \in Draft
  BY DraftTyped
<1>1. CASE fl[f].step < Len(Plan)
  <2>0. PICK k : k = fl[f].step + 1
    OBVIOUS
  <2>1. k \in 1..Len(Plan) /\ k \in 0..Len(Plan)
    <3>1. fl[f].step \in 0..Len(Plan) /\ Len(Plan) \in Nat
      BY <1>0, ControllerAssumption DEF FlowRecord
    <3> QED BY <1>1, <2>0, <3>1
  <2>2. PICK n \in Nat : n = Plan[k].commands /\ n > 0
    <3>1. Plan[k] \in [commands : Nat \ {0}, pause : BOOLEAN]
      BY <2>1, ElementTyped, ControllerAssumption, Zenon
    <3> QED BY <3>1
  <2>3. PICK r : r = [fl[f] EXCEPT !.step = k, !.left = n, !.wrote = Nothing,
                                   !.pc = "between"]
    OBVIOUS
  <2>4. s = Send(fl, f, r, "command", c)
    BY <1>1, <2>0, <2>2, <2>3 DEF NextStep, BeginStep
  <2>5. /\ r \in Draft /\ r.kind = fl[f].kind /\ r.live = fl[f].live /\ r.failed = fl[f].failed
        /\ r.left = n /\ r.wrote = Nothing
    <3>1. r = [fl[f] EXCEPT !.step = k, !.left = n, !.wrote = Nothing, !.pc = "between"]
      BY <2>3
    <3>2. "between" \in Await \cup {"between"}
      OBVIOUS
    <3> QED BY <1>0, <2>1, <3>1, <3>2, NothingTyped DEF Draft
  <2>6. /\ s \in [Flow -> FlowRecord] /\ Sent(s[f], r, "command", c)
        /\ \A g \in Flow \ {f} :
              Keeps(s[g], fl[g]) /\ s[g].fresh = (fl[g].fresh /\ "command" # "refresh")
    BY <2>4, <2>5, SendEffect DEF Await
  <2> QED BY <2>2, <2>5, <2>6 DEF Sent, Keeps, FlowRecord
<1>2. CASE ~ (fl[f].step < Len(Plan))
  <2>1. s = Send(fl, f, fl[f], "summary", c)
    BY <1>2 DEF NextStep
  <2>2. /\ s \in [Flow -> FlowRecord] /\ Sent(s[f], fl[f], "summary", c)
        /\ \A g \in Flow \ {f} :
              Keeps(s[g], fl[g]) /\ s[g].fresh = (fl[g].fresh /\ "summary" # "refresh")
    BY <1>0, <2>1, SendEffect DEF Await
  <2> QED BY <2>2 DEF Sent, Keeps, FlowRecord
<1> QED BY <1>1, <1>2

LEMMA SameKeeps == \A r \in FlowRecord : Keeps(r, r)
BY DEF Keeps

LEMMA FinishEffect ==
    ASSUME NEW fl \in [Flow -> FlowRecord], NEW f \in Flow, NEW s, s = Finish(fl, f)
    PROVE  /\ s \in [Flow -> FlowRecord] /\ s[f] = Ended
           /\ \A g \in Flow \ {f} : s[g] = fl[g]
BY EndedTyped DEF Finish

\* What an outdated flow q has kept of r.
Outdates(q, r) ==
    /\ q \in FlowRecord /\ Shape(q) /\ ~ q.live /\ ~ q.failed
    /\ q.kind = r.kind /\ q.pc = r.pc /\ q.sent = r.sent /\ q.answer = r.answer
    /\ q.got = r.got /\ q.fresh = r.fresh /\ q.wrote = Nothing

LEMMA StaleEffect ==
    ASSUME NEW r \in FlowRecord, Shape(r), NEW q, q = Stale(r)
    PROVE  Outdates(q, r)
<1>1. CASE r.kind = "none"
  BY <1>1, EndedTyped DEF Shape, Stale, Outdates, FlowRecord
<1>2. CASE r.kind # "none"
  <2>1. PICK e \in FlowRecord : e = Ended
    BY EndedTyped
  <2>2. q = [e EXCEPT !.kind = r.kind, !.pc = r.pc, !.sent = r.sent, !.answer = r.answer,
                      !.got = r.got, !.left = r.left, !.fresh = r.fresh]
    BY <1>2, <2>1 DEF Stale
  <2>3. /\ q \in FlowRecord /\ q.live = e.live /\ q.failed = e.failed /\ q.left = r.left
        /\ q.kind = r.kind /\ q.pc = r.pc /\ q.sent = r.sent /\ q.answer = r.answer
        /\ q.got = r.got /\ q.fresh = r.fresh /\ q.wrote = e.wrote
    BY <2>2 DEF FlowRecord
  <2>4. ~ q.live /\ ~ q.failed /\ q.wrote = Nothing
    BY <2>1, <2>3, EndedTyped
  <2> QED BY <1>2, <2>3, <2>4 DEF Shape, Outdates, FlowRecord
<1> QED BY <1>1, <1>2

LEMMA AbandonedEffect ==
    ASSUME NEW fl \in [Flow -> FlowRecord],
           \A g \in Flow : Shape(fl[g]),
           NEW s, s = Abandoned(fl)
    PROVE  /\ s \in [Flow -> FlowRecord]
           /\ \A g \in Flow :
                 /\ Shape(s[g]) /\ ~ s[g].live /\ ~ s[g].fresh
                 /\ s[g].got \in {fl[g].got, Nothing} /\ s[g].wrote = Nothing
                 /\ s[g].kind = fl[g].kind \/ g = gate
<1> DEFINE faded(g) == [Stale(fl[g]) EXCEPT !.fresh = FALSE]
<1>1. ASSUME NEW g \in Flow
      PROVE  /\ faded(g) \in FlowRecord /\ Shape(faded(g)) /\ ~ faded(g).live /\ ~ faded(g).fresh
             /\ faded(g).got = fl[g].got /\ faded(g).wrote = Nothing /\ faded(g).kind = fl[g].kind
  <2>1. PICK q : q = Stale(fl[g])
    OBVIOUS
  <2>2. Outdates(q, fl[g])
    BY <2>1, StaleEffect
  <2>3. PICK p : p = [q EXCEPT !.fresh = FALSE]
    OBVIOUS
  <2>4. /\ p \in FlowRecord /\ ~ p.fresh /\ p.live = q.live /\ p.kind = q.kind /\ p.pc = q.pc
        /\ p.got = q.got /\ p.wrote = q.wrote /\ p.answer = q.answer /\ p.failed = q.failed
        /\ p.left = q.left /\ p.sent = q.sent
    BY <2>2, <2>3 DEF FlowRecord, Outdates
  <2>5. Shape(p)
    BY <2>2, <2>4 DEF Shape, Outdates
  <2> QED BY <2>1, <2>2, <2>3, <2>4, <2>5 DEF Outdates
<1>2. s = [g \in Flow |-> IF g = gate THEN Ended ELSE faded(g)]
  BY DEF Abandoned
<1>3. \A g \in Flow : faded(g) \in FlowRecord
  BY <1>1
<1> HIDE DEF faded
<1>4. s \in [Flow -> FlowRecord]
  BY <1>2, <1>3, EndedTyped
<1> QED BY <1>1, <1>2, <1>4, EndedTyped

----------------------------------------------------------------------------
(* One flow acts *)

\* What a read has seen and the server still has, it has after the step.
Endures == \A v \in Reads : Backed(v) => Backed(v)'

LEMMA Unserved == ASSUME UNCHANGED serverVars PROVE Endures
BY DEF Endures, Backed, serverVars

LEMMA NothingBacked == ASSUME TypeOK PROVE Backed(Nothing)
BY NothingTyped DEF TypeOK, Backed

\* Flow f has acted: the others lose at most their freshness, to its refresh.
Acts(f) ==
    /\ flows' \in [Flow -> FlowRecord]
    /\ FlowInv(flows[f])'
    /\ \A g \in Flow \ {f} : Keeps(flows'[g], flows[g])
    /\ \/ (\A g \in Flow \ {f} : flows'[g].fresh = flows[g].fresh) /\ (flows'[f].fresh => flows[f].fresh)
       \/ flows'[f].pc = "refresh" /\ \A g \in Flow \ {f} : ~ flows'[g].fresh

\* The flow r may await the answer of pc.
Fits(r, pc) ==
    /\ r.kind # "none" /\ (r.kind = "load" => pc \in {"current", "refresh", "workflow"})
    /\ r.kind = "play" => pc \in {"session", "workflow", "refresh", "command", "summary"}
    /\ r.kind = "manual" => pc \in {"session", "workflow", "command", "refresh"}
    /\ r.kind = "clear" => pc = "reset" /\ ~ r.live
    /\ r.failed => r.kind \in {"play", "manual"} /\ pc = "refresh"
    /\ pc = "command" => r.left > 0
    /\ r.kind = "manual" /\ pc \in {"session", "workflow"} => r.left > 0

LEMMA SentFits ==
    ASSUME NEW q, NEW r \in Draft, NEW pc \in Await, NEW c, Sent(q, r, pc, c), Fits(r, pc)
    PROVE  Shape(q)
<1>1. pc \notin {"end", "gate", "sleep"}
  BY DEF Fits, Draft
<1> QED BY <1>1 DEF Shape, Sent, Fits

LEMMA SendActs ==
    ASSUME TypeOK, NEW f \in Flow, NEW r \in Draft, NEW pc \in Await,
           NEW c \in 0..MaxSessions, flows' = Send(flows, f, r, pc, c),
           Fits(r, pc), Backed(r.wrote), UNCHANGED serverVars
    PROVE  Acts(f) /\ Sent(flows'[f], r, pc, c)
<1>1. flows \in [Flow -> FlowRecord]
  BY DEF TypeOK
<1>2. /\ flows' \in [Flow -> FlowRecord]
      /\ Sent(flows'[f], r, pc, c)
      /\ \A g \in Flow \ {f} :
            Keeps(flows'[g], flows[g]) /\ flows'[g].fresh = (flows[g].fresh /\ pc # "refresh")
  BY <1>1, SendEffect
<1>3. Shape(flows'[f])
  BY <1>2, SentFits
<1>4. Backed(flows[f].got)' /\ Backed(flows[f].wrote)'
  BY <1>2, NothingBacked DEF Sent, Backed, serverVars
<1>5. FlowInv(flows[f])'
  BY <1>3, <1>4 DEF FlowInv
<1>6. flows'[f].pc = pc /\ flows'[f].fresh = (pc = "refresh")
  BY <1>2 DEF Sent
<1>7. \A g \in Flow \ {f} : flows[g].fresh \in BOOLEAN /\ flows'[g].fresh \in BOOLEAN
  BY <1>1, <1>2 DEF FlowRecord
<1> QED BY <1>2, <1>5, <1>6, <1>7 DEF Acts

LEMMA NextStepActs ==
    ASSUME TypeOK, NEW f \in Flow, FlowInv(flows[f]), flows[f].kind = "play", ~ flows[f].failed,
           NEW c \in 0..MaxSessions, flows' = NextStep(flows, f, c), UNCHANGED serverVars
    PROVE  /\ Acts(f)
           /\ flows'[f].kind = "play" /\ flows'[f].live = flows[f].live /\ ~ flows'[f].failed
           /\ flows'[f].pc \in {"command", "summary"} /\ ~ flows'[f].fresh
<1>1. flows \in [Flow -> FlowRecord]
  BY DEF TypeOK
<1>2. /\ flows' \in [Flow -> FlowRecord]
      /\ flows'[f].kind = "play" /\ flows'[f].live = flows[f].live /\ ~ flows'[f].failed
      /\ flows'[f].pc \in {"command", "summary"} /\ (flows'[f].pc = "command" => flows'[f].left > 0)
      /\ flows'[f].got = Nothing /\ ~ flows'[f].fresh
      /\ flows'[f].wrote \in {flows[f].wrote, Nothing}
      /\ \A g \in Flow \ {f} : Keeps(flows'[g], flows[g]) /\ flows'[g].fresh = flows[g].fresh
  BY <1>1, NextStepEffect
<1>3. Shape(flows'[f])
  BY <1>2 DEF Shape
<1>4. Backed(flows[f].got)' /\ Backed(flows[f].wrote)'
  BY <1>2, NothingBacked DEF FlowInv, Backed, serverVars
<1> QED BY <1>2, <1>3, <1>4 DEF Acts, FlowInv

LEMMA FinishActs ==
    ASSUME TypeOK, NEW f \in Flow, flows' = Finish(flows, f), UNCHANGED serverVars
    PROVE  Acts(f) /\ flows'[f] = Ended
<1>1. flows \in [Flow -> FlowRecord]
  BY DEF TypeOK
<1>2. flows' \in [Flow -> FlowRecord] /\ flows'[f] = Ended
      /\ \A g \in Flow \ {f} : flows'[g] = flows[g]
  BY <1>1, FinishEffect
<1>3. Backed(flows[f].got)' /\ Backed(flows[f].wrote)'
  BY <1>2, NothingBacked, EndedTyped DEF Backed, serverVars
<1>4. \A g \in Flow \ {f} : Keeps(flows'[g], flows[g])
  BY <1>1, <1>2, SameKeeps
<1> QED BY <1>2, <1>3, <1>4, EndedTyped DEF Acts, FlowInv

----------------------------------------------------------------------------
(* The parts of the invariant, when one flow has acted *)

\* The data keep their types, and what they show is backed.
LEMMA DataKeep ==
    ASSUME PageInv, NEW f \in Flow, Acts(f), Endures,
           page' \in PageRecord, page'.shown \in {page.shown, flows[f].got},
           gate' \in 0..MaxFlows, cookie' \in 0..MaxSessions, created' \in 0..MaxSessions,
           alive' \subseteq 1..created', saved' \in [Session -> 0..MaxSaved]
    PROVE  TypeOK' /\ (\A g \in Flow : FlowInv(flows[g])') /\ Backed(page.shown)'
<1>1. TypeOK'
  BY DEF TypeOK, Acts
<1>2. ASSUME NEW g \in Flow PROVE FlowInv(flows[g])'
  <2>1. CASE g = f
    BY <2>1 DEF Acts
  <2>2. CASE g # f
    <3>1. Keeps(flows'[g], flows[g]) /\ FlowInv(flows[g]) /\ flows[g] \in FlowRecord
      BY <2>2 DEF Acts, PageInv, TypeOK
    <3>2. Shape(flows'[g])
      BY <3>1 DEF Shape, Keeps, FlowInv
    <3>3. flows[g].got \in Reads /\ flows[g].wrote \in Reads
      BY <3>1 DEF FlowRecord
    <3>4. Backed(flows[g].got)' /\ Backed(flows[g].wrote)'
      BY <3>1, <3>3 DEF Keeps, FlowInv, Backed, Endures
    <3> QED BY <3>2, <3>4 DEF FlowInv
  <2> QED BY <2>1, <2>2
<1>3. page.shown \in Reads /\ flows[f].got \in Reads /\ Backed(page.shown) /\ Backed(flows[f].got)
  BY DEF PageInv, TypeOK, PageRecord, FlowRecord, FlowInv
<1>4. Backed(page.shown)'
  BY <1>3 DEF Backed, Endures
<1> QED BY <1>1, <1>2, <1>4

\* The newest read stays the newest one.
LEMMA FreshKeeps ==
    ASSUME PageInv, NEW f \in Flow, Acts(f), cookie' = 0 => cookie = 0,
           flows'[f].fresh => (cookie' = 0 => flows'[f].sent = 0),
           flows'[f].fresh /\ flows'[f].pc = "refresh" => flows'[f].answer # "ok",
           \/ page'.shown = page.shown
           \/ flows[f].fresh /\ flows[f].pc = "refresh" /\ page'.shown = flows[f].got
    PROVE  FreshInv' /\ NothingAfterSession'
<1>1. \A g, h \in Flow : flows'[g].fresh /\ flows'[h].fresh => g = h
  BY DEF PageInv, FreshInv, Acts, Keeps
<1>2. ASSUME NEW g \in Flow, flows'[g].fresh
      PROVE  cookie' = 0 => flows'[g].sent = 0
  BY <1>2 DEF PageInv, FreshInv, Acts, Keeps
<1>3. ASSUME NEW g \in Flow, flows'[g].fresh, flows'[g].pc = "refresh", flows'[g].answer = "ok",
             flows'[g].got.of = page'.shown.of
      PROVE  page'.shown.at <= flows'[g].got.at
  <2>1. g # f /\ Keeps(flows'[g], flows[g])
    BY <1>3 DEF Acts
  <2>2. flows[g].fresh /\ ~ flows[f].fresh
    BY <1>3, <2>1 DEF Keeps, PageInv, FreshInv
  <2> QED BY <1>3, <2>1, <2>2 DEF Keeps, PageInv, FreshInv
<1>4. NothingAfterSession'
  BY DEF PageInv, NothingAfterSession, FreshInv, FlowInv, Shape
<1> QED BY <1>1, <1>2, <1>3, <1>4 DEF FreshInv

\* Only a scenario that is played disables buttons or waits.
LEMMA Calm ==
    ASSUME PageInv, \A g \in Flow : ~ Playing(g)
    PROVE  ~ Active /\ gate = 0
BY DEF PageInv, PlayInv, Active, TypeOK, PageRecord

LEMMA StaysCalm ==
    ASSUME \A g \in Flow : ~ Playing(g)', ~ Active', gate' = 0
    PROVE  PlayInv' /\ ShowsOwnCommands'
BY DEF PlayInv, ShowsOwnCommands, Active

\* A flow that acts for the page is alone in that.
LEMMA OthersCalm ==
    ASSUME PageInv, NEW f \in Flow, flows[f].live, ~ Playing(f)
    PROVE  \A g \in Flow : ~ Playing(g)
BY DEF PageInv, PlayInv

LEMMA CalmActs ==
    ASSUME PageInv, NEW f \in Flow, Acts(f), \A g \in Flow : ~ Playing(g), ~ Playing(f)',
           gate' = gate, page'.playback \in {"none", "over", page.playback}
    PROVE  PlayInv' /\ ShowsOwnCommands'
<1>1. ~ Active /\ gate = 0
  BY Calm
<1>2. \A g \in Flow : ~ Playing(g)'
  BY DEF Acts, Keeps, Playing
<1> QED BY <1>1, <1>2, StaysCalm DEF Active

\* A flow that is outdated leaves the scenario that is played alone.
LEMMA StaleActs ==
    ASSUME PageInv, NEW f \in Flow, Acts(f), ~ flows[f].live, ~ flows'[f].live,
           flows'[f].pc # "refresh",
           page'.playback = page.playback, page'.manual = page.manual, gate' = gate,
           page'.shown = page.shown \/ flows[f].fresh
    PROVE  PlayInv' /\ ShowsOwnCommands'
<1>1. \A g \in Flow \ {f} : Keeps(flows'[g], flows[g]) /\ flows'[g].fresh = flows[g].fresh
  BY DEF Acts
<1>2. ASSUME NEW g \in Flow PROVE Playing(g)' <=> Playing(g)
  BY <1>1 DEF Playing, Keeps
<1>3. ASSUME NEW g \in Flow, Playing(g)'
      PROVE  /\ Active'
             /\ \A h \in Flow \ {g} : ~ flows'[h].live
             /\ flows'[g].pc \in {"refresh", "gate"} => flows'[g].fresh
             /\ flows'[g].pc = "refresh" /\ flows'[g].answer = "ok"
                   /\ flows'[g].got.of = flows'[g].wrote.of =>
                flows'[g].wrote.at <= flows'[g].got.at
  <2>1. Playing(g) /\ g # f
    BY <1>2, <1>3 DEF Playing
  <2> QED BY <1>1, <2>1 DEF PageInv, PlayInv, Keeps, Active
<1>4. PlayInv'
  <2>1. (Active => page.manual = "closed")'
    BY DEF PageInv, PlayInv, Active
  <2>2. (page.playback = "running" => \E h \in Flow : Playing(h))'
    BY <1>2 DEF PageInv, PlayInv
  <2>3. (page.playback \in {"waiting", "paused"} <=> gate # 0)'
    BY DEF PageInv, PlayInv
  <2>4. (gate # 0 => gate \in Flow /\ Playing(gate) /\ flows[gate].pc = "gate")'
    <3>1. PICK g : g = gate
      OBVIOUS
    <3>2. SUFFICES ASSUME g # 0 PROVE g \in Flow /\ Playing(g)' /\ flows'[g].pc = "gate"
      BY <3>1 DEF Playing
    <3>3. g \in Flow /\ Playing(g) /\ flows[g].pc = "gate" /\ g # f
      BY <3>1, <3>2 DEF PageInv, PlayInv, Playing
    <3> QED BY <1>1, <1>2, <3>3 DEF Keeps
  <2> QED BY <1>3, <2>1, <2>2, <2>3, <2>4 DEF PlayInv
<1>5. ShowsOwnCommands'
  <2>1. PICK g : g = gate
    OBVIOUS
  <2>2. CASE g # 0
    <3>1. g \in Flow /\ Playing(g) /\ flows[g].pc = "gate" /\ g # f
      BY <2>1, <2>2 DEF PageInv, PlayInv, Playing
    <3>2. flows[g].fresh
      BY <3>1 DEF PageInv, PlayInv
    <3>3. page'.shown = page.shown
      BY <3>1, <3>2 DEF PageInv, FreshInv
    <3>4. flows'[g].wrote = flows[g].wrote
      BY <1>1, <3>1 DEF Keeps
    <3> QED BY <2>1, <3>3, <3>4 DEF PageInv, ShowsOwnCommands
  <2> QED BY <2>1, <2>2 DEF ShowsOwnCommands
<1> QED BY <1>4, <1>5

\* What disables buttons stays under way.
LEMMA BusyKeeps ==
    ASSUME PageInv, NEW f \in Flow, Acts(f),
           page'.manual = "busy" =>
              \/ flows'[f].kind = "manual" /\ flows'[f].live
              \/ page.manual = "busy" /\ ~ (flows[f].kind = "manual" /\ flows[f].live),
           page'.clearing =>
              flows'[f].kind = "clear" \/ (page.clearing /\ flows[f].kind # "clear")
    PROVE  BusyInv'
BY DEF PageInv, BusyInv, Acts, Keeps

\* While a scenario is played, nothing else acts for the page.
LEMMA PlayingAlone ==
    ASSUME PageInv, NEW f \in Flow, Playing(f)
    PROVE  /\ page.manual = "closed"
           /\ \A g \in Flow \ {f} : ~ flows[g].live
           /\ flows[f].pc # "gate" => gate = 0 /\ page.playback = "running"
           /\ flows[f].pc \in {"refresh", "gate"} => flows[f].fresh
           /\ gate # 0 => gate = f
BY DEF PageInv, PlayInv, Playing, Active

LEMMA PlayActs ==
    ASSUME PageInv, NEW f \in Flow, Acts(f), Playing(f), Playing(f)',
           page'.manual = page.manual,
           flows'[f].pc \in {"refresh", "gate"} => flows'[f].fresh,
           flows'[f].pc = "refresh" => flows'[f].answer # "ok",
           \/ flows'[f].pc # "gate" /\ gate' = 0 /\ page'.playback = "running"
           \/ /\ flows'[f].pc = "gate" /\ gate' = f /\ page'.playback \in {"waiting", "paused"}
              /\ page'.shown.of = flows'[f].wrote.of => page'.shown.at >= flows'[f].wrote.at
    PROVE  PlayInv' /\ ShowsOwnCommands'
<1>1. \A g \in Flow \ {f} : ~ flows'[g].live
  BY PlayingAlone DEF Acts, Keeps
<1>2. \A g \in Flow : Playing(g)' => g = f
  BY <1>1 DEF Playing
<1>3. page'.manual = "closed" /\ Active'
  BY PlayingAlone DEF Active
<1>4. f # 0
  BY DEF Flow
<1>5. PlayInv'
  <2>1. (\A g \in Flow : Playing(g) =>
          /\ Active
          /\ \A h \in Flow \ {g} : ~ flows[h].live
          /\ flows[g].pc \in {"refresh", "gate"} => flows[g].fresh
          /\ flows[g].pc = "refresh" /\ flows[g].answer = "ok" /\ flows[g].got.of = flows[g].wrote.of =>
                flows[g].wrote.at <= flows[g].got.at)'
    BY <1>1, <1>2, <1>3
  <2>2. (page.playback = "running" => \E g \in Flow : Playing(g))'
    OBVIOUS
  <2>3. (page.playback \in {"waiting", "paused"} <=> gate # 0)'
    BY <1>4
  <2>4. (gate # 0 => gate \in Flow /\ Playing(gate) /\ flows[gate].pc = "gate")'
    BY DEF Playing
  <2> QED BY <1>3, <2>1, <2>2, <2>3, <2>4 DEF PlayInv
<1>6. ShowsOwnCommands'
  BY DEF ShowsOwnCommands
<1> QED BY <1>5, <1>6

\* A scenario that fails leaves the page calm.
LEMMA PlayFails ==
    ASSUME PageInv, NEW f \in Flow, Acts(f), Playing(f), ~ Playing(f)', flows[f].pc # "gate",
           gate' = gate, page'.playback = "over"
    PROVE  PlayInv' /\ ShowsOwnCommands'
<1>1. gate' = 0 /\ ~ Active'
  BY PlayingAlone DEF Active
<1>2. \A g \in Flow : ~ Playing(g)'
  BY PlayingAlone DEF Acts, Keeps, Playing
<1> QED BY <1>1, <1>2, StaysCalm

----------------------------------------------------------------------------
(* An answer arrives *)

\* What is known of the flow that acts.
LEMMA Acting ==
    ASSUME PageInv, NEW f \in Flow
    PROVE  /\ flows[f] \in FlowRecord /\ flows[f] \in Draft /\ FlowInv(flows[f]) /\ Shape(flows[f])
           /\ Backed(flows[f].got) /\ Backed(flows[f].wrote)
           /\ flows[f].got \in Reads /\ flows[f].wrote \in Reads /\ flows[f].got.of \in 0..MaxSessions
           /\ TypeOK /\ page \in PageRecord /\ cookie \in 0..MaxSessions
BY DraftTyped DEF PageInv, TypeOK, FlowInv, FlowRecord, Reads

LEMMA Unchanged ==
    ASSUME PageInv, UNCHANGED <<gate, cookie, serverVars>>
    PROVE  /\ gate' \in 0..MaxFlows /\ cookie' \in 0..MaxSessions /\ created' \in 0..MaxSessions
           /\ alive' \subseteq 1..created' /\ saved' \in [Session -> 0..MaxSaved]
           /\ Endures
BY Unserved DEF PageInv, TypeOK, serverVars

\* A flow that plays no scenario comes to its end.
LEMMA Finished ==
    ASSUME PageInv, NEW f \in Flow, ~ Playing(f), flows' = Finish(flows, f),
           UNCHANGED <<gate, cookie, serverVars>>,
           page' \in PageRecord, page'.playback = page.playback,
           \/ page'.shown = page.shown
           \/ flows[f].fresh /\ flows[f].pc = "refresh" /\ page'.shown = flows[f].got,
           page'.manual = page.manual \/ (flows[f].live /\ page'.manual = "open"),
           flows[f].kind = "manual" /\ flows[f].live => page'.manual # "busy",
           page'.clearing => page.clearing /\ flows[f].kind # "clear"
    PROVE  PageInv'
<1>1. Acts(f) /\ flows'[f] = Ended
  BY FinishActs, Acting DEF serverVars
<1>2. TypeOK' /\ (\A g \in Flow : FlowInv(flows[g])') /\ Backed(page.shown)'
  BY <1>1, DataKeep, Unchanged
<1>3. FreshInv' /\ NothingAfterSession'
  BY <1>1, EndedTyped, FreshKeeps
<1>4. PlayInv' /\ ShowsOwnCommands'
  <2>1. CASE flows[f].live
    <3>1. \A g \in Flow : ~ Playing(g)
      BY <2>1, OthersCalm
    <3>2. ~ Playing(f)'
      BY <1>1, EndedTyped DEF Playing
    <3> QED BY <1>1, <3>1, <3>2, CalmActs
  <2>2. CASE ~ flows[f].live
    BY <1>1, <2>2, EndedTyped, StaleActs
  <2> QED BY <2>1, <2>2
<1>5. BusyInv'
  BY <1>1, BusyKeeps
<1> QED BY <1>2, <1>3, <1>4, <1>5 DEF PageInv

\* A flow that plays no scenario sends its next request.
LEMMA Continued ==
    ASSUME PageInv, NEW f \in Flow, ~ Playing(f),
           NEW r \in Draft, NEW pc \in Await, flows' = Send(flows, f, r, pc, cookie'),
           Fits(r, pc), Backed(r.wrote),
           r.kind = flows[f].kind, r.live = flows[f].live, flows[f].failed => r.failed,
           pc = "refresh" => r.live,
           UNCHANGED <<gate, serverVars>>, cookie' \in 0..MaxSessions, cookie' = 0 => cookie = 0,
           page' \in PageRecord, page'.playback = page.playback, page'.manual = page.manual,
           page'.clearing = page.clearing,
           \/ page'.shown = page.shown
           \/ flows[f].fresh /\ flows[f].pc = "refresh" /\ page'.shown = flows[f].got
    PROVE  PageInv'
<1>1. Acts(f) /\ Sent(flows'[f], r, pc, cookie')
  <2>1. PICK c \in 0..MaxSessions : c = cookie'
    OBVIOUS
  <2> QED BY <2>1, SendActs, Acting
<1>2. TypeOK' /\ (\A g \in Flow : FlowInv(flows[g])') /\ Backed(page.shown)'
  <2>1. /\ gate' \in 0..MaxFlows /\ created' \in 0..MaxSessions
        /\ alive' \subseteq 1..created' /\ saved' \in [Session -> 0..MaxSaved] /\ Endures
    BY Unserved DEF PageInv, TypeOK, serverVars
  <2> QED BY <1>1, <2>1, DataKeep
<1>3. FreshInv' /\ NothingAfterSession'
  BY <1>1, FreshKeeps DEF Sent
<1>4. PlayInv' /\ ShowsOwnCommands'
  <2>1. CASE flows[f].live
    <3>1. \A g \in Flow : ~ Playing(g)
      BY <2>1, OthersCalm
    <3>2. ~ Playing(f)'
      BY <1>1, <2>1 DEF Playing, Sent
    <3> QED BY <1>1, <3>1, <3>2, CalmActs
  <2>2. CASE ~ flows[f].live
    BY <1>1, <2>2, StaleActs DEF Sent
  <2> QED BY <2>1, <2>2
<1>5. BusyInv'
  <2>1. flows'[f].kind = flows[f].kind /\ flows'[f].live = flows[f].live
    BY <1>1 DEF Sent
  <2> QED BY <1>1, <2>1, BusyKeeps
<1> QED BY <1>2, <1>3, <1>4, <1>5 DEF PageInv

\* The flow of the scenario that is played sends its next request.
LEMMA PlayContinued ==
    ASSUME PageInv, NEW f \in Flow, Playing(f), flows[f].pc # "gate",
           NEW r \in Draft, NEW pc \in Await, flows' = Send(flows, f, r, pc, cookie'),
           Fits(r, pc), Backed(r.wrote), r.kind = "play", r.live, ~ r.failed,
           UNCHANGED <<gate, serverVars>>, cookie' \in 0..MaxSessions, cookie' = 0 => cookie = 0,
           page' \in PageRecord, page'.playback = page.playback, page'.manual = page.manual,
           page'.clearing = page.clearing, page'.shown = page.shown
    PROVE  PageInv'
<1>1. Acts(f) /\ Sent(flows'[f], r, pc, cookie')
  <2>1. PICK c \in 0..MaxSessions : c = cookie'
    OBVIOUS
  <2> QED BY <2>1, SendActs, Acting
<1>2. TypeOK' /\ (\A g \in Flow : FlowInv(flows[g])') /\ Backed(page.shown)'
  <2>1. /\ gate' \in 0..MaxFlows /\ created' \in 0..MaxSessions
        /\ alive' \subseteq 1..created' /\ saved' \in [Session -> 0..MaxSaved] /\ Endures
    BY Unserved DEF PageInv, TypeOK, serverVars
  <2> QED BY <1>1, <2>1, DataKeep
<1>3. FreshInv' /\ NothingAfterSession'
  BY <1>1, FreshKeeps DEF Sent
<1>4. PlayInv' /\ ShowsOwnCommands'
  <2>1. Playing(f)' /\ flows'[f].pc = pc /\ flows'[f].fresh = (pc = "refresh") /\ flows'[f].answer # "ok"
    BY <1>1 DEF Sent, Playing
  <2>2. pc # "gate"
    BY DEF Fits
  <2>3. gate' = 0 /\ page'.playback = "running"
    BY PlayingAlone
  <2> QED BY <1>1, <2>1, <2>2, <2>3, PlayActs
<1>5. BusyInv'
  <2>1. flows'[f].kind = flows[f].kind /\ flows'[f].live = flows[f].live
    BY <1>1 DEF Sent, Playing
  <2> QED BY <1>1, <2>1, BusyKeeps
<1> QED BY <1>2, <1>3, <1>4, <1>5 DEF PageInv

\* The flow of the scenario that is played goes on with the next step.
LEMMA PlayStepped ==
    ASSUME PageInv, NEW f \in Flow, Playing(f),
           flows' = NextStep(flows, f, cookie), UNCHANGED <<cookie, serverVars>>, gate' = 0,
           page' \in PageRecord, page'.playback = "running", page'.manual = page.manual,
           page'.clearing = page.clearing,
           \/ page'.shown = page.shown
           \/ flows[f].fresh /\ flows[f].pc = "refresh" /\ page'.shown = flows[f].got
    PROVE  PageInv'
<1>1. /\ Acts(f)
      /\ flows'[f].kind = "play" /\ flows'[f].live /\ ~ flows'[f].failed
      /\ flows'[f].pc \in {"command", "summary"} /\ ~ flows'[f].fresh
  BY NextStepActs, Acting DEF Playing
<1>2. TypeOK' /\ (\A g \in Flow : FlowInv(flows[g])') /\ Backed(page.shown)'
  <2>1. /\ gate' \in 0..MaxFlows /\ created' \in 0..MaxSessions /\ cookie' \in 0..MaxSessions
        /\ alive' \subseteq 1..created' /\ saved' \in [Session -> 0..MaxSaved] /\ Endures
    BY Unserved, ControllerAssumption DEF PageInv, TypeOK, serverVars
  <2> QED BY <1>1, <2>1, DataKeep
<1>3. FreshInv' /\ NothingAfterSession'
  BY <1>1, FreshKeeps
<1>4. PlayInv' /\ ShowsOwnCommands'
  BY <1>1, PlayActs DEF Playing
<1>5. BusyInv'
  <2>1. flows'[f].kind = flows[f].kind /\ flows'[f].live = flows[f].live
    BY <1>1 DEF Playing
  <2> QED BY <1>1, <2>1, BusyKeeps
<1> QED BY <1>2, <1>3, <1>4, <1>5 DEF PageInv

\* The flow of the scenario that is played comes to its end.
LEMMA PlayFinished ==
    ASSUME PageInv, NEW f \in Flow, Playing(f), flows[f].pc # "gate", flows' = Finish(flows, f),
           UNCHANGED <<gate, cookie, serverVars>>,
           page' \in PageRecord, page'.playback = "over", page'.shown = page.shown,
           page'.manual = page.manual, page'.clearing = page.clearing
    PROVE  PageInv'
<1>1. Acts(f) /\ flows'[f] = Ended
  BY FinishActs, Acting DEF serverVars
<1>2. TypeOK' /\ (\A g \in Flow : FlowInv(flows[g])') /\ Backed(page.shown)'
  BY <1>1, DataKeep, Unchanged
<1>3. FreshInv' /\ NothingAfterSession'
  BY <1>1, EndedTyped, FreshKeeps
<1>4. PlayInv' /\ ShowsOwnCommands'
  BY <1>1, EndedTyped, PlayFails DEF Playing
<1>5. BusyInv'
  BY <1>1, BusyKeeps DEF Playing
<1> QED BY <1>2, <1>3, <1>4, <1>5 DEF PageInv

LEMMA FailKeeps ==
    ASSUME PageInv, NEW f \in Flow, flows[f].answer # "none", Fail(f),
           UNCHANGED <<gate, cookie, serverVars>>
    PROVE  PageInv' /\ page'.shown = page.shown
<1> DEFINE again == flows[f].live /\ ~ flows[f].failed /\ flows[f].kind \in {"play", "manual"}
<1>0. flows[f].kind # "none" /\ flows[f].pc \notin {"gate", "sleep"}
  BY Acting DEF Shape
<1>1. CASE again
  <2>1. PICK r : r = [flows[f] EXCEPT !.failed = TRUE]
    OBVIOUS
  <2>2. /\ r \in Draft /\ r.kind = flows[f].kind /\ r.live = flows[f].live /\ r.failed
        /\ r.wrote = flows[f].wrote
    BY <2>1, Acting DEF Draft
  <2>3. Fits(r, "refresh")
    BY <1>1, <2>2 DEF Fits
  <2>4. /\ flows' = Send(flows, f, r, "refresh", cookie)
        /\ page' = [page EXCEPT !.dialog = "notice",
                                !.playback = IF flows[f].kind = "play" THEN "over" ELSE page.playback]
    BY <1>1, <2>1 DEF Fail
  <2>5. /\ page' \in PageRecord /\ page'.shown = page.shown /\ page'.manual = page.manual
        /\ page'.clearing = page.clearing
        /\ page'.playback = IF flows[f].kind = "play" THEN "over" ELSE page.playback
    BY <2>4, Acting DEF PageRecord
  <2>6. "refresh" \in Await /\ Backed(r.wrote)
    BY <2>2, Acting DEF Await
  <2>7. CASE flows[f].kind = "manual"
    BY <2>2, <2>3, <2>4, <2>5, <2>6, <2>7, <1>1, Continued, Acting DEF Playing
  <2>8. CASE flows[f].kind = "play"
    <3>1. Acts(f) /\ Sent(flows'[f], r, "refresh", cookie)
      <4>1. PICK c \in 0..MaxSessions : c = cookie
        BY Acting
      <4> QED BY <2>2, <2>3, <2>4, <2>6, <4>1, SendActs, Acting DEF serverVars
    <3>2. TypeOK' /\ (\A g \in Flow : FlowInv(flows[g])') /\ Backed(page.shown)'
      BY <2>5, <3>1, DataKeep, Unchanged
    <3>3. FreshInv' /\ NothingAfterSession'
      BY <2>5, <3>1, FreshKeeps DEF Sent
    <3>4. PlayInv' /\ ShowsOwnCommands'
      BY <1>0, <1>1, <2>2, <2>5, <2>8, <3>1, PlayFails DEF Sent, Playing
    <3>5. BusyInv'
      BY <2>2, <2>5, <2>8, <3>1, BusyKeeps
    <3> QED BY <2>5, <3>2, <3>3, <3>4, <3>5 DEF PageInv
  <2> QED BY <1>1, <2>5, <2>7, <2>8
<1>2. CASE ~ again
  <2>1. ~ Playing(f)
    BY <1>2 DEF Playing
  <2>2. /\ flows' = Finish(flows, f)
        /\ page' = CASE flows[f].kind = "clear" -> [page EXCEPT !.clearing = FALSE, !.dialog = "notice"]
                     [] flows[f].kind = "load" /\ flows[f].live -> [page EXCEPT !.dialog = "notice"]
                     [] flows[f].kind = "manual" /\ flows[f].live -> [page EXCEPT !.manual = "open"]
                     [] OTHER -> page
    BY <1>2 DEF Fail
  <2>3. /\ page' \in PageRecord /\ page'.playback = page.playback /\ page'.shown = page.shown
        /\ page'.manual = page.manual \/ (flows[f].live /\ page'.manual = "open")
        /\ flows[f].kind = "manual" /\ flows[f].live => page'.manual # "busy"
        /\ page'.clearing => page.clearing /\ flows[f].kind # "clear"
    BY <2>2, Acting DEF PageRecord
  <2> QED BY <2>1, <2>2, <2>3, Finished
<1> QED BY <1>1, <1>2

\* What a flow rests in: the gate, or the delay between two steps.
LEMMA RestActs ==
    ASSUME PageInv, NEW f \in Flow, Playing(f), flows[f].pc = "refresh", NEW pc \in {"gate", "sleep"},
           flows' = Rest(flows, f, pc),
           UNCHANGED serverVars
    PROVE  /\ Acts(f) /\ Playing(f)' /\ flows'[f].pc = pc /\ flows'[f].fresh /\ flows[f].fresh
           /\ flows'[f].sent = 0 /\ flows'[f].wrote = flows[f].wrote
<1>1. flows \in [Flow -> FlowRecord] /\ 0 \in 0..MaxSessions
  BY ControllerAssumption DEF PageInv, TypeOK
<1>2. PICK q : q = [flows[f] EXCEPT !.pc = pc, !.sent = 0, !.answer = "none", !.got = Nothing]
  OBVIOUS
<1>3. /\ q \in FlowRecord /\ q.pc = pc /\ q.sent = 0 /\ q.answer = "none" /\ q.got = Nothing
      /\ q.kind = flows[f].kind /\ q.live = flows[f].live /\ q.fresh = flows[f].fresh
      /\ q.failed = flows[f].failed /\ q.wrote = flows[f].wrote
  BY <1>1, <1>2, NothingTyped DEF FlowRecord
<1>4. flows' = [flows EXCEPT ![f] = q]
  BY <1>2 DEF Rest
<1>5. flows' \in [Flow -> FlowRecord] /\ flows'[f] = q /\ \A g \in Flow \ {f} : flows'[g] = flows[g]
  BY <1>1, <1>3, <1>4
<1>6. flows[f].fresh
  BY PlayingAlone
<1>7. Shape(q)
  BY <1>3 DEF Shape, Playing
<1>8. Backed(flows[f].got)' /\ Backed(flows[f].wrote)'
  BY <1>3, <1>5, Acting, NothingBacked DEF Backed, serverVars
<1>9. \A g \in Flow \ {f} : Keeps(flows'[g], flows[g])
  BY <1>1, <1>5, SameKeeps
<1> QED BY <1>3, <1>5, <1>6, <1>7, <1>8, <1>9 DEF Acts, FlowInv, Playing

LEMMA PlayRests ==
    ASSUME PageInv, NEW f \in Flow, Playing(f), flows[f].pc = "refresh", flows[f].answer = "ok",
           NEW pc \in {"gate", "sleep"},
           flows' = Rest(flows, f, pc),
           UNCHANGED <<cookie, serverVars>>,
           page' \in PageRecord, page'.manual = page.manual, page'.clearing = page.clearing,
           page'.shown = flows[f].got,
           \/ pc = "gate" /\ gate' = f /\ page'.playback \in {"waiting", "paused"}
           \/ pc = "sleep" /\ gate' = gate /\ page'.playback = page.playback
    PROVE  PageInv'
<1>1. /\ Acts(f) /\ Playing(f)' /\ flows'[f].pc = pc /\ flows'[f].fresh /\ flows[f].fresh
      /\ flows'[f].sent = 0 /\ flows'[f].wrote = flows[f].wrote
  BY RestActs DEF serverVars
<1>2. TypeOK' /\ (\A g \in Flow : FlowInv(flows[g])') /\ Backed(page.shown)'
  <2>1. /\ created' \in 0..MaxSessions /\ cookie' \in 0..MaxSessions
        /\ alive' \subseteq 1..created' /\ saved' \in [Session -> 0..MaxSaved] /\ Endures
    BY Unserved DEF PageInv, TypeOK, serverVars
  <2>2. gate' \in 0..MaxFlows
    BY ControllerAssumption DEF PageInv, TypeOK, Flow
  <2> QED BY <1>1, <2>1, <2>2, DataKeep
<1>3. FreshInv' /\ NothingAfterSession'
  BY <1>1, FreshKeeps
<1>4. PlayInv' /\ ShowsOwnCommands'
  <2>1. page'.shown.of = flows'[f].wrote.of => page'.shown.at >= flows'[f].wrote.at
    BY <1>1, Acting DEF PageInv, PlayInv, Reads
  <2>2. gate = 0 /\ page.playback = "running"
    BY PlayingAlone
  <2> QED BY <1>1, <2>1, <2>2, PlayActs
<1>5. BusyInv'
  <2>1. flows'[f].kind = flows[f].kind /\ flows'[f].live = flows[f].live
    BY <1>1 DEF Playing
  <2> QED BY <1>1, <2>1, BusyKeeps
<1> QED BY <1>2, <1>3, <1>4, <1>5 DEF PageInv

\* Of one session, the data never go back.
Forward == page'.shown.of # 0 /\ page'.shown.of = page.shown.of => page'.shown.at >= page.shown.at

LEMMA SameForward ==
    ASSUME PageInv, page'.shown = page.shown
    PROVE  Forward
BY DEF PageInv, TypeOK, PageRecord, Reads, Forward

LEMMA ReadForward ==
    ASSUME PageInv, NEW f \in Flow, flows[f].pc = "refresh", flows[f].answer = "ok", flows[f].fresh,
           page'.shown = flows[f].got
    PROVE  Forward
BY Acting DEF PageInv, FreshInv, Forward, TypeOK, PageRecord, Reads

LEMMA CurrentReadKeeps ==
    ASSUME PageInv, NEW f \in Flow, CurrentRead(f)
    PROVE  PageInv' /\ Forward
<1>1. flows[f].kind = "load" /\ flows[f].pc = "current" /\ ~ Playing(f) /\ ~ flows[f].failed
  BY Acting DEF CurrentRead, Arrived, Shape, FlowRecord, Playing
<1>2. CASE flows[f].live
  <2>1. flows' = Send(flows, f, flows[f], "refresh", cookie) /\ UNCHANGED <<gate, cookie, serverVars>>
    BY <1>2 DEF CurrentRead
  <2>2. PICK s : s = flows[f].got.of
    OBVIOUS
  <2>3. page' = [page EXCEPT !.session = s]
    BY <1>2, <2>2 DEF CurrentRead
  <2>4. /\ page' \in PageRecord /\ page'.shown = page.shown /\ page'.manual = page.manual
        /\ page'.clearing = page.clearing /\ page'.playback = page.playback
    BY <2>2, <2>3, Acting DEF PageRecord
  <2>5. Fits(flows[f], "refresh") /\ "refresh" \in Await
    BY <1>1 DEF Fits, Await
  <2> QED BY <1>1, <1>2, <2>1, <2>4, <2>5, Acting, Continued, SameForward
<1>3. CASE ~ flows[f].live
  BY <1>1, <1>3, Finished, Acting, SameForward DEF CurrentRead
<1> QED BY <1>2, <1>3

LEMMA SessionOpenedKeeps ==
    ASSUME PageInv, NEW f \in Flow, SessionOpened(f)
    PROVE  PageInv' /\ Forward
<1>1. /\ flows[f].kind \in {"play", "manual"} /\ flows[f].pc = "session" /\ ~ flows[f].failed
      /\ flows[f].answer = "ok" /\ flows[f].got.of # 0
  BY Acting DEF SessionOpened, Arrived, Shape, FlowRecord
<1>2. /\ flows' = Send(flows, f, flows[f], "workflow", cookie') /\ UNCHANGED <<gate, serverVars>>
      /\ cookie' \in 0..MaxSessions /\ (cookie' = 0 => cookie = 0)
  BY <1>1, Acting DEF SessionOpened
<1>3. PICK s : s = flows[f].got.of
  OBVIOUS
<1>4. page' = [page EXCEPT !.session = s]
  BY <1>3 DEF SessionOpened
<1>5. /\ page' \in PageRecord /\ page'.shown = page.shown /\ page'.manual = page.manual
      /\ page'.clearing = page.clearing /\ page'.playback = page.playback
  BY <1>3, <1>4, Acting DEF PageRecord
<1>6. Fits(flows[f], "workflow") /\ "workflow" \in Await
  BY <1>1, Acting DEF Fits, Await, Shape
<1>7. CASE Playing(f)
  BY <1>1, <1>2, <1>5, <1>6, <1>7, Acting, PlayContinued, SameForward DEF Playing
<1>8. CASE ~ Playing(f)
  BY <1>1, <1>2, <1>5, <1>6, <1>8, Acting, Continued, SameForward
<1> QED BY <1>7, <1>8

LEMMA WorkflowReadKeeps ==
    ASSUME PageInv, NEW f \in Flow, WorkflowRead(f)
    PROVE  PageInv' /\ Forward
<1>0. page' = page /\ gate' = gate /\ cookie' = cookie /\ UNCHANGED serverVars
  BY DEF WorkflowRead, pageVars
<1>1. flows[f].kind \in {"load", "play", "manual"} /\ flows[f].pc = "workflow" /\ ~ flows[f].failed
  BY Acting DEF WorkflowRead, Arrived, Shape, FlowRecord
<1>2. CASE flows[f].kind = "load" \/ ~ flows[f].live
  <2>1. flows' = Finish(flows, f)
    BY <1>2 DEF WorkflowRead
  <2>2. ~ Playing(f) /\ ~ (flows[f].kind = "manual" /\ flows[f].live)
    BY <1>2 DEF Playing
  <2> QED BY <1>0, <1>1, <2>1, <2>2, Acting, Finished, SameForward
<1>3. CASE flows[f].kind = "play" /\ flows[f].live
  <2>1. flows' = Send(flows, f, flows[f], "refresh", cookie')
    BY <1>0, <1>3 DEF WorkflowRead
  <2>2. Fits(flows[f], "refresh") /\ "refresh" \in Await /\ Playing(f)
    BY <1>1, <1>3 DEF Fits, Await, Playing
  <2> QED BY <1>0, <1>1, <1>3, <2>1, <2>2, Acting, PlayContinued, SameForward
<1>4. CASE flows[f].kind = "manual" /\ flows[f].live
  <2>1. flows' = Send(flows, f, flows[f], "command", cookie')
    BY <1>0, <1>4 DEF WorkflowRead
  <2>2. "command" \in Await /\ ~ Playing(f)
    BY <1>4 DEF Await, Playing
  <2>3. Fits(flows[f], "command")
    BY <1>1, <1>4, Acting DEF Fits, Shape
  <2> QED BY <1>0, <1>1, <1>4, <2>1, <2>2, <2>3, Acting, Continued, SameForward
<1> QED BY <1>1, <1>2, <1>3, <1>4

LEMMA RefreshReadKeeps ==
    ASSUME PageInv, NEW f \in Flow, RefreshRead(f)
    PROVE  PageInv' /\ Forward
<1>0. /\ flows[f].pc = "refresh" /\ flows[f].answer = "ok" /\ cookie' = cookie /\ UNCHANGED serverVars
      /\ flows[f].kind \in {"load", "play", "manual"}
  BY Acting DEF RefreshRead, Arrived, Shape, FlowRecord
<1>1. PICK v : v = Shown(f)
  OBVIOUS
<1>2. v \in Reads /\ (v = page.shown \/ (flows[f].fresh /\ v = flows[f].got))
  BY <1>1, Acting DEF Shown, PageRecord
<1>3. page'.shown = v => Forward
  BY <1>0, <1>2, SameForward, ReadForward
<1>4. CASE Playing(f)
  <2>1. /\ flows[f].fresh /\ v = flows[f].got /\ page.playback = "running" /\ gate = 0
        /\ page.manual = "closed"
    BY <1>0, <1>1, <1>4, PlayingAlone DEF Shown
  <2>2. BetweenSteps(f, v)
    BY <1>1, <1>4 DEF RefreshRead, Playing
  <2>3. PICK stepwise \in BOOLEAN : stepwise = flows[f].stepwise
    BY Acting DEF FlowRecord
  <2>4. CASE flows[f].step > 0 /\ Plan[flows[f].step].pause
    <3>1. /\ page' = [page EXCEPT !.shown = v, !.dialog = "pause", !.playback = "paused"]
          /\ gate' = f /\ flows' = Rest(flows, f, "gate")
      BY <2>2, <2>4 DEF BetweenSteps
    <3>2. /\ page' \in PageRecord /\ page'.shown = v /\ page'.playback = "paused"
          /\ page'.manual = page.manual /\ page'.clearing = page.clearing
      BY <1>2, <3>1, Acting DEF PageRecord
    <3> QED BY <1>0, <1>3, <1>4, <2>1, <3>1, <3>2, PlayRests
  <2>5. CASE ~ (flows[f].step > 0 /\ Plan[flows[f].step].pause)
             /\ (flows[f].step = 0 \/ flows[f].step = Len(Plan))
    <3>1. /\ page' = [page EXCEPT !.shown = v] /\ gate' = gate /\ flows' = NextStep(flows, f, cookie)
      BY <2>2, <2>5 DEF BetweenSteps
    <3>2. /\ page' \in PageRecord /\ page'.shown = v /\ page'.playback = page.playback
          /\ page'.manual = page.manual /\ page'.clearing = page.clearing
      BY <1>2, <3>1, Acting DEF PageRecord
    <3> QED BY <1>0, <1>3, <1>4, <2>1, <3>1, <3>2, PlayStepped
  <2>6. CASE ~ (flows[f].step > 0 /\ Plan[flows[f].step].pause)
             /\ ~ (flows[f].step = 0 \/ flows[f].step = Len(Plan))
    <3>1. /\ page' = [page EXCEPT !.shown = v,
                                  !.playback = IF stepwise THEN "waiting" ELSE page.playback]
          /\ gate' = (IF stepwise THEN f ELSE gate)
          /\ flows' = Rest(flows, f, IF stepwise THEN "gate" ELSE "sleep")
      BY <2>2, <2>3, <2>6 DEF BetweenSteps
    <3>2. /\ page' \in PageRecord /\ page'.shown = v
          /\ page'.playback = IF stepwise THEN "waiting" ELSE page.playback
          /\ page'.manual = page.manual /\ page'.clearing = page.clearing
      BY <1>2, <3>1, Acting DEF PageRecord
    <3>3. CASE stepwise
      BY <1>0, <1>3, <1>4, <2>1, <3>1, <3>2, <3>3, PlayRests
    <3>4. CASE ~ stepwise
      BY <1>0, <1>3, <1>4, <2>1, <3>1, <3>2, <3>4, PlayRests
    <3> QED BY <3>3, <3>4
  <2> QED BY <2>4, <2>5, <2>6
<1>5. CASE ~ Playing(f)
  <2> DEFINE opened == flows[f].kind = "manual" /\ flows[f].live
  <2>1. /\ page' = [page EXCEPT !.shown = v, !.manual = IF opened THEN "open" ELSE page.manual]
        /\ flows' = (IF flows[f].kind = "load" /\ flows[f].live
                     THEN Send(flows, f, flows[f], "workflow", cookie) ELSE Finish(flows, f))
        /\ gate' = gate
    BY <1>1, <1>5 DEF RefreshRead, Playing
  <2>2. /\ page' \in PageRecord /\ page'.shown = v /\ page'.playback = page.playback
        /\ page'.manual = (IF opened THEN "open" ELSE page.manual) /\ page'.clearing = page.clearing
    BY <1>2, <2>1, Acting DEF PageRecord
  <2>3. \/ page'.shown = page.shown
        \/ flows[f].fresh /\ flows[f].pc = "refresh" /\ page'.shown = flows[f].got
    BY <1>0, <1>2, <2>2
  <2>4. CASE flows[f].kind = "load" /\ flows[f].live
    <3>1. flows' = Send(flows, f, flows[f], "workflow", cookie')
      BY <1>0, <2>1, <2>4
    <3>2. ~ flows[f].failed
      BY <2>4, Acting DEF Shape
    <3>3. Fits(flows[f], "workflow") /\ "workflow" \in Await
      BY <2>4, <3>2 DEF Fits, Await
    <3> QED BY <1>0, <1>3, <1>5, <2>1, <2>2, <2>3, <2>4, <3>1, <3>3, Acting, Continued
  <2>5. CASE ~ (flows[f].kind = "load" /\ flows[f].live)
    <3>1. flows' = Finish(flows, f)
      BY <2>1, <2>5
    <3> QED BY <1>0, <1>3, <1>5, <2>1, <2>2, <2>3, <3>1, Finished
  <2> QED BY <2>4, <2>5
<1> QED BY <1>4, <1>5

LEMMA DelayOverKeeps ==
    ASSUME PageInv, NEW f \in Flow, DelayOver(f)
    PROVE  PageInv' /\ Forward
<1>1. /\ flows[f].kind = "play" /\ ~ flows[f].failed /\ flows[f].pc = "sleep"
      /\ page' = page /\ gate' = gate /\ cookie' = cookie /\ UNCHANGED serverVars
  BY Acting DEF DelayOver, Shape, FlowRecord, pageVars
<1>2. CASE flows[f].live
  <2>1. Playing(f) /\ flows' = NextStep(flows, f, cookie)
    BY <1>1, <1>2 DEF Playing, DelayOver
  <2>2. gate = 0 /\ page.playback = "running"
    BY <1>1, <2>1, PlayingAlone
  <2> QED BY <1>1, <2>1, <2>2, Acting, PlayStepped, SameForward
<1>3. CASE ~ flows[f].live
  <2>1. ~ Playing(f) /\ flows' = Finish(flows, f)
    BY <1>1, <1>3 DEF Playing, DelayOver
  <2> QED BY <1>1, <1>3, <2>1, Acting, Finished, SameForward
<1> QED BY <1>2, <1>3

LEMMA CommandSavedKeeps ==
    ASSUME PageInv, NEW f \in Flow, CommandSaved(f)
    PROVE  PageInv' /\ Forward
<1>1. /\ flows[f].kind \in {"play", "manual"} /\ ~ flows[f].failed /\ flows[f].pc = "command"
      /\ page' = page /\ gate' = gate /\ cookie' = cookie /\ UNCHANGED serverVars /\ flows[f].left > 0
  BY Acting DEF CommandSaved, Arrived, Shape, FlowRecord, pageVars
<1>2. PICK n \in Nat : n = flows[f].left - 1
  BY <1>1, Acting DEF FlowRecord
<1>3. PICK w \in Reads : /\ w = IF flows[f].kind = "play" THEN flows[f].got ELSE Nothing
                         /\ Backed(w)
  BY Acting, NothingTyped, NothingBacked
<1>4. PICK r : r = [flows[f] EXCEPT !.left = n, !.wrote = w]
  OBVIOUS
<1>5. /\ r \in Draft /\ r.kind = flows[f].kind /\ r.live = flows[f].live /\ r.left = n /\ ~ r.failed
      /\ r.wrote = w
  BY <1>1, <1>4, Acting DEF Draft
<1>6. flows' = (IF r.left > 0 THEN Send(flows, f, r, "command", cookie)
                ELSE IF r.live THEN Send(flows, f, r, "refresh", cookie)
                ELSE Finish(flows, f))
  BY <1>2, <1>3, <1>4, Zenon DEF CommandSaved
<1>7. {"command", "refresh"} \subseteq Await
  BY DEF Await
<1>8. CASE r.left > 0
  <2>1. Fits(r, "command") /\ flows' = Send(flows, f, r, "command", cookie')
    BY <1>1, <1>5, <1>6, <1>8 DEF Fits
  <2>2. CASE Playing(f)
    BY <1>1, <1>3, <1>5, <1>7, <2>1, <2>2, Acting, PlayContinued, SameForward DEF Playing
  <2>3. CASE ~ Playing(f)
    BY <1>1, <1>3, <1>5, <1>7, <2>1, <2>3, Acting, Continued, SameForward
  <2> QED BY <2>2, <2>3
<1>9. CASE ~ (r.left > 0) /\ r.live
  <2>1. Fits(r, "refresh") /\ flows' = Send(flows, f, r, "refresh", cookie')
    BY <1>1, <1>5, <1>6, <1>9 DEF Fits
  <2>2. CASE Playing(f)
    BY <1>1, <1>3, <1>5, <1>7, <1>9, <2>1, <2>2, Acting, PlayContinued, SameForward DEF Playing
  <2>3. CASE ~ Playing(f)
    BY <1>1, <1>3, <1>5, <1>7, <1>9, <2>1, <2>3, Acting, Continued, SameForward
  <2> QED BY <2>2, <2>3
<1>10. CASE ~ (r.left > 0) /\ ~ r.live
  <2>1. ~ Playing(f) /\ flows' = Finish(flows, f) /\ ~ flows[f].live
    BY <1>5, <1>6, <1>10 DEF Playing
  <2> QED BY <1>1, <2>1, Acting, Finished, SameForward
<1> QED BY <1>8, <1>9, <1>10

LEMMA SummaryReadKeeps ==
    ASSUME PageInv, NEW f \in Flow, SummaryRead(f)
    PROVE  PageInv' /\ Forward
<1>1. /\ flows[f].kind = "play" /\ ~ flows[f].failed /\ flows[f].pc = "summary"
      /\ flows' = Finish(flows, f) /\ UNCHANGED <<gate, cookie, serverVars>>
  BY Acting DEF SummaryRead, Arrived, Shape, FlowRecord
<1>2. CASE flows[f].live
  <2>1. page' = [page EXCEPT !.playback = "over", !.dialog = "notice"]
    BY <1>2 DEF SummaryRead
  <2>2. /\ page' \in PageRecord /\ page'.playback = "over" /\ page'.shown = page.shown
        /\ page'.manual = page.manual /\ page'.clearing = page.clearing
    BY <2>1, Acting DEF PageRecord
  <2> QED BY <1>1, <1>2, <2>2, PlayFinished, SameForward DEF Playing
<1>3. CASE ~ flows[f].live
  <2>1. page' = page /\ ~ Playing(f)
    BY <1>3 DEF SummaryRead, Playing
  <2> QED BY <1>1, <1>3, <2>1, Acting, Finished, SameForward
<1> QED BY <1>2, <1>3

LEMMA RefusedKeeps ==
    ASSUME PageInv, NEW f \in Flow, Refused(f) \/ Mismatch(f)
    PROVE  PageInv' /\ Forward
<1>1. flows[f].answer # "none" /\ Fail(f) /\ UNCHANGED <<gate, cookie, serverVars>>
  BY DEF Refused, Mismatch, Arrived, InFlight
<1> QED BY <1>1, FailKeeps, SameForward

----------------------------------------------------------------------------
(* The server answers *)

LEMMA AnswerKeeps ==
    ASSUME PageInv, NEW f \in Flow, InFlight(f), NEW a \in {"ok", "lost"}, NEW v \in Reads,
           Answer(f, a, v), Backed(v)', Endures, UNCHANGED pageVars,
           created' \in 0..MaxSessions, alive' \subseteq 1..created',
           saved' \in [Session -> 0..MaxSaved],
           a = "ok" /\ flows[f].pc = "session" => v.of # 0,
           flows[f].pc = "refresh" /\ flows[f].sent = 0 => v = Nothing,
           flows[f].pc = "refresh" /\ a = "ok" =>
              \A w \in Reads : Backed(w) /\ w.of = v.of => w.at <= v.at
    PROVE  PageInv' /\ Forward
<1>1. flows \in [Flow -> FlowRecord] /\ page' = page /\ gate' = gate /\ cookie' = cookie
  BY DEF PageInv, TypeOK, pageVars
<1>2. PICK q : q = [flows[f] EXCEPT !.answer = a, !.got = v]
  OBVIOUS
<1>3. /\ q \in FlowRecord /\ q.kind = flows[f].kind /\ q.pc = flows[f].pc /\ q.live = flows[f].live
      /\ q.fresh = flows[f].fresh /\ q.sent = flows[f].sent /\ q.left = flows[f].left
      /\ q.failed = flows[f].failed /\ q.wrote = flows[f].wrote /\ q.answer = a /\ q.got = v
  BY <1>1, <1>2 DEF FlowRecord
<1>4. flows' = [flows EXCEPT ![f] = q]
  BY <1>2 DEF Answer
<1>5. flows' \in [Flow -> FlowRecord] /\ flows'[f] = q /\ \A g \in Flow \ {f} : flows'[g] = flows[g]
  BY <1>1, <1>3, <1>4
<1>6. flows[f].kind # "none" /\ flows[f].pc \notin {"gate", "sleep"}
  BY Acting DEF InFlight, Shape
<1>7. FlowInv(flows[f])'
  <2>1. Shape(q)
    BY <1>3, <1>6, Acting DEF Shape
  <2>2. Backed(flows[f].got)'
    BY <1>3, <1>5 DEF Backed
  <2>3. Backed(flows[f].wrote)'
    BY <1>3, <1>5, Acting DEF Backed, Endures
  <2> QED BY <1>5, <2>1, <2>2, <2>3 DEF FlowInv
<1>8. Acts(f)
  BY <1>1, <1>3, <1>5, <1>7, SameKeeps DEF Acts
<1>9. TypeOK' /\ (\A g \in Flow : FlowInv(flows[g])') /\ Backed(page.shown)'
  BY <1>1, <1>8, Acting, DataKeep DEF PageInv, TypeOK
<1>10. FreshInv'
  <2>1. \A g \in Flow : flows'[g].fresh = flows[g].fresh /\ flows'[g].sent = flows[g].sent
    BY <1>3, <1>5
  <2>2. ASSUME NEW g \in Flow, flows'[g].fresh, flows'[g].pc = "refresh", flows'[g].answer = "ok",
               flows'[g].got.of = page.shown.of
        PROVE  page.shown.at <= flows'[g].got.at
    <3>1. CASE g = f
      <4>1. page.shown \in Reads /\ Backed(page.shown)
        BY DEF PageInv, TypeOK, PageRecord
      <4> QED BY <1>3, <1>5, <2>2, <3>1, <4>1
    <3>2. CASE g # f
      BY <1>5, <2>2, <3>2 DEF PageInv, FreshInv
    <3> QED BY <3>1, <3>2
  <2> QED BY <1>1, <2>1, <2>2 DEF PageInv, FreshInv
<1>11. NothingAfterSession'
  BY <1>1 DEF PageInv, NothingAfterSession
<1>12. \A g \in Flow : /\ Playing(g)' <=> Playing(g)
                       /\ flows'[g].live = flows[g].live /\ flows'[g].fresh = flows[g].fresh
                       /\ flows'[g].pc = flows[g].pc /\ flows'[g].wrote = flows[g].wrote
                       /\ flows'[g].kind = flows[g].kind
  BY <1>3, <1>5 DEF Playing
<1>13. PlayInv'
  <2>1. ASSUME NEW g \in Flow, Playing(g)',
               flows'[g].pc = "refresh", flows'[g].answer = "ok", flows'[g].got.of = flows'[g].wrote.of
        PROVE  flows'[g].wrote.at <= flows'[g].got.at
    <3>1. CASE g = f
      BY <1>3, <1>5, <2>1, <3>1, Acting
    <3>2. CASE g # f
      BY <1>5, <1>12, <2>1, <3>2 DEF PageInv, PlayInv
    <3> QED BY <3>1, <3>2
  <2>2. ASSUME NEW g \in Flow, Playing(g)'
        PROVE  /\ Active'
               /\ \A h \in Flow \ {g} : ~ flows'[h].live
               /\ flows'[g].pc \in {"refresh", "gate"} => flows'[g].fresh
    BY <1>1, <1>12, <2>2 DEF PageInv, PlayInv, Active
  <2>3. (Active => page.manual = "closed")'
    BY <1>1 DEF PageInv, PlayInv, Active
  <2>4. (page.playback = "running" => \E g \in Flow : Playing(g))'
    BY <1>1, <1>12 DEF PageInv, PlayInv
  <2>5. (page.playback \in {"waiting", "paused"} <=> gate # 0)'
    BY <1>1 DEF PageInv, PlayInv
  <2>6. (gate # 0 => gate \in Flow /\ Playing(gate) /\ flows[gate].pc = "gate")'
    <3>1. PICK g : g = gate
      OBVIOUS
    <3>2. g # 0 => g \in Flow /\ Playing(g)' /\ flows'[g].pc = "gate"
      BY <1>12, <3>1 DEF PageInv, PlayInv, Playing
    <3> QED BY <1>1, <3>1, <3>2 DEF Playing
  <2> QED BY <2>1, <2>2, <2>3, <2>4, <2>5, <2>6 DEF PlayInv
<1>14. ShowsOwnCommands'
  <2>1. PICK g : g = gate
    OBVIOUS
  <2>2. g # 0 => g \in Flow
    BY <2>1 DEF PageInv, PlayInv
  <2> QED BY <1>1, <1>12, <2>1, <2>2 DEF PageInv, ShowsOwnCommands
<1>15. BusyInv'
  BY <1>1, <1>12 DEF PageInv, BusyInv
<1> QED BY <1>1, <1>9, <1>10, <1>11, <1>13, <1>14, <1>15, SameForward DEF PageInv

LEMMA ServerTyped ==
    ASSUME PageInv
    PROVE  /\ MaxSessions \in Nat /\ MaxSaved \in Nat
           /\ created \in Nat /\ created <= MaxSessions /\ alive \subseteq 1..created
           /\ saved \in [Session -> 0..MaxSaved]
           /\ \A s \in alive : s \in Session /\ s \in 1..MaxSessions /\ s # 0 /\ s <= created
BY ControllerAssumption DEF PageInv, TypeOK, Session

LEMMA CreateSessionKeeps ==
    ASSUME PageInv, NEW f \in Flow, CreateSession(f)
    PROVE  PageInv' /\ Forward
<1>1. /\ InFlight(f) /\ flows[f].pc = "session" /\ UNCHANGED pageVars /\ saved' = saved
      /\ created' = created + 1 /\ created < MaxSessions /\ alive' = alive \cup {created'}
  BY DEF CreateSession, Requested
<1>2. /\ created \in 0..MaxSessions /\ created' \in 1..MaxSessions /\ created' \in 0..MaxSessions
      /\ alive \subseteq 1..created /\ alive' \subseteq 1..created'
      /\ saved' \in [Session -> 0..MaxSaved] /\ created' # 0
  BY <1>1, ServerTyped
<1>3. Endures
  BY <1>1, <1>2 DEF Endures, Backed, Reads
<1>4. PICK s : s = created'
  OBVIOUS
<1>5. PICK v : v = [of |-> s, at |-> 0]
  OBVIOUS
<1>6. v \in Reads /\ v.of = s /\ v.at = 0 /\ v.of # 0
  BY <1>2, <1>4, <1>5, ControllerAssumption DEF Reads
<1>7. Backed(v)'
  BY <1>2, <1>4, <1>6 DEF Backed, Session
<1>8. Backed(Nothing)'
  BY <1>2, NothingTyped DEF Backed
<1>9. Answer(f, "ok", v) \/ Answer(f, "lost", Nothing)
  BY <1>4, <1>5, Zenon DEF CreateSession
<1>10. CASE Answer(f, "ok", v)
  BY <1>1, <1>2, <1>3, <1>4, <1>6, <1>7, <1>10, AnswerKeeps
<1>11. CASE Answer(f, "lost", Nothing)
  BY <1>1, <1>2, <1>3, <1>8, <1>11, NothingTyped, AnswerKeeps
<1> QED BY <1>9, <1>10, <1>11

LEMMA ReadKeeps ==
    ASSUME PageInv, NEW f \in Flow, Read(f)
    PROVE  PageInv' /\ Forward
<1> DEFINE answered == CASE flows[f].pc = "refresh" -> [of |-> flows[f].sent, at |-> saved[flows[f].sent]]
                         [] flows[f].pc \in {"current", "session"} -> [of |-> flows[f].sent, at |-> 0]
                         [] OTHER -> Nothing
<1>1. InFlight(f) /\ flows[f].sent \in alive /\ UNCHANGED pageVars /\ UNCHANGED serverVars
  BY DEF Read, Requested
<1>2. PICK s : s = flows[f].sent
  OBVIOUS
<1>3. PICK n : n = saved[s]
  OBVIOUS
<1>4. PICK v : v = answered
  OBVIOUS
<1>5. v = CASE flows[f].pc = "refresh" -> [of |-> s, at |-> n]
            [] flows[f].pc \in {"current", "session"} -> [of |-> s, at |-> 0]
            [] OTHER -> Nothing
  BY <1>2, <1>3, <1>4
<1>6. Answer(f, "ok", v)
  BY <1>4, Zenon DEF Read
<1> HIDE DEF answered
<1>7. s \in 1..MaxSessions /\ n \in 0..MaxSaved /\ s <= created
  BY <1>1, <1>2, <1>3, ServerTyped DEF Session
<1>8. /\ v \in Reads /\ (flows[f].pc = "refresh" => v.of = s /\ v.at = n)
      /\ (v = Nothing \/ (v.of = s /\ v.at \in {0, n}))
      /\ (flows[f].pc = "session" => v.of # 0)
  BY <1>5, <1>7, NothingTyped, ControllerAssumption DEF Reads
<1>9. Backed(v)
  BY <1>1, <1>2, <1>3, <1>7, <1>8, NothingBacked DEF Backed, PageInv
<1>10. Backed(v)'
  BY <1>1, <1>9 DEF Backed, serverVars
<1>11. \A w \in Reads : Backed(w) /\ w.of = s => w.at <= n
  BY <1>1, <1>2, <1>3 DEF Backed
<1>12. /\ created' \in 0..MaxSessions /\ alive' \subseteq 1..created'
       /\ saved' \in [Session -> 0..MaxSaved] /\ Endures
  BY <1>1, Unserved DEF PageInv, TypeOK, serverVars
<1> QED BY <1>1, <1>2, <1>6, <1>7, <1>8, <1>10, <1>11, <1>12, AnswerKeeps

LEMMA SaveKeeps ==
    ASSUME PageInv, NEW f \in Flow, Save(f)
    PROVE  PageInv' /\ Forward
<1>1. PICK s : s = flows[f].sent
  OBVIOUS
<1>2. /\ InFlight(f) /\ flows[f].pc = "command" /\ s \in alive /\ UNCHANGED pageVars
      /\ UNCHANGED <<created, alive>>
      /\ saved' \in {saved, [saved EXCEPT ![s] = saved[s] + 1]} /\ saved'[s] <= MaxSaved
  BY <1>1 DEF Save, Requested
<1>3. /\ s \in Session /\ saved \in [Session -> 0..MaxSaved] /\ saved[s] \in Nat
      /\ created \in 0..MaxSessions /\ alive \subseteq 1..created /\ s <= created
  BY <1>2, ServerTyped
<1>4. /\ saved' \in [Session -> 0..MaxSaved]
      /\ \A t \in Session : saved[t] <= saved'[t]
  BY <1>2, <1>3, ControllerAssumption
<1>5. Endures
  <2> SUFFICES ASSUME NEW v \in Reads, Backed(v) PROVE Backed(v)'
    BY DEF Endures
  <2>1. v.at \in Nat
    BY ControllerAssumption DEF Reads
  <2>2. v.of \in alive => v.at <= saved'[v.of]
    <3> SUFFICES ASSUME v.of \in alive PROVE v.at <= saved'[v.of]
      OBVIOUS
    <3>1. v.of \in Session /\ v.at <= saved[v.of]
      BY ServerTyped DEF Backed
    <3>2. saved[v.of] \in Nat /\ saved'[v.of] \in Nat /\ saved[v.of] <= saved'[v.of]
      BY <1>3, <1>4, <3>1, ControllerAssumption
    <3> QED BY <2>1, <3>1, <3>2
  <2> QED BY <1>2, <2>2 DEF Backed
<1>6. PICK n : n = saved'[s]
  OBVIOUS
<1>7. PICK v : v = [of |-> s, at |-> n]
  OBVIOUS
<1>8. v \in Reads /\ v.of = s /\ v.at = n
  BY <1>3, <1>4, <1>6, <1>7 DEF Reads, Session
<1>9. Backed(v)' /\ Backed(Nothing)'
  BY <1>2, <1>3, <1>6, <1>8, NothingTyped DEF Backed, Session
<1>10. Answer(f, "ok", v) \/ Answer(f, "lost", Nothing)
  BY <1>1, <1>6, <1>7, Zenon DEF Save
<1>11. created' \in 0..MaxSessions /\ alive' \subseteq 1..created'
  BY <1>2, <1>3
<1>12. CASE Answer(f, "ok", v)
  BY <1>2, <1>4, <1>5, <1>8, <1>9, <1>11, <1>12, AnswerKeeps
<1>13. CASE Answer(f, "lost", Nothing)
  BY <1>2, <1>4, <1>5, <1>9, <1>11, <1>13, NothingTyped, AnswerKeeps
<1> QED BY <1>10, <1>12, <1>13

LEMMA ResetKeeps ==
    ASSUME PageInv, NEW f \in Flow, Reset(f)
    PROVE  PageInv' /\ Forward
<1>1. PICK s : s = flows[f].sent
  OBVIOUS
<1>2. /\ InFlight(f) /\ flows[f].pc = "reset" /\ s \in alive /\ UNCHANGED pageVars
      /\ created' = created /\ alive' = alive \ {s} /\ saved' = [saved EXCEPT ![s] = 0]
  BY <1>1 DEF Reset, Requested
<1>3. /\ s \in Session /\ saved \in [Session -> 0..MaxSaved]
      /\ created \in 0..MaxSessions /\ alive \subseteq 1..created
  BY <1>2, ServerTyped
<1>4. saved' \in [Session -> 0..MaxSaved] /\ \A t \in Session \ {s} : saved'[t] = saved[t]
  BY <1>2, <1>3, ControllerAssumption
<1>5. Endures
  <2>1. \A t \in alive' : t \in alive /\ saved'[t] = saved[t]
    BY <1>2, <1>4, ServerTyped
  <2> QED BY <1>2, <2>1 DEF Endures, Backed
<1>6. Backed(Nothing)'
  BY <1>2, <1>3, NothingTyped DEF Backed
<1>7. created' \in 0..MaxSessions /\ alive' \subseteq 1..created'
  BY <1>2, <1>3
<1>8. PICK a \in {"ok", "lost"} : Answer(f, a, Nothing)
  BY DEF Reset
<1> QED BY <1>2, <1>4, <1>5, <1>6, <1>7, <1>8, NothingTyped, AnswerKeeps

LEMMA ExpireKeeps ==
    ASSUME PageInv, Expire
    PROVE  PageInv' /\ Forward
<1>1. PICK s \in alive : alive' = alive \ {s} /\ saved' = [saved EXCEPT ![s] = 0]
  BY DEF Expire
<1>2. page' = page /\ gate' = gate /\ cookie' = cookie /\ flows' = flows /\ created' = created
  BY DEF Expire, pageVars
<1>3. /\ s \in Session /\ saved \in [Session -> 0..MaxSaved] /\ flows \in [Flow -> FlowRecord]
      /\ created \in 0..MaxSessions /\ alive \subseteq 1..created /\ page \in PageRecord
  BY <1>1, ServerTyped DEF PageInv, TypeOK
<1>4. saved' \in [Session -> 0..MaxSaved] /\ \A t \in Session \ {s} : saved'[t] = saved[t]
  BY <1>1, <1>3, ControllerAssumption
<1>5. Endures
  <2>1. \A t \in alive' : t \in alive /\ saved'[t] = saved[t]
    BY <1>1, <1>4, ServerTyped
  <2> QED BY <1>2, <2>1 DEF Endures, Backed
<1>6. TypeOK'
  BY <1>1, <1>2, <1>3, <1>4 DEF PageInv, TypeOK
<1>7. ASSUME NEW g \in Flow PROVE FlowInv(flows[g])'
  BY <1>2, <1>5, Acting DEF FlowInv, Backed, Endures
<1>8. Backed(page.shown)'
  BY <1>2, <1>3, <1>5 DEF PageInv, Backed, Endures, PageRecord
<1>9. FreshInv' /\ NothingAfterSession' /\ ShowsOwnCommands' /\ BusyInv'
  BY <1>2 DEF PageInv, FreshInv, NothingAfterSession, ShowsOwnCommands, BusyInv
<1>10. PlayInv'
  BY <1>2 DEF PageInv, PlayInv, Playing, Active
<1> QED BY <1>2, <1>6, <1>7, <1>8, <1>9, <1>10, SameForward DEF PageInv

----------------------------------------------------------------------------
(* The page starts over *)

LEMMA LeavesKeeps ==
    ASSUME PageInv, flows' \in [Flow -> FlowRecord],
           \A g \in Flow :
              /\ Shape(flows'[g]) /\ ~ flows'[g].live /\ ~ flows'[g].fresh
              /\ flows'[g].got \in {flows[g].got, Nothing} /\ flows'[g].wrote = Nothing,
           gate' = 0, cookie' \in 0..MaxSessions, UNCHANGED serverVars,
           page' \in PageRecord, page'.playback = "none", page'.manual # "busy",
           page'.shown \in {page.shown, Nothing}, cookie' = 0 => page'.shown = Nothing,
           page'.clearing =>
              page.clearing /\ \A g \in Flow : flows[g].kind = "clear" => flows'[g].kind = "clear"
    PROVE  PageInv' /\ Forward
<1>1. TypeOK'
  BY ControllerAssumption DEF PageInv, TypeOK, serverVars
<1>2. Endures /\ Backed(Nothing)'
  <2>1. Backed(Nothing)
    BY NothingBacked DEF PageInv
  <2> QED BY <2>1, Unserved DEF Backed, serverVars
<1>3. ASSUME NEW g \in Flow PROVE FlowInv(flows[g])'
  <2>1. Backed(flows[g].got)' /\ Backed(flows[g].wrote)'
    BY <1>2, Acting, NothingTyped DEF Endures, Backed
  <2> QED BY <2>1 DEF FlowInv
<1>4. Backed(page.shown)' /\ Forward
  <2>1. page.shown \in Reads /\ Backed(page.shown)
    BY DEF PageInv, TypeOK, PageRecord
  <2>2. Backed(page.shown)'
    BY <1>2, <2>1, NothingTyped DEF Endures, Backed
  <2>3. Forward
    BY <2>1, NothingTyped DEF Forward, Reads
  <2> QED BY <2>2, <2>3
<1>5. FreshInv' /\ NothingAfterSession'
  BY DEF FreshInv, NothingAfterSession
<1>6. PlayInv' /\ ShowsOwnCommands'
  BY StaysCalm DEF Playing, Active
<1>7. BusyInv'
  BY DEF PageInv, BusyInv
<1> QED BY <1>1, <1>3, <1>4, <1>5, <1>6, <1>7 DEF PageInv

\* What is left of the flows when the page starts over.
LEMMA LeftFlows ==
    ASSUME PageInv, NEW a, a = Abandoned(flows)
    PROVE  /\ a \in [Flow -> FlowRecord]
           /\ \A g \in Flow :
                 /\ Shape(a[g]) /\ ~ a[g].live /\ ~ a[g].fresh
                 /\ a[g].got \in {flows[g].got, Nothing} /\ a[g].wrote = Nothing
                 /\ flows[g].kind = "clear" => a[g].kind = "clear"
<1>1. flows \in [Flow -> FlowRecord] /\ \A g \in Flow : Shape(flows[g])
  BY DEF PageInv, TypeOK, FlowInv
<1>2. \A g \in Flow : g = gate => flows[g].kind = "play"
  BY DEF PageInv, PlayInv, Playing, Flow
<1> QED BY <1>1, <1>2, AbandonedEffect

LEMMA LeftFlowsWithout ==
    ASSUME PageInv, NEW f \in Flow, NEW a, a = Finish(Abandoned(flows), f)
    PROVE  /\ a \in [Flow -> FlowRecord]
           /\ \A g \in Flow :
                 /\ Shape(a[g]) /\ ~ a[g].live /\ ~ a[g].fresh
                 /\ a[g].got \in {flows[g].got, Nothing} /\ a[g].wrote = Nothing
<1>1. PICK b : b = Abandoned(flows)
  OBVIOUS
<1>2. /\ b \in [Flow -> FlowRecord]
      /\ \A g \in Flow :
            /\ Shape(b[g]) /\ ~ b[g].live /\ ~ b[g].fresh
            /\ b[g].got \in {flows[g].got, Nothing} /\ b[g].wrote = Nothing
  BY <1>1, LeftFlows
<1>3. a \in [Flow -> FlowRecord] /\ a[f] = Ended /\ \A g \in Flow \ {f} : a[g] = b[g]
  BY <1>1, <1>2, FinishEffect
<1> QED BY <1>2, <1>3, EndedTyped

LEMMA EmptyTyped ==
    /\ EmptyPage \in PageRecord /\ EmptyPage.shown = Nothing /\ EmptyPage.playback = "none"
    /\ EmptyPage.manual = "closed" /\ ~ EmptyPage.clearing
<1>1. 0 \in 0..MaxSessions
  BY ControllerAssumption
<1> QED BY <1>1, NothingTyped DEF EmptyPage, PageRecord

LEMMA SessionEndedKeeps ==
    ASSUME PageInv, NEW f \in Flow, SessionEnded(f)
    PROVE  PageInv' /\ Forward
<1>1. PICK d \in {"none", "notice"} : d = IF page.session = 0 THEN "none" ELSE "notice"
  OBVIOUS
<1>2. page' = [EmptyPage EXCEPT !.dialog = d]
  BY <1>1 DEF SessionEnded
<1>3. /\ page' \in PageRecord /\ page'.shown = Nothing /\ page'.playback = "none"
      /\ page'.manual = "closed" /\ ~ page'.clearing
  BY <1>1, <1>2, EmptyTyped DEF PageRecord
<1>4. flows' = Finish(Abandoned(flows), f) /\ gate' = 0 /\ cookie' = 0 /\ UNCHANGED serverVars
  BY DEF SessionEnded
<1>5. cookie' \in 0..MaxSessions
  BY <1>4, ControllerAssumption
<1> QED BY <1>3, <1>4, <1>5, LeftFlowsWithout, LeavesKeeps

LEMMA ClearedKeeps ==
    ASSUME PageInv, NEW f \in Flow, Cleared(f)
    PROVE  PageInv' /\ Forward
<1>1. PICK m \in {"closed", "open"} : m = IF page.manual = "closed" THEN "closed" ELSE "open"
  OBVIOUS
<1>2. page' = [EmptyPage EXCEPT !.manual = m]
  BY <1>1 DEF Cleared
<1>3. /\ page' \in PageRecord /\ page'.shown = Nothing /\ page'.playback = "none"
      /\ page'.manual = m /\ ~ page'.clearing
  BY <1>1, <1>2, EmptyTyped DEF PageRecord
<1>4. flows' = Finish(Abandoned(flows), f) /\ gate' = 0 /\ cookie' = 0 /\ UNCHANGED serverVars
  BY DEF Cleared
<1>5. cookie' \in 0..MaxSessions
  BY <1>4, ControllerAssumption
<1> QED BY <1>3, <1>4, <1>5, LeftFlowsWithout, LeavesKeeps

LEMMA StopKeeps ==
    ASSUME PageInv, Stop
    PROVE  PageInv' /\ Forward
<1>1. page' = [page EXCEPT !.playback = "none"] /\ page.playback = "waiting"
  BY DEF Stop
<1>2. /\ page' \in PageRecord /\ page'.shown = page.shown /\ page'.playback = "none"
      /\ page'.manual = page.manual /\ page'.clearing = page.clearing
  BY <1>1 DEF PageInv, TypeOK, PageRecord
<1>3. page.manual = "closed"
  BY <1>1 DEF PageInv, PlayInv, Active
<1>4. flows' = Abandoned(flows) /\ gate' = 0 /\ cookie' = cookie /\ UNCHANGED serverVars
  BY DEF Stop
<1>5. cookie' \in 0..MaxSessions /\ (cookie' = 0 => page.shown = Nothing)
  BY <1>4 DEF PageInv, TypeOK, NothingAfterSession
<1> QED BY <1>2, <1>3, <1>4, <1>5, LeftFlows, LeavesKeeps

----------------------------------------------------------------------------
(* The viewer *)

LEMMA IdleKeeps ==
    ASSUME PageInv, UNCHANGED <<gate, cookie, flows, serverVars>>,
           page' \in PageRecord, page'.shown = page.shown, page'.clearing = page.clearing,
           \/ page'.playback = page.playback /\ page'.manual = page.manual
           \/ /\ ~ Active /\ page'.playback \in {page.playback, "none"}
              /\ page'.manual \in {"open", "closed"}
    PROVE  PageInv' /\ Forward
<1>1. TypeOK'
  BY DEF PageInv, TypeOK, serverVars
<1>2. (\A g \in Flow : FlowInv(flows[g])') /\ Backed(page.shown)'
  BY DEF PageInv, FlowInv, Backed, serverVars
<1>3. FreshInv' /\ NothingAfterSession' /\ ShowsOwnCommands'
  BY DEF PageInv, FreshInv, NothingAfterSession, ShowsOwnCommands
<1>4. PlayInv' /\ BusyInv'
  <2>1. BusyInv'
    BY DEF PageInv, BusyInv
  <2>2. CASE page'.playback = page.playback /\ page'.manual = page.manual
    <3>1. /\ flows' = flows /\ gate' = gate /\ (Active' <=> Active)
          /\ \A g \in Flow : Playing(g)' <=> Playing(g)
      BY <2>2 DEF Active, Playing
    <3>2. ASSUME NEW g \in Flow, Playing(g)'
          PROVE  /\ Active'
                 /\ \A h \in Flow \ {g} : ~ flows'[h].live
                 /\ flows'[g].pc \in {"refresh", "gate"} => flows'[g].fresh
                 /\ flows'[g].pc = "refresh" /\ flows'[g].answer = "ok"
                       /\ flows'[g].got.of = flows'[g].wrote.of =>
                    flows'[g].wrote.at <= flows'[g].got.at
      BY <3>1, <3>2 DEF PageInv, PlayInv
    <3>3. (gate # 0 => gate \in Flow /\ Playing(gate) /\ flows[gate].pc = "gate")'
      BY <3>1 DEF PageInv, PlayInv, Playing
    <3>4. /\ (Active => page.manual = "closed")'
          /\ (page.playback = "running" => \E g \in Flow : Playing(g))'
          /\ (page.playback \in {"waiting", "paused"} <=> gate # 0)'
      BY <2>2, <3>1 DEF PageInv, PlayInv
    <3> QED BY <2>1, <3>2, <3>3, <3>4 DEF PlayInv
  <2>3. CASE ~ Active /\ page'.playback \in {page.playback, "none"}
    <3>1. gate' = 0 /\ ~ Active' /\ \A g \in Flow : ~ Playing(g)'
      BY <2>3 DEF PageInv, PlayInv, Playing, Active
    <3> QED BY <2>1, <3>1, StaysCalm
  <2> QED BY <2>1, <2>2, <2>3
<1> QED BY <1>1, <1>2, <1>3, <1>4, SameForward DEF PageInv

LEMMA OpensKeep ==
    ASSUME PageInv, OpenManual \/ CloseManual \/ AskToRun \/ Dismiss \/ AskToClear
    PROVE  PageInv' /\ Forward
<1>0. page \in PageRecord
  BY DEF PageInv, TypeOK
<1>1. CASE OpenManual
  <2>1. page' = [page EXCEPT !.playback = "none", !.manual = "open"] /\ ~ Active
        /\ UNCHANGED <<gate, cookie, flows, serverVars>>
    BY <1>1 DEF OpenManual
  <2>2. /\ page' \in PageRecord /\ page'.shown = page.shown /\ page'.clearing = page.clearing
        /\ page'.playback = "none" /\ page'.manual = "open"
    BY <1>0, <2>1 DEF PageRecord
  <2> QED BY <2>1, <2>2, IdleKeeps
<1>2. CASE CloseManual
  <2>1. page' = [page EXCEPT !.manual = "closed"] /\ ~ Active
        /\ UNCHANGED <<gate, cookie, flows, serverVars>>
    BY <1>2 DEF CloseManual
  <2>2. /\ page' \in PageRecord /\ page'.shown = page.shown /\ page'.clearing = page.clearing
        /\ page'.playback = page.playback /\ page'.manual = "closed"
    BY <1>0, <2>1 DEF PageRecord
  <2> QED BY <2>1, <2>2, IdleKeeps
<1>3. CASE AskToRun \/ Dismiss \/ AskToClear
  <2>1. PICK d \in {"run", "none", "clear"} : page' = [page EXCEPT !.dialog = d]
    BY <1>3 DEF AskToRun, Dismiss, AskToClear
  <2>2. /\ page' \in PageRecord /\ page'.shown = page.shown /\ page'.clearing = page.clearing
        /\ page'.playback = page.playback /\ page'.manual = page.manual
    BY <1>0, <2>1 DEF PageRecord
  <2>3. UNCHANGED <<gate, cookie, flows, serverVars>>
    BY <1>3 DEF AskToRun, Dismiss, AskToClear
  <2> QED BY <2>2, <2>3, IdleKeeps
<1> QED BY <1>1, <1>2, <1>3

LEMMA ProceedKeeps ==
    ASSUME PageInv, Proceed
    PROVE  PageInv' /\ Forward
<1>1. PICK f : f = gate
  OBVIOUS
<1>2. f \in Flow /\ Playing(f)
  BY <1>1 DEF Proceed, PageInv, PlayInv
<1>3. PICK d \in {"none", page.dialog} : d = IF page.playback = "paused" THEN "none" ELSE page.dialog
  OBVIOUS
<1>4. /\ page' = [page EXCEPT !.playback = "running", !.dialog = d]
      /\ gate' = 0 /\ flows' = NextStep(flows, f, cookie) /\ UNCHANGED <<cookie, serverVars>>
  BY <1>1, <1>3 DEF Proceed
<1>5. page \in PageRecord /\ page.dialog \in {"none", "notice", "pause", "run", "clear"}
  BY DEF PageInv, TypeOK, PageRecord
<1>6. /\ page' \in PageRecord /\ page'.shown = page.shown /\ page'.clearing = page.clearing
      /\ page'.playback = "running" /\ page'.manual = page.manual
  BY <1>3, <1>4, <1>5 DEF PageRecord
<1> QED BY <1>2, <1>4, <1>6, PlayStepped, SameForward

\* The flows that start.
LEMMA StartTyped ==
    /\ \A n \in {1, 2} : \A r : r = [Ended EXCEPT !.kind = "manual", !.live = TRUE, !.left = n] =>
          r \in Draft /\ r.kind = "manual" /\ r.live /\ r.left = n /\ ~ r.failed /\ r.wrote = Nothing
    /\ \A r : r = [Ended EXCEPT !.kind = "clear"] =>
          r \in Draft /\ r.kind = "clear" /\ ~ r.live /\ ~ r.failed /\ r.wrote = Nothing
    /\ \A stepwise \in BOOLEAN :
          \A r : r = [Ended EXCEPT !.kind = "play", !.live = TRUE, !.stepwise = stepwise] =>
             r \in Draft /\ r.kind = "play" /\ r.live /\ ~ r.failed /\ r.wrote = Nothing
    /\ \A r : r = [Ended EXCEPT !.kind = "load", !.live = TRUE] =>
          r \in Draft /\ r.kind = "load" /\ r.live /\ ~ r.failed /\ r.wrote = Nothing
<1>1. Ended \in FlowRecord /\ ~ Ended.failed /\ ~ Ended.live /\ Ended.wrote = Nothing
  BY EndedTyped
<1>2. ASSUME NEW n \in {1, 2}, NEW r, r = [Ended EXCEPT !.kind = "manual", !.live = TRUE, !.left = n]
      PROVE  r \in Draft /\ r.kind = "manual" /\ r.live /\ r.left = n /\ ~ r.failed /\ r.wrote = Nothing
  <2>1. PICK m \in Nat : m = n
    OBVIOUS
  <2>2. r = [Ended EXCEPT !.kind = "manual", !.live = TRUE, !.left = m]
    BY <1>2, <2>1
  <2>3. r \in FlowRecord /\ r.kind = "manual" /\ r.live /\ r.left = m /\ ~ r.failed /\ r.wrote = Nothing
    BY <1>1, <2>2 DEF FlowRecord
  <2> QED BY <2>1, <2>3, DraftTyped
<1>3. ASSUME NEW r, r = [Ended EXCEPT !.kind = "clear"]
      PROVE  r \in FlowRecord /\ r.kind = "clear" /\ ~ r.live /\ ~ r.failed /\ r.wrote = Nothing
  BY <1>1, <1>3 DEF FlowRecord
<1>4. ASSUME NEW stepwise \in BOOLEAN, NEW r,
             r = [Ended EXCEPT !.kind = "play", !.live = TRUE, !.stepwise = stepwise]
      PROVE  r \in FlowRecord /\ r.kind = "play" /\ r.live /\ ~ r.failed /\ r.wrote = Nothing
  BY <1>1, <1>4 DEF FlowRecord
<1>5. ASSUME NEW r, r = [Ended EXCEPT !.kind = "load", !.live = TRUE]
      PROVE  r \in FlowRecord /\ r.kind = "load" /\ r.live /\ ~ r.failed /\ r.wrote = Nothing
  BY <1>1, <1>5 DEF FlowRecord
<1>6. \A n \in {1, 2} : \A r : r = [Ended EXCEPT !.kind = "manual", !.live = TRUE, !.left = n] =>
         r \in Draft /\ r.kind = "manual" /\ r.live /\ r.left = n /\ ~ r.failed /\ r.wrote = Nothing
  BY <1>2
<1>7. \A r : r = [Ended EXCEPT !.kind = "clear"] =>
         r \in Draft /\ r.kind = "clear" /\ ~ r.live /\ ~ r.failed /\ r.wrote = Nothing
  BY <1>3, DraftTyped
<1>8. \A stepwise \in BOOLEAN :
         \A r : r = [Ended EXCEPT !.kind = "play", !.live = TRUE, !.stepwise = stepwise] =>
            r \in Draft /\ r.kind = "play" /\ r.live /\ ~ r.failed /\ r.wrote = Nothing
  BY <1>4, DraftTyped
<1>9. \A r : r = [Ended EXCEPT !.kind = "load", !.live = TRUE] =>
         r \in Draft /\ r.kind = "load" /\ r.live /\ ~ r.failed /\ r.wrote = Nothing
  BY <1>5, DraftTyped
<1> QED BY <1>6, <1>7, <1>8, <1>9

LEMMA ManualCommandKeeps ==
    ASSUME PageInv, NEW f \in Flow, NEW n \in {1, 2}, ManualCommand(f, n)
    PROVE  PageInv' /\ Forward
<1>1. PICK r : r = [Ended EXCEPT !.kind = "manual", !.live = TRUE, !.left = n]
  OBVIOUS
<1>2. /\ r \in Draft /\ r.kind = "manual" /\ r.live /\ r.left = n /\ ~ r.failed /\ r.wrote = Nothing
  BY <1>1, StartTyped
<1>3. PICK pc \in {"session", "workflow"} : pc = IF page.session = 0 THEN "session" ELSE "workflow"
  OBVIOUS
<1>4. /\ flows' = Send(flows, f, r, pc, cookie) /\ UNCHANGED <<gate, cookie, serverVars>>
      /\ page' = [page EXCEPT !.dialog = "none", !.manual = "busy"]
      /\ flows[f].kind = "none" /\ page.manual = "open"
  BY <1>1, <1>3 DEF ManualCommand, Free
<1>5. /\ page' \in PageRecord /\ page'.shown = page.shown /\ page'.clearing = page.clearing
      /\ page'.playback = page.playback /\ page'.manual = "busy"
  BY <1>4, Acting DEF PageRecord
<1>6. Fits(r, pc) /\ pc \in Await
  BY <1>2 DEF Fits, Await
<1>7. Acts(f) /\ Sent(flows'[f], r, pc, cookie)
  BY <1>2, <1>4, <1>6, Acting, SendActs, NothingBacked DEF serverVars
<1>8. TypeOK' /\ (\A g \in Flow : FlowInv(flows[g])') /\ Backed(page.shown)'
  BY <1>4, <1>5, <1>7, DataKeep, Unchanged
<1>9. FreshInv' /\ NothingAfterSession'
  BY <1>4, <1>5, <1>7, FreshKeeps DEF Sent
<1>10. PlayInv' /\ ShowsOwnCommands'
  <2>1. ~ Active /\ \A g \in Flow : ~ Playing(g)
    BY <1>4 DEF PageInv, PlayInv
  <2>2. ~ Playing(f)'
    BY <1>2, <1>7 DEF Playing, Sent
  <2> QED BY <1>4, <1>5, <1>7, <2>1, <2>2, CalmActs
<1>11. BusyInv'
  BY <1>2, <1>4, <1>5, <1>7, BusyKeeps DEF Sent
<1> QED BY <1>5, <1>8, <1>9, <1>10, <1>11, SameForward DEF PageInv

LEMMA ClearKeeps ==
    ASSUME PageInv, NEW f \in Flow, Clear(f)
    PROVE  PageInv' /\ Forward
<1>1. PICK r : r = [Ended EXCEPT !.kind = "clear"]
  OBVIOUS
<1>2. r \in Draft /\ r.kind = "clear" /\ ~ r.live /\ ~ r.failed /\ r.wrote = Nothing
  BY <1>1, StartTyped
<1>3. /\ flows' = Send(flows, f, r, "reset", cookie) /\ UNCHANGED <<gate, cookie, serverVars>>
      /\ page' = [page EXCEPT !.clearing = TRUE] /\ flows[f].kind = "none"
  BY <1>1 DEF Clear, Free
<1>4. /\ page' \in PageRecord /\ page'.shown = page.shown
      /\ page'.playback = page.playback /\ page'.manual = page.manual
  BY <1>3, Acting DEF PageRecord
<1>5. Fits(r, "reset") /\ "reset" \in Await
  BY <1>2 DEF Fits, Await
<1>6. Acts(f) /\ Sent(flows'[f], r, "reset", cookie)
  BY <1>2, <1>3, <1>5, Acting, SendActs, NothingBacked DEF serverVars
<1>7. TypeOK' /\ (\A g \in Flow : FlowInv(flows[g])') /\ Backed(page.shown)'
  BY <1>3, <1>4, <1>6, DataKeep, Unchanged
<1>8. FreshInv' /\ NothingAfterSession'
  BY <1>3, <1>4, <1>6, FreshKeeps DEF Sent
<1>9. PlayInv' /\ ShowsOwnCommands'
  <2>1. ~ flows[f].live
    BY <1>3, Acting DEF Shape
  <2> QED BY <1>2, <1>3, <1>4, <1>6, <2>1, StaleActs DEF Sent
<1>10. BusyInv'
  BY <1>2, <1>3, <1>4, <1>6, BusyKeeps DEF Sent
<1> QED BY <1>4, <1>7, <1>8, <1>9, <1>10, SameForward DEF PageInv

\* A play that starts leaves every flow outdated, and is the only one for the page.
LEMMA StartPlayKeeps ==
    ASSUME PageInv, NEW f \in Flow, NEW stepwise \in BOOLEAN, StartPlay(f, stepwise)
    PROVE  PageInv' /\ Forward
<1>1. PICK r : r = [Ended EXCEPT !.kind = "play", !.live = TRUE, !.stepwise = stepwise]
  OBVIOUS
<1>2. r \in Draft /\ r.kind = "play" /\ r.live /\ ~ r.failed /\ r.wrote = Nothing
  BY <1>1, StartTyped
<1>3. PICK pc \in {"session", "workflow"} : pc = IF page.session = 0 THEN "session" ELSE "workflow"
  OBVIOUS
<1>4. PICK o : o = Outdated(flows)
  OBVIOUS
<1>5. /\ flows' = Send(o, f, r, pc, cookie) /\ UNCHANGED <<gate, cookie, serverVars>>
      /\ page' = [page EXCEPT !.manual = "closed", !.dialog = "none", !.playback = "running"]
      /\ ~ Active /\ ~ page.clearing
  BY <1>1, <1>3, <1>4 DEF StartPlay
<1>6. /\ page' \in PageRecord /\ page'.shown = page.shown /\ ~ page'.clearing
      /\ page'.playback = "running" /\ page'.manual = "closed"
  BY <1>5, Acting DEF PageRecord
<1>7. o \in [Flow -> FlowRecord] /\ \A g \in Flow : Outdates(o[g], flows[g])
  <2>1. \A g \in Flow : Outdates(Stale(flows[g]), flows[g])
    BY Acting, StaleEffect
  <2>2. o = [g \in Flow |-> Stale(flows[g])]
    BY <1>4 DEF Outdated
  <2> QED BY <2>1, <2>2 DEF Outdates
<1>8. /\ flows' \in [Flow -> FlowRecord] /\ Sent(flows'[f], r, pc, cookie)
      /\ \A g \in Flow \ {f} : Keeps(flows'[g], o[g]) /\ flows'[g].fresh = (o[g].fresh /\ pc # "refresh")
  BY <1>2, <1>5, <1>7, Acting, SendEffect DEF Await
<1>9. \A g \in Flow \ {f} :
         /\ ~ flows'[g].live /\ flows'[g].got = flows[g].got /\ flows'[g].wrote = Nothing
         /\ flows'[g].fresh => flows[g].fresh
         /\ flows'[g].sent = flows[g].sent /\ flows'[g].pc = flows[g].pc
         /\ flows'[g].answer = flows[g].answer
  BY <1>7, <1>8 DEF Outdates, Keeps
<1>10. gate = 0
  BY <1>5 DEF PageInv, PlayInv, Active
<1>11. TypeOK'
  BY <1>5, <1>6, <1>8 DEF PageInv, TypeOK, serverVars
<1>12. Endures /\ Backed(Nothing)'
  BY <1>5, Unserved, NothingBacked, Acting DEF Backed, serverVars
<1>13. ASSUME NEW g \in Flow PROVE FlowInv(flows[g])'
  <2>1. CASE g = f
    <3>1. Shape(flows'[f])
      <4>1. Fits(r, pc) /\ pc \in Await
        BY <1>2 DEF Fits, Await
      <4> QED BY <1>2, <1>8, <4>1, SentFits
    <3>2. Backed(flows[f].got)' /\ Backed(flows[f].wrote)'
      BY <1>2, <1>8, <1>12 DEF Sent, Backed
    <3> QED BY <2>1, <3>1, <3>2 DEF FlowInv
  <2>2. CASE g # f
    <3>1. Keeps(flows'[g], o[g]) /\ Shape(o[g])
      BY <1>7, <1>8, <2>2 DEF Outdates
    <3>2. Shape(flows'[g])
      BY <3>1 DEF Shape, Keeps
    <3>3. Backed(flows[g].got)' /\ Backed(flows[g].wrote)'
      BY <1>9, <1>12, <2>2, Acting DEF Backed, Endures
    <3> QED BY <3>2, <3>3 DEF FlowInv
  <2> QED BY <2>1, <2>2
<1>14. Backed(page.shown)'
  BY <1>6, <1>12, Acting DEF PageInv, Backed, Endures, PageRecord
<1>15. FreshInv' /\ NothingAfterSession'
  <2>1. ~ flows'[f].fresh
    BY <1>8 DEF Sent
  <2> QED BY <1>5, <1>6, <1>9, <2>1 DEF PageInv, FreshInv, NothingAfterSession
<1>16. PlayInv' /\ ShowsOwnCommands'
  <2>1. Playing(f)' /\ flows'[f].pc = pc
    BY <1>2, <1>8 DEF Sent, Playing
  <2>2. \A g \in Flow : Playing(g)' => g = f
    BY <1>9 DEF Playing
  <2>3. gate' = 0
    BY <1>5, <1>10
  <2> QED BY <1>6, <1>9, <2>1, <2>2, <2>3 DEF PlayInv, ShowsOwnCommands, Active
<1>17. BusyInv'
  BY <1>6 DEF BusyInv
<1> QED BY <1>6, <1>11, <1>13, <1>14, <1>15, <1>16, <1>17, SameForward DEF PageInv

----------------------------------------------------------------------------
(* The theorems *)

LEMMA PageInvInit == Init => PageInv
<1> SUFFICES ASSUME Init PROVE PageInv
  OBVIOUS
<1>1. PICK r : r = [Ended EXCEPT !.kind = "load", !.live = TRUE]
  OBVIOUS
<1>2. r \in Draft /\ r.kind = "load" /\ r.live /\ ~ r.failed /\ r.wrote = Nothing
  BY <1>1, StartTyped
<1>3. PICK o : o = [g \in Flow |-> Ended]
  OBVIOUS
<1>4. 1 \in Flow /\ o \in [Flow -> FlowRecord]
  BY <1>3, EndedTyped, ControllerAssumption DEF Flow
<1>5. /\ page = EmptyPage /\ gate = 0 /\ cookie = created /\ created \in 0..MaxSessions
      /\ alive \subseteq 1..created /\ saved = [s \in Session |-> 0]
      /\ flows = Send(o, 1, r, "current", cookie)
  BY <1>1, <1>3, ControllerAssumption DEF Init
<1>6. /\ flows \in [Flow -> FlowRecord] /\ Sent(flows[1], r, "current", cookie)
      /\ \A g \in Flow \ {1} : Keeps(flows[g], o[g])
  BY <1>2, <1>4, <1>5, SendEffect DEF Await
<1>7. TypeOK
  BY <1>5, <1>6, EmptyTyped, ControllerAssumption DEF TypeOK
<1>8. Backed(Nothing)
  BY <1>7, NothingBacked
<1>9. ASSUME NEW g \in Flow
      PROVE  FlowInv(flows[g]) /\ ~ flows[g].fresh /\ ~ Playing(g)
  <2>1. CASE g = 1
    <3>1. Fits(r, "current") /\ "current" \in Await
      BY <1>2 DEF Fits, Await
    <3>2. Shape(flows[1])
      BY <1>2, <1>6, <3>1, SentFits
    <3> QED BY <1>2, <1>6, <1>8, <2>1, <3>2 DEF Sent, FlowInv, Playing
  <2>2. CASE g # 1
    <3>1. Keeps(flows[g], Ended)
      BY <1>3, <1>6, <2>2
    <3>2. Shape(flows[g])
      BY <3>1, EndedTyped DEF Keeps, Shape
    <3> QED BY <1>8, <3>1, <3>2, EndedTyped DEF Keeps, FlowInv, Playing
  <2> QED BY <2>1, <2>2
<1>10. FreshInv /\ NothingAfterSession /\ Backed(page.shown) /\ BusyInv
  BY <1>5, <1>8, <1>9, EmptyTyped DEF FreshInv, NothingAfterSession, BusyInv
<1>11. PlayInv /\ ShowsOwnCommands
  BY <1>5, <1>9, EmptyTyped DEF PlayInv, ShowsOwnCommands, Active
<1> QED BY <1>7, <1>9, <1>10, <1>11 DEF PageInv

LEMMA PageInvNext == PageInv /\ [Next]_vars => PageInv' /\ [Forward]_vars
<1> SUFFICES ASSUME PageInv, [Next]_vars PROVE PageInv' /\ Forward
  OBVIOUS
<1>1. ASSUME NEW f \in Flow, Handle(f)
      PROVE  PageInv' /\ Forward
  BY <1>1, CreateSessionKeeps, ReadKeeps, SaveKeeps, ResetKeeps DEF Handle
<1>2. ASSUME NEW f \in Flow, Arrive(f)
      PROVE  PageInv' /\ Forward
  BY <1>2, SessionEndedKeeps, CurrentReadKeeps, SessionOpenedKeeps, WorkflowReadKeeps, RefreshReadKeeps,
     DelayOverKeeps, CommandSavedKeeps, SummaryReadKeeps, ClearedKeeps, RefusedKeeps DEF Arrive
<1>3. ASSUME Viewer
      PROVE  PageInv' /\ Forward
  BY <1>3, OpensKeep, ProceedKeeps, StopKeeps, StartPlayKeeps, ManualCommandKeeps, ClearKeeps DEF Viewer
<1>4. ASSUME UNCHANGED vars
      PROVE  PageInv' /\ Forward
  <2>1. page.playback = page'.playback /\ page.manual = page'.manual /\ page' \in PageRecord
        /\ page' = page /\ UNCHANGED <<gate, cookie, flows, serverVars>>
    BY <1>4 DEF vars, pageVars, PageInv, TypeOK
  <2> QED BY <2>1, IdleKeeps
<1> QED BY <1>1, <1>2, <1>3, <1>4, ExpireKeeps DEF Next

LEMMA PageInvAlways == Spec => []PageInv
BY PageInvInit, PageInvNext, PTL DEF Spec

\* Every variable keeps its type.
THEOREM ControllerTypeCorrect == Spec => []TypeOK
<1>1. PageInv => TypeOK
  BY DEF PageInv
<1> QED BY <1>1, PageInvAlways, PTL

\* A page whose browser has left its session shows none of that session's data,
\* whatever answers of it are still to arrive.
THEOREM LeavesNothing == Spec => []NothingAfterSession
<1>1. PageInv => NothingAfterSession
  BY DEF PageInv
<1> QED BY <1>1, PageInvAlways, PTL

\* Where a scenario waits for the viewer, the refresh of its step has been shown.
THEOREM WaitsWithItsData == Spec => []ShowsOwnCommands
<1>1. PageInv => ShowsOwnCommands
  BY DEF PageInv
<1> QED BY <1>1, PageInvAlways, PTL

\* The page is never left running, waiting, busy or clearing without the flow that
\* ends it.
THEOREM NeverLeftBusy == Spec => []Served
<1>1. PageInv => Served
  <2> SUFFICES ASSUME PageInv PROVE Served
    OBVIOUS
  <2>1. page.playback = "running" =>
          \E f \in Flow : flows[f].kind = "play" /\ flows[f].live /\ ~flows[f].failed /\ f # gate
    BY DEF PageInv, PlayInv, Playing, Flow
  <2>2. page.playback \in {"waiting", "paused"} =>
          gate # 0 /\ flows[gate].live /\ page.manual = "closed"
    BY DEF PageInv, PlayInv, Playing, Active
  <2> QED BY <2>1, <2>2 DEF PageInv, BusyInv, Served
<1> QED BY <1>1, PageInvAlways, PTL

\* Of one session, what the page shows never goes back.
THEOREM ReadsNeverGoBack == Spec => NeverOlder
<1>1. PageInv /\ [Next]_vars =>
        [page'.shown.of # 0 /\ page'.shown.of = page.shown.of
           => page'.shown.at >= page.shown.at]_vars
  BY PageInvNext DEF Forward
<1> QED BY <1>1, PageInvAlways, PTL DEF Spec, NeverOlder

----------------------------------------------------------------------------
(* Every flow comes to its end *)

\* An outdated flow is in no step and has not failed.
Settled(r) == ~ r.live => r.step = 0 /\ ~ r.failed

\* As far from its end as before.
Level(q, r) ==
    /\ q.kind = r.kind /\ q.live = r.live /\ q.failed = r.failed /\ q.step = r.step
    /\ q.pc = r.pc /\ q.left = r.left /\ q.answer = r.answer

\* The flow r has become q.
Goes(q, r) == Settled(q) /\ (r.kind # "none" => Level(q, r) \/ Nearer(q, r))

LEMMA PhaseValues ==
    /\ Phase["current"] = 8 /\ Phase["session"] = 7 /\ Phase["workflow"] = 6
    /\ Phase["command"] = 5 /\ Phase["refresh"] = 4 /\ Phase["gate"] = 3 /\ Phase["sleep"] = 3
    /\ Phase["summary"] = 2 /\ Phase["reset"] = 1 /\ Phase["end"] = 0
<1>1. Phase["current"] = 8
  BY Zenon DEF Phase
<1>2. Phase["session"] = 7
  BY Zenon DEF Phase
<1>3. Phase["workflow"] = 6
  BY Zenon DEF Phase
<1>4. Phase["command"] = 5
  BY Zenon DEF Phase
<1>5. Phase["refresh"] = 4
  BY Zenon DEF Phase
<1>6. Phase["gate"] = 3 /\ Phase["sleep"] = 3
  BY Zenon DEF Phase
<1>7. Phase["summary"] = 2 /\ Phase["reset"] = 1 /\ Phase["end"] = 0
  BY Zenon DEF Phase
<1> QED BY <1>1, <1>2, <1>3, <1>4, <1>5, <1>6, <1>7

\* A flow that has moved nearer its end is not where it was.
LEMMA NearerMoves ==
    ASSUME NEW r \in FlowRecord, NEW q \in FlowRecord, Nearer(q, r), r.kind # "none"
    PROVE  Progress(q) # Progress(r)
<1> SUFFICES ASSUME Progress(q) = Progress(r) PROVE FALSE
  OBVIOUS
<1>1. Level(q, r)
  BY DEF Progress, Level
<1>2. PhaseOf(q) = PhaseOf(r) /\ Unanswered(q) = Unanswered(r)
  BY <1>1 DEF Level, PhaseOf, Unanswered
<1>3. q.step \in Int /\ q.left \in Int /\ Unanswered(q) \in Int
  BY DEF FlowRecord, Unanswered
<1>4. PhaseOf(q) < PhaseOf(r)
  BY <1>1, <1>2, <1>3 DEF Level, Nearer
<1>5. PhaseOf(q) \in Int
  <2>1. \A pc \in Await : Phase[pc] \in Int
    BY PhaseValues DEF Await
  <2>2. q.pc \in Await
    BY DEF FlowRecord, Await
  <2>3. Phase[q.pc] \in Int
    BY <2>1, <2>2
  <2>4. CASE q.kind = "load" /\ q.pc = "workflow"
    BY <2>4 DEF PhaseOf
  <2>5. CASE ~ (q.kind = "load" /\ q.pc = "workflow")
    BY <2>3, <2>5 DEF PhaseOf
  <2> QED BY <2>4, <2>5
<1> QED BY <1>2, <1>4, <1>5

LEMMA LevelGoes ==
    ASSUME NEW r, NEW q, Level(q, r), Settled(r)
    PROVE  Goes(q, r)
BY DEF Goes, Level, Settled

LEMMA EndedGoes == \A r : Goes(Ended, r) /\ Nearer(Ended, r)
<1>1. Ended.step = 0
  BY DEF Ended
<1> QED BY <1>1, EndedTyped DEF Goes, Settled, Nearer

\* A flow that is outdated.
LEMMA StaleGoes ==
    ASSUME NEW r \in FlowRecord, Shape(r), Settled(r), NEW q, q = Stale(r)
    PROVE  Goes(q, r)
<1>1. CASE r.kind = "none"
  BY <1>1 DEF Stale, Goes, Settled
<1>2. CASE r.kind # "none"
  <2>1. PICK e \in FlowRecord : e = Ended
    BY EndedTyped
  <2>2. q = [e EXCEPT !.kind = r.kind, !.pc = r.pc, !.sent = r.sent, !.answer = r.answer,
                      !.got = r.got, !.left = r.left, !.fresh = r.fresh]
    BY <1>2, <2>1 DEF Stale
  <2>3. e.step = 0 /\ e.live = FALSE /\ e.failed = FALSE
    BY <2>1, EndedTyped DEF Ended
  <2>4. /\ q.live = e.live /\ q.failed = e.failed /\ q.step = e.step /\ q.left = r.left
        /\ q.kind = r.kind /\ q.pc = r.pc /\ q.answer = r.answer
    BY <2>2 DEF FlowRecord
  <2>5. r.live \in BOOLEAN /\ r.failed \in BOOLEAN
    BY DEF FlowRecord
  <2>6. CASE r.live
    BY <2>3, <2>4, <2>6 DEF Goes, Settled, Nearer
  <2>7. CASE ~ r.live
    <3>1. r.live = FALSE /\ r.failed = FALSE /\ r.step = 0
      BY <2>5, <2>7 DEF Settled
    <3>2. Level(q, r)
      BY <2>3, <2>4, <3>1 DEF Level
    <3> QED BY <3>2, LevelGoes
  <2> QED BY <2>6, <2>7
<1> QED BY <1>1, <1>2

\* Taking the freshness away changes nothing of that.
LEMMA FadedLevel ==
    ASSUME NEW r \in FlowRecord, NEW b, NEW q, q = [r EXCEPT !.fresh = b]
    PROVE  Level(q, r)
BY DEF Level, FlowRecord

LEMMA LevelThen ==
    ASSUME NEW p, NEW q, NEW r, Level(p, q), Goes(q, r)
    PROVE  Goes(p, r)
<1>1. PhaseOf(p) = PhaseOf(q) /\ Unanswered(p) = Unanswered(q)
  BY DEF Level, PhaseOf, Unanswered
<1>2. Settled(p)
  BY DEF Goes, Level, Settled
<1>3. Level(q, r) => Level(p, r)
  BY DEF Level
<1>4. Nearer(q, r) => Nearer(p, r)
  BY <1>1 DEF Level, Nearer
<1> QED BY <1>2, <1>3, <1>4 DEF Goes

RunInv == PageInv /\ \A g \in Flow : Settled(flows[g])

\* Every flow is as far as it was, or nearer its end.
AllGo == flows' \in [Flow -> FlowRecord] /\ \A g \in Flow : Goes(flows'[g], flows[g])

\* The flow f itself is nearer its end.
Advances(f) == AllGo /\ Nearer(flows'[f], flows[f])

LEMMA SendLevels ==
    ASSUME NEW fl \in [Flow -> FlowRecord], NEW f \in Flow, NEW r \in Draft, NEW pc \in Await,
           NEW c \in 0..MaxSessions, NEW s, s = Send(fl, f, r, pc, c)
    PROVE  /\ s \in [Flow -> FlowRecord] /\ Sent(s[f], r, pc, c)
           /\ \A g \in Flow \ {f} : Level(s[g], fl[g])
<1>1. s \in [Flow -> FlowRecord] /\ Sent(s[f], r, pc, c)
  BY SendEffect
<1>2. ASSUME NEW g \in Flow \ {f} PROVE Level(s[g], fl[g])
  <2>1. PICK b : b = (fl[g].fresh /\ pc # "refresh")
    OBVIOUS
  <2>2. s[g] = [fl[g] EXCEPT !.fresh = b]
    BY <2>1, Zenon DEF Send
  <2>3. fl[g] \in FlowRecord
    OBVIOUS
  <2> QED BY <2>2, <2>3, FadedLevel
<1> QED BY <1>1, <1>2

PhaseAt(kind, pc) == IF kind = "load" /\ pc = "workflow" THEN 1 ELSE Phase[pc]

\* A flow in the midst of its work sends its next request.
LEMMA SendAdvances ==
    ASSUME RunInv, NEW f \in Flow, NEW r \in Draft, NEW pc \in Await, NEW c \in 0..MaxSessions,
           flows' = Send(flows, f, r, pc, c),
           r.kind = flows[f].kind, r.live = flows[f].live, r.step = flows[f].step,
           \/ r.live /\ r.failed /\ ~ flows[f].failed
           \/ /\ r.failed = flows[f].failed
              /\ \/ PhaseAt(r.kind, pc) < PhaseOf(flows[f])
                 \/ PhaseAt(r.kind, pc) = PhaseOf(flows[f]) /\ r.left < flows[f].left
    PROVE  Advances(f)
<1>1. flows \in [Flow -> FlowRecord] /\ Settled(flows[f])
  BY DEF RunInv, PageInv, TypeOK
<1>2. /\ flows' \in [Flow -> FlowRecord] /\ Sent(flows'[f], r, pc, c)
      /\ \A g \in Flow \ {f} : Level(flows'[g], flows[g])
  BY <1>1, SendLevels
<1>3. PhaseOf(flows'[f]) = PhaseAt(r.kind, pc)
  BY <1>2 DEF Sent, PhaseOf, PhaseAt
<1>4. Nearer(flows'[f], flows[f])
  BY <1>2, <1>3 DEF Nearer, Sent
<1>5. Settled(flows'[f])
  BY <1>1, <1>2 DEF Settled, Sent
<1>6. \A g \in Flow \ {f} : Goes(flows'[g], flows[g])
  BY <1>2, LevelGoes DEF RunInv
<1>7. Goes(flows'[f], flows[f])
  BY <1>4, <1>5 DEF Goes
<1> QED BY <1>2, <1>4, <1>6, <1>7 DEF Advances, AllGo

\* The next step, or the summary after the last one.
LEMMA NextStepAdvances ==
    ASSUME RunInv, NEW f \in Flow, flows[f].live, flows[f].kind = "play",
           flows[f].pc \in {"refresh", "gate", "sleep"}, NEW c \in 0..MaxSessions,
           flows' = NextStep(flows, f, c)
    PROVE  Advances(f)
<1>0. flows \in [Flow -> FlowRecord] /\ flows[f] \in FlowRecord /\ flows[f] \in Draft
  BY DraftTyped DEF RunInv, PageInv, TypeOK
<1>1. CASE flows[f].step < Len(Plan)
  <2>0. PICK k : k = flows[f].step + 1
    OBVIOUS
  <2>1. k \in 1..Len(Plan) /\ k \in 0..Len(Plan) /\ k > flows[f].step
    <3>1. flows[f].step \in 0..Len(Plan) /\ Len(Plan) \in Nat
      BY <1>0, ControllerAssumption DEF FlowRecord
    <3> QED BY <1>1, <2>0, <3>1
  <2>2. PICK n \in Nat : n = Plan[k].commands
    <3>1. Plan[k] \in [commands : Nat \ {0}, pause : BOOLEAN]
      BY <2>1, ElementTyped, ControllerAssumption, Zenon
    <3> QED BY <3>1
  <2>3. PICK r : r = [flows[f] EXCEPT !.step = k, !.left = n, !.wrote = Nothing,
                                      !.pc = "between"]
    OBVIOUS
  <2>4. flows' = Send(flows, f, r, "command", c)
    BY <1>1, <2>0, <2>2, <2>3 DEF NextStep, BeginStep
  <2>5. /\ r \in Draft /\ r.live = flows[f].live /\ r.failed = flows[f].failed /\ r.step = k
    <3>1. r = [flows[f] EXCEPT !.step = k, !.left = n, !.wrote = Nothing, !.pc = "between"]
      BY <2>3
    <3>2. "between" \in Await \cup {"between"}
      OBVIOUS
    <3> QED BY <1>0, <2>1, <3>1, <3>2, NothingTyped DEF Draft
  <2>6. /\ flows' \in [Flow -> FlowRecord] /\ Sent(flows'[f], r, "command", c)
        /\ \A g \in Flow \ {f} : Level(flows'[g], flows[g])
    BY <1>0, <2>4, <2>5, SendLevels DEF Await
  <2>7. Nearer(flows'[f], flows[f]) /\ Settled(flows'[f])
    BY <2>1, <2>5, <2>6 DEF Nearer, Settled, Sent
  <2>8. \A g \in Flow \ {f} : Goes(flows'[g], flows[g])
    BY <2>6, LevelGoes DEF RunInv
  <2>9. Goes(flows'[f], flows[f])
    BY <2>7 DEF Goes
  <2> QED BY <2>6, <2>7, <2>8, <2>9 DEF Advances, AllGo
<1>2. CASE ~ (flows[f].step < Len(Plan))
  <2>1. flows' = Send(flows, f, flows[f], "summary", c)
    BY <1>2 DEF NextStep
  <2>2. PhaseOf(flows[f]) \in {3, 4}
    BY PhaseValues DEF PhaseOf
  <2>3. "summary" \in Await /\ Phase["summary"] = 2
    BY PhaseValues DEF Await
  <2>4. PhaseAt(flows[f].kind, "summary") < PhaseOf(flows[f])
    BY <2>2, <2>3 DEF PhaseAt
  <2> QED BY <1>0, <2>1, <2>3, <2>4, SendAdvances
<1> QED BY <1>1, <1>2

\* A flow comes to its end.
LEMMA FinishAdvances ==
    ASSUME RunInv, NEW f \in Flow, flows' = Finish(flows, f)
    PROVE  Advances(f)
<1>1. flows \in [Flow -> FlowRecord]
  BY DEF RunInv, PageInv, TypeOK
<1>2. flows' \in [Flow -> FlowRecord] /\ flows'[f] = Ended
      /\ \A g \in Flow \ {f} : flows'[g] = flows[g]
  BY <1>1, FinishEffect
<1>3. \A g \in Flow \ {f} : Goes(flows'[g], flows[g])
  BY <1>2, LevelGoes DEF RunInv, Level
<1> QED BY <1>2, <1>3, EndedGoes DEF Advances, AllGo

\* A play waits, for the viewer or for the delay.
LEMMA RestAdvances ==
    ASSUME RunInv, NEW f \in Flow, flows[f].live, flows[f].kind = "play", flows[f].pc = "refresh",
           NEW pc \in {"gate", "sleep"}, flows' = Rest(flows, f, pc)
    PROVE  Advances(f)
<1>1. flows \in [Flow -> FlowRecord] /\ flows[f] \in FlowRecord
  BY DEF RunInv, PageInv, TypeOK
<1>2. PICK q : q = [flows[f] EXCEPT !.pc = pc, !.sent = 0, !.answer = "none", !.got = Nothing]
  OBVIOUS
<1>3. flows' = [flows EXCEPT ![f] = q]
  BY <1>2 DEF Rest
<1>4. /\ q \in FlowRecord /\ q.live = flows[f].live /\ q.failed = flows[f].failed
      /\ q.step = flows[f].step /\ q.pc = pc /\ q.kind = flows[f].kind
  <2>1. 0 \in 0..MaxSessions
    BY ControllerAssumption
  <2> QED BY <1>1, <1>2, <2>1, NothingTyped DEF FlowRecord
<1>5. PhaseOf(q) = 3 /\ PhaseOf(flows[f]) = 4
  BY <1>4, PhaseValues DEF PhaseOf
<1>6. Nearer(q, flows[f]) /\ Settled(q)
  BY <1>4, <1>5 DEF Nearer, Settled
<1>7. flows' \in [Flow -> FlowRecord] /\ flows'[f] = q /\ \A g \in Flow \ {f} : flows'[g] = flows[g]
  BY <1>1, <1>3, <1>4
<1>8. \A g \in Flow \ {f} : Goes(flows'[g], flows[g])
  BY <1>7, LevelGoes DEF RunInv, Level
<1> QED BY <1>6, <1>7, <1>8 DEF Advances, AllGo, Goes

\* What is left of the flows when the page starts over, or a play is stopped.
LEMMA AbandonedGoes ==
    ASSUME RunInv, NEW a, a = Abandoned(flows)
    PROVE  a \in [Flow -> FlowRecord] /\ \A g \in Flow : Goes(a[g], flows[g])
<1>1. flows \in [Flow -> FlowRecord] /\ \A g \in Flow : Shape(flows[g]) /\ Settled(flows[g])
  BY DEF RunInv, PageInv, TypeOK, FlowInv
<1>2. a \in [Flow -> FlowRecord]
  BY <1>1, AbandonedEffect
<1>3. ASSUME NEW g \in Flow PROVE Goes(a[g], flows[g])
  <2>1. CASE g = gate
    <3>1. a[g] = Ended
      BY <2>1, Zenon DEF Abandoned
    <3> QED BY <3>1, EndedGoes
  <2>2. CASE g # gate
    <3>1. PICK q : q = Stale(flows[g])
      OBVIOUS
    <3>2. q \in FlowRecord /\ Goes(q, flows[g])
      BY <1>1, <3>1, StaleEffect, StaleGoes DEF Outdates
    <3>3. a[g] = [q EXCEPT !.fresh = FALSE]
      BY <2>2, <3>1, Zenon DEF Abandoned
    <3>4. Level(a[g], q)
      BY <3>2, <3>3, FadedLevel
    <3> QED BY <3>2, <3>4, LevelThen
  <2> QED BY <2>1, <2>2
<1> QED BY <1>2, <1>3

LEMMA LeavesAdvances ==
    ASSUME RunInv, NEW f \in Flow, flows' = Finish(Abandoned(flows), f)
    PROVE  Advances(f)
<1>1. PICK a : a = Abandoned(flows)
  OBVIOUS
<1>2. a \in [Flow -> FlowRecord] /\ \A g \in Flow : Goes(a[g], flows[g])
  BY <1>1, AbandonedGoes
<1>3. flows' \in [Flow -> FlowRecord] /\ flows'[f] = Ended /\ \A g \in Flow \ {f} : flows'[g] = a[g]
  BY <1>1, <1>2, FinishEffect
<1> QED BY <1>2, <1>3, EndedGoes DEF Advances, AllGo

\* The server carries out the request of a flow.
LEMMA AnswerAdvances ==
    ASSUME RunInv, NEW f \in Flow, InFlight(f), NEW answer \in {"ok", "lost"}, NEW got,
           Answer(f, answer, got), TypeOK'
    PROVE  Advances(f)
<1>1. flows \in [Flow -> FlowRecord] /\ flows[f] \in FlowRecord /\ flows' \in [Flow -> FlowRecord]
  BY DEF RunInv, PageInv, TypeOK
<1>2. PICK q : q = [flows[f] EXCEPT !.answer = answer, !.got = got]
  OBVIOUS
<1>3. /\ q.kind = flows[f].kind /\ q.live = flows[f].live
      /\ q.failed = flows[f].failed /\ q.step = flows[f].step /\ q.pc = flows[f].pc
      /\ q.left = flows[f].left /\ q.answer = answer
  BY <1>1, <1>2 DEF FlowRecord
<1>4. Unanswered(q) = 1 /\ Unanswered(flows[f]) = 2 /\ PhaseOf(q) = PhaseOf(flows[f])
  BY <1>3 DEF Unanswered, PhaseOf, InFlight
<1>5. Nearer(q, flows[f]) /\ Settled(q)
  BY <1>3, <1>4 DEF Nearer, RunInv, Settled
<1>6. flows'[f] = q /\ \A g \in Flow \ {f} : flows'[g] = flows[g]
  BY <1>1, <1>2 DEF Answer
<1>7. \A g \in Flow \ {f} : Goes(flows'[g], flows[g])
  BY <1>6, LevelGoes DEF RunInv, Level
<1> QED BY <1>1, <1>5, <1>6, <1>7 DEF Advances, AllGo, Goes

LEMMA HandleAdvances ==
    ASSUME RunInv, NEW f \in Flow, Handle(f), TypeOK'
    PROVE  Advances(f) /\ flows[f].kind # "none"
<1>1. InFlight(f)
  BY DEF Handle, CreateSession, Read, Save, Reset, Requested
<1>2. flows[f].kind # "none"
  BY <1>1 DEF InFlight, RunInv, PageInv, FlowInv, Shape
<1>3. ASSUME CreateSession(f)
      PROVE  \E answer \in {"ok", "lost"} : \E got : Answer(f, answer, got)
  BY <1>3, Zenon DEF CreateSession
<1>4. ASSUME Read(f)
      PROVE  \E answer \in {"ok", "lost"} : \E got : Answer(f, answer, got)
  BY <1>4, Zenon DEF Read
<1>5. ASSUME Save(f)
      PROVE  \E answer \in {"ok", "lost"} : \E got : Answer(f, answer, got)
  BY <1>5, Zenon DEF Save
<1>6. ASSUME Reset(f)
      PROVE  \E answer \in {"ok", "lost"} : \E got : Answer(f, answer, got)
  BY <1>6, Zenon DEF Reset
<1>7. PICK answer \in {"ok", "lost"} : \E got : Answer(f, answer, got)
  BY <1>3, <1>4, <1>5, <1>6 DEF Handle
<1>8. PICK got : Answer(f, answer, got)
  BY <1>7
<1> QED BY <1>1, <1>2, <1>8, AnswerAdvances

LEMMA FailAdvances ==
    ASSUME RunInv, NEW f \in Flow, Fail(f)
    PROVE  Advances(f)
<1>1. flows[f] \in FlowRecord /\ cookie \in 0..MaxSessions
  BY DEF RunInv, PageInv, TypeOK
<1>2. CASE flows[f].live /\ ~ flows[f].failed /\ flows[f].kind \in {"play", "manual"}
  <2>1. PICK r : r = [flows[f] EXCEPT !.failed = TRUE]
    OBVIOUS
  <2>2. flows' = Send(flows, f, r, "refresh", cookie)
    BY <1>2, <2>1 DEF Fail
  <2>3. /\ r \in FlowRecord /\ r.kind = flows[f].kind /\ r.live = flows[f].live
        /\ r.step = flows[f].step /\ r.failed
    BY <1>1, <2>1 DEF FlowRecord
  <2>4. "refresh" \in Await /\ r \in Draft
    BY <2>3, DraftTyped DEF Await
  <2>5. r.live /\ r.failed /\ ~ flows[f].failed
    BY <1>2, <2>3
  <2> QED BY <1>1, <2>2, <2>3, <2>4, <2>5, SendAdvances
<1>3. CASE ~ (flows[f].live /\ ~ flows[f].failed /\ flows[f].kind \in {"play", "manual"})
  <2>1. flows' = Finish(flows, f)
    BY <1>3, Zenon DEF Fail
  <2> QED BY <2>1, FinishAdvances
<1> QED BY <1>2, <1>3

\* A request whose answer has arrived, with the phase it was in.
LEMMA Progressing ==
    ASSUME RunInv, NEW f \in Flow
    PROVE  /\ PageInv /\ flows[f] \in FlowRecord /\ flows[f] \in Draft /\ Shape(flows[f])
           /\ cookie \in 0..MaxSessions /\ flows[f].live \in BOOLEAN
           /\ flows[f].pc \notin {"workflow"} => PhaseOf(flows[f]) = Phase[flows[f].pc]
           /\ flows[f].kind # "load" => PhaseOf(flows[f]) = Phase[flows[f].pc]
           /\ flows[f].left \in Nat
BY DraftTyped DEF RunInv, PageInv, TypeOK, FlowInv, FlowRecord, PhaseOf

LEMMA CurrentReadAdvances ==
    ASSUME RunInv, NEW f \in Flow, CurrentRead(f)
    PROVE  Advances(f)
<1>1. flows[f].kind = "load" /\ flows[f].pc = "current"
  BY Progressing DEF CurrentRead, Arrived, Shape, FlowRecord
<1>2. CASE flows[f].live
  <2>1. flows' = Send(flows, f, flows[f], "refresh", cookie) /\ "refresh" \in Await
    BY <1>2 DEF CurrentRead, Await
  <2>2. PhaseAt(flows[f].kind, "refresh") < PhaseOf(flows[f])
    BY <1>1, Progressing, PhaseValues DEF PhaseAt
  <2> QED BY <2>1, <2>2, Progressing, SendAdvances
<1>3. CASE ~ flows[f].live
  BY <1>3, FinishAdvances DEF CurrentRead
<1> QED BY <1>2, <1>3

LEMMA SessionOpenedAdvances ==
    ASSUME RunInv, NEW f \in Flow, SessionOpened(f), TypeOK'
    PROVE  Advances(f)
<1>1. flows[f].kind \in {"play", "manual"} /\ flows[f].pc = "session"
  BY Progressing DEF SessionOpened, Arrived, Shape, FlowRecord
<1>2. PICK c \in 0..MaxSessions : c = cookie'
  BY DEF TypeOK
<1>3. flows' = Send(flows, f, flows[f], "workflow", c) /\ "workflow" \in Await
  BY <1>2 DEF SessionOpened, Await
<1>4. PhaseAt(flows[f].kind, "workflow") < PhaseOf(flows[f])
  BY <1>1, Progressing, PhaseValues DEF PhaseAt
<1> QED BY <1>3, <1>4, Progressing, SendAdvances

LEMMA WorkflowReadAdvances ==
    ASSUME RunInv, NEW f \in Flow, WorkflowRead(f)
    PROVE  Advances(f)
<1>1. flows[f].kind \in {"load", "play", "manual"} /\ flows[f].pc = "workflow"
  BY Progressing DEF WorkflowRead, Arrived, Shape, FlowRecord
<1>2. CASE flows[f].kind = "load" \/ ~ flows[f].live
  BY <1>2, FinishAdvances DEF WorkflowRead
<1>3. CASE ~ (flows[f].kind = "load" \/ ~ flows[f].live)
  <2>1. PICK pc \in {"refresh", "command"} : flows' = Send(flows, f, flows[f], pc, cookie)
    BY <1>3 DEF WorkflowRead
  <2>2. pc \in Await /\ PhaseAt(flows[f].kind, pc) < PhaseOf(flows[f])
    BY <1>1, <1>3, Progressing, PhaseValues DEF PhaseAt, Await
  <2> QED BY <2>1, <2>2, Progressing, SendAdvances
<1> QED BY <1>2, <1>3

LEMMA RefreshReadAdvances ==
    ASSUME RunInv, NEW f \in Flow, RefreshRead(f)
    PROVE  Advances(f)
<1>0. flows[f].pc = "refresh"
  BY DEF RefreshRead, Arrived
<1>1. CASE flows[f].kind = "play" /\ flows[f].live /\ ~ flows[f].failed
  <2>1. BetweenSteps(f, Shown(f))
    BY <1>1 DEF RefreshRead
  <2>2. \/ flows' = NextStep(flows, f, cookie)
        \/ \E pc \in {"gate", "sleep"} : flows' = Rest(flows, f, pc)
    BY <2>1, Zenon DEF BetweenSteps
  <2> QED BY <1>0, <1>1, <2>2, Progressing, NextStepAdvances, RestAdvances
<1>2. CASE ~ (flows[f].kind = "play" /\ flows[f].live /\ ~ flows[f].failed)
  <2>1. CASE flows[f].kind = "load" /\ flows[f].live
    <3>1. flows' = Send(flows, f, flows[f], "workflow", cookie) /\ "workflow" \in Await
      BY <1>2, <2>1 DEF RefreshRead, Await
    <3>2. PhaseAt(flows[f].kind, "workflow") < PhaseOf(flows[f])
      BY <1>0, <2>1, Progressing, PhaseValues DEF PhaseAt
    <3> QED BY <3>1, <3>2, Progressing, SendAdvances
  <2>2. CASE ~ (flows[f].kind = "load" /\ flows[f].live)
    <3>1. flows' = Finish(flows, f)
      BY <1>2, <2>2, Zenon DEF RefreshRead
    <3> QED BY <3>1, FinishAdvances
  <2> QED BY <2>1, <2>2
<1> QED BY <1>1, <1>2

LEMMA DelayOverAdvances ==
    ASSUME RunInv, NEW f \in Flow, DelayOver(f)
    PROVE  Advances(f) /\ flows[f].kind # "none"
<1>1. flows[f].kind = "play" /\ flows[f].pc = "sleep"
  BY Progressing DEF DelayOver, Shape, FlowRecord
<1>2. CASE flows[f].live
  <2>1. flows' = NextStep(flows, f, cookie)
    BY <1>2 DEF DelayOver
  <2> QED BY <1>1, <1>2, <2>1, Progressing, NextStepAdvances
<1>3. CASE ~ flows[f].live
  <2>1. flows' = Finish(flows, f)
    BY <1>3 DEF DelayOver
  <2> QED BY <1>1, <2>1, FinishAdvances
<1> QED BY <1>1, <1>2, <1>3

LEMMA CommandSavedAdvances ==
    ASSUME RunInv, NEW f \in Flow, CommandSaved(f)
    PROVE  Advances(f)
<1>1. flows[f].pc = "command" /\ flows[f].left > 0
  BY Progressing DEF CommandSaved, Arrived, Shape
<1>2. PICK n \in Nat : n = flows[f].left - 1 /\ n < flows[f].left
  <2>1. flows[f].left \in Nat
    BY Progressing
  <2>2. flows[f].left - 1 \in Nat /\ flows[f].left - 1 < flows[f].left
    BY <1>1, <2>1
  <2> QED BY <2>2
<1>3. PICK w \in Reads : w = IF flows[f].kind = "play" THEN flows[f].got ELSE Nothing
  BY Progressing, NothingTyped DEF FlowRecord
<1>4. PICK r : r = [flows[f] EXCEPT !.left = n, !.wrote = w]
  OBVIOUS
<1>5. /\ r \in Draft /\ r.kind = flows[f].kind /\ r.live = flows[f].live /\ r.left = n
      /\ r.failed = flows[f].failed /\ r.step = flows[f].step
  BY <1>4, Progressing DEF Draft
<1>6. flows' = (IF r.left > 0 THEN Send(flows, f, r, "command", cookie)
                ELSE IF r.live THEN Send(flows, f, r, "refresh", cookie)
                ELSE Finish(flows, f))
  BY <1>2, <1>3, <1>4, Zenon DEF CommandSaved
<1>7. "command" \in Await /\ "refresh" \in Await
  BY DEF Await
<1>8. PhaseAt(r.kind, "command") = PhaseOf(flows[f]) /\ PhaseAt(r.kind, "refresh") < PhaseOf(flows[f])
  BY <1>1, Progressing, PhaseValues DEF PhaseAt
<1>9. CASE flows' = Send(flows, f, r, "command", cookie)
  BY <1>2, <1>5, <1>7, <1>8, <1>9, Progressing, SendAdvances
<1>10. CASE flows' = Send(flows, f, r, "refresh", cookie)
  BY <1>5, <1>7, <1>8, <1>10, Progressing, SendAdvances
<1> QED BY <1>6, <1>9, <1>10, FinishAdvances

LEMMA ArriveAdvances ==
    ASSUME RunInv, NEW f \in Flow, Arrive(f), TypeOK'
    PROVE  Advances(f) /\ flows[f].kind # "none"
<1>1. CASE DelayOver(f)
  BY <1>1, DelayOverAdvances
<1>2. CASE ~ DelayOver(f)
  <2>1. flows[f].answer # "none"
    BY <1>2 DEF Arrive, InFlight, Arrived, SessionEnded, CurrentRead, SessionOpened, WorkflowRead,
       RefreshRead, CommandSaved, SummaryRead, Cleared, Refused, Mismatch
  <2>2. flows[f].kind # "none"
    BY <2>1, Progressing DEF Shape
  <2>3. ASSUME SessionEnded(f) \/ Cleared(f) PROVE Advances(f)
    BY <2>3, LeavesAdvances DEF SessionEnded, Cleared
  <2>4. ASSUME SummaryRead(f) PROVE Advances(f)
    BY <2>4, FinishAdvances DEF SummaryRead
  <2>5. ASSUME Refused(f) \/ Mismatch(f) PROVE Advances(f)
    BY <2>5, FailAdvances DEF Refused, Mismatch
  <2> QED BY <1>2, <2>2, <2>3, <2>4, <2>5, CurrentReadAdvances, SessionOpenedAdvances, WorkflowReadAdvances,
       RefreshReadAdvances, CommandSavedAdvances DEF Arrive
<1> QED BY <1>1, <1>2

----------------------------------------------------------------------------
(* The viewer starts a flow, resumes one, or stops *)

\* A flow starts in a free slot, beside flows that go on as o says.
LEMMA StartGoes ==
    ASSUME RunInv, NEW f \in Flow, flows[f].kind = "none",
           NEW o \in [Flow -> FlowRecord], \A g \in Flow : Goes(o[g], flows[g]),
           NEW r \in Draft, Settled(r), NEW pc \in Await, flows' = Send(o, f, r, pc, cookie)
    PROVE  AllGo
<1>1. /\ flows' \in [Flow -> FlowRecord] /\ Sent(flows'[f], r, pc, cookie)
      /\ \A g \in Flow \ {f} : Level(flows'[g], o[g])
  BY Progressing, SendLevels
<1>2. \A g \in Flow \ {f} : Goes(flows'[g], flows[g])
  BY <1>1, LevelThen
<1>3. Goes(flows'[f], flows[f])
  BY <1>1 DEF Goes, Sent, Settled
<1> QED BY <1>1, <1>2, <1>3 DEF AllGo

LEMMA SameGoes ==
    ASSUME RunInv, flows' = flows
    PROVE  AllGo
<1>1. flows \in [Flow -> FlowRecord] /\ \A g \in Flow : Settled(flows[g])
  BY DEF RunInv, PageInv, TypeOK
<1>2. \A g \in Flow : Level(flows'[g], flows[g])
  BY DEF Level
<1> QED BY <1>1, <1>2, LevelGoes DEF AllGo

LEMMA SlotsGo ==
    ASSUME RunInv
    PROVE  flows \in [Flow -> FlowRecord] /\ \A g \in Flow : Goes(flows[g], flows[g])
<1>1. flows \in [Flow -> FlowRecord] /\ \A g \in Flow : Settled(flows[g])
  BY DEF RunInv, PageInv, TypeOK
<1> QED BY <1>1, LevelGoes DEF Level

LEMMA StartPlayGoes ==
    ASSUME RunInv, NEW f \in Flow, NEW stepwise \in BOOLEAN, StartPlay(f, stepwise)
    PROVE  AllGo
<1>1. PICK r : r = [Ended EXCEPT !.kind = "play", !.live = TRUE, !.stepwise = stepwise]
  OBVIOUS
<1>2. PICK pc \in {"session", "workflow"} : pc = IF page.session = 0 THEN "session" ELSE "workflow"
  OBVIOUS
<1>3. PICK o : o = Outdated(flows)
  OBVIOUS
<1>4. flows' = Send(o, f, r, pc, cookie) /\ flows[f].kind = "none"
  BY <1>1, <1>2, <1>3 DEF StartPlay, Free
<1>5. ASSUME NEW g \in Flow PROVE o[g] \in FlowRecord /\ Goes(o[g], flows[g])
  <2>1. flows[g] \in FlowRecord /\ Shape(flows[g]) /\ Settled(flows[g])
    BY Progressing DEF RunInv
  <2>2. o[g] = Stale(flows[g])
    BY <1>3 DEF Outdated
  <2> QED BY <2>1, <2>2, StaleEffect, StaleGoes DEF Outdates
<1>6. o \in [Flow -> FlowRecord]
  BY <1>3, <1>5 DEF Outdated
<1>7. r \in Draft /\ r.live /\ pc \in Await
  BY <1>1, StartTyped DEF Await
<1>8. Settled(r)
  BY <1>7 DEF Settled
<1> QED BY <1>4, <1>5, <1>6, <1>7, <1>8, StartGoes

LEMMA ManualCommandGoes ==
    ASSUME RunInv, NEW f \in Flow, NEW n \in {1, 2}, ManualCommand(f, n)
    PROVE  AllGo
<1>1. PICK r : r = [Ended EXCEPT !.kind = "manual", !.live = TRUE, !.left = n]
  OBVIOUS
<1>2. PICK pc \in {"session", "workflow"} : pc = IF page.session = 0 THEN "session" ELSE "workflow"
  OBVIOUS
<1>3. flows' = Send(flows, f, r, pc, cookie) /\ flows[f].kind = "none"
  BY <1>1, <1>2 DEF ManualCommand, Free
<1>4. r \in Draft /\ r.live /\ pc \in Await
  BY <1>1, StartTyped DEF Await
<1>5. Settled(r)
  BY <1>4 DEF Settled
<1> QED BY <1>3, <1>4, <1>5, SlotsGo, StartGoes

LEMMA ClearGoes ==
    ASSUME RunInv, NEW f \in Flow, Clear(f)
    PROVE  AllGo
<1>1. PICK r : r = [Ended EXCEPT !.kind = "clear"]
  OBVIOUS
<1>2. flows' = Send(flows, f, r, "reset", cookie) /\ flows[f].kind = "none"
  BY <1>1 DEF Clear, Free
<1>3. r \in Draft /\ ~ r.failed /\ "reset" \in Await
  BY <1>1, StartTyped DEF Await
<1>4. Settled(r)
  <2>1. r.step = 0
    BY <1>1 DEF Ended
  <2> QED BY <1>3, <2>1 DEF Settled
<1> QED BY <1>2, <1>3, <1>4, SlotsGo, StartGoes

LEMMA ProceedGoes ==
    ASSUME RunInv, Proceed
    PROVE  AllGo
<1>1. /\ gate \in Flow /\ flows[gate].live /\ flows[gate].kind = "play" /\ flows[gate].pc = "gate"
  BY DEF Proceed, RunInv, PageInv, PlayInv, Playing
<1>2. flows' = NextStep(flows, gate, cookie)
  BY DEF Proceed
<1> QED BY <1>1, <1>2, Progressing, NextStepAdvances DEF Advances

LEMMA StopGoes ==
    ASSUME RunInv, Stop
    PROVE  AllGo
BY AbandonedGoes DEF Stop, AllGo

LEMMA ViewerGoes ==
    ASSUME RunInv, Viewer
    PROVE  AllGo
<1>1. ASSUME OpenManual \/ CloseManual \/ AskToRun \/ Dismiss \/ AskToClear
      PROVE  AllGo
  BY <1>1, SameGoes DEF OpenManual, CloseManual, AskToRun, Dismiss, AskToClear
<1>2. ASSUME NEW f \in Flow, NEW stepwise \in BOOLEAN, StartPlay(f, stepwise)
      PROVE  AllGo
  BY <1>2, StartPlayGoes
<1>3. ASSUME NEW f \in Flow, NEW n \in {1, 2}, ManualCommand(f, n)
      PROVE  AllGo
  BY <1>3, ManualCommandGoes
<1>4. ASSUME NEW f \in Flow, Clear(f)
      PROVE  AllGo
  BY <1>4, ClearGoes
<1> QED BY <1>1, <1>2, <1>3, <1>4, ProceedGoes, StopGoes DEF Viewer

----------------------------------------------------------------------------

LEMMA RunInvInit == Init => RunInv
<1> SUFFICES ASSUME Init PROVE RunInv
  OBVIOUS
<1>1. PICK r : r = [Ended EXCEPT !.kind = "load", !.live = TRUE]
  OBVIOUS
<1>2. r \in Draft /\ r.live
  BY <1>1, StartTyped
<1>3. PICK o : o = [g \in Flow |-> Ended]
  OBVIOUS
<1>4. 1 \in Flow /\ o \in [Flow -> FlowRecord] /\ \A g \in Flow : o[g] = Ended
  BY <1>3, EndedTyped, ControllerAssumption DEF Flow
<1>5. cookie \in 0..MaxSessions /\ "current" \in Await /\ flows = Send(o, 1, r, "current", cookie)
  BY <1>1, <1>3, ControllerAssumption DEF Init, Await
<1>6. Sent(flows[1], r, "current", cookie) /\ \A g \in Flow \ {1} : Level(flows[g], o[g])
  BY <1>2, <1>4, <1>5, SendLevels
<1>7. Settled(flows[1])
  BY <1>2, <1>6 DEF Settled, Sent
<1>8. \A g \in Flow \ {1} : Settled(flows[g])
  <2>1. Settled(Ended)
    BY EndedGoes DEF Goes
  <2> QED BY <1>4, <1>6, <2>1 DEF Level, Settled
<1> QED BY <1>7, <1>8, PageInvInit DEF RunInv

\* A step in which every flow goes keeps the invariant and the property.
LEMMA GoingRunsOut ==
    ASSUME RunInv, AllGo
    PROVE  /\ \A g \in Flow : Settled(flows'[g])
           /\ \A g \in Flow : flows[g].kind # "none" /\ Moved(g) => Nearer(flows'[g], flows[g])
<1>1. \A g \in Flow : Level(flows'[g], flows[g]) => ~ Moved(g)
  BY DEF Level, Moved, Progress
<1> QED BY <1>1 DEF AllGo, Goes

LEMMA AdvancingMoves ==
    ASSUME RunInv, NEW f \in Flow, Advances(f), flows[f].kind # "none"
    PROVE  Moved(f)
<1>1. flows[f] \in FlowRecord /\ flows'[f] \in FlowRecord /\ Nearer(flows'[f], flows[f])
  BY Progressing DEF Advances, AllGo
<1>2. Progress(flows'[f]) # Progress(flows[f])
  BY <1>1, NearerMoves
<1>3. flows'[f] # flows[f]
  BY <1>2
<1> QED BY <1>2, <1>3 DEF Moved

RunsOut ==
    /\ \A f \in Flow : flows[f].kind # "none" /\ Moved(f) => Nearer(flows'[f], flows[f])
    /\ (\A f \in Flow : ~Moved(f)) => \A f \in Flow : ~Handle(f) /\ ~Arrive(f)

LEMMA RunInvNext == RunInv /\ [Next]_vars => RunInv' /\ [RunsOut]_vars
<1> SUFFICES ASSUME RunInv, [Next]_vars PROVE RunInv' /\ [RunsOut]_vars
  OBVIOUS
<1>1. PageInv' /\ TypeOK'
  BY PageInvNext DEF RunInv, PageInv
<1>2. ASSUME NEW f \in Flow, Handle(f) \/ Arrive(f)
      PROVE  Advances(f) /\ flows[f].kind # "none"
  BY <1>1, <1>2, HandleAdvances, ArriveAdvances
<1>3. AllGo
  <2>1. ASSUME Expire PROVE AllGo
    BY <2>1, SameGoes DEF Expire
  <2>2. ASSUME UNCHANGED vars PROVE AllGo
    BY <2>2, SameGoes DEF vars
  <2> QED BY <1>2, <2>1, <2>2, ViewerGoes DEF Next, Advances
<1>4. RunInv'
  BY <1>1, <1>3, GoingRunsOut DEF RunInv
<1>5. (\A f \in Flow : ~ Moved(f)) => \A f \in Flow : ~ Handle(f) /\ ~ Arrive(f)
  BY <1>2, AdvancingMoves
<1>6. RunsOut
  BY <1>3, <1>5, GoingRunsOut DEF RunsOut
<1> QED BY <1>4, <1>6

\* Every flow comes to its end: whatever is done to it brings it nearer, and
\* neither the server nor an answer leaves every flow where it was.
THEOREM EveryFlowRunsOut == Spec => FlowsRunOut
<1>1. RunInv /\ [Next]_vars => [RunsOut]_vars
  BY RunInvNext
<1>2. RunInv /\ [Next]_vars => RunInv'
  BY RunInvNext
<1>3. Spec => []RunInv
  BY RunInvInit, <1>2, PTL DEF Spec
<1>4. RunInv /\ [Next]_vars =>
        [/\ \A f \in Flow : flows[f].kind # "none" /\ Moved(f) => Nearer(flows'[f], flows[f])
         /\ (\A f \in Flow : ~Moved(f)) => \A f \in Flow : ~Handle(f) /\ ~Arrive(f)]_vars
  BY <1>1 DEF RunsOut
<1> QED BY <1>3, <1>4, PTL DEF Spec, FlowsRunOut

=============================================================================
