---------------------------- MODULE ProgressFeed ----------------------------
(***************************************************************************)
(* What the family's status page says is happening right now. Facts are    *)
(* case events: appended in a transaction, published later by the outbox,  *)
(* and read whole by the page's poll. Pulses say which step is running:    *)
(* published at once, repeated while the step is open, and mirrored in one  *)
(* key for a page that loads between two of them. The page folds both into *)
(* one feed; the end of a step is no pulse, it learns of it by a fact.      *)
(***************************************************************************)
EXTENDS Naturals, Sequences, FiniteSets

CONSTANTS
  Checks,     \* the screens of a run, 1 .. Checks; step 0 is the context pass
  NoStep,
  Paper,      \* the one document that is read beside the run, and the key of its step
  MaxTakes,   \* bounds runs of the analysis
  MaxBeats,   \* bounds heartbeats
  MaxPolls,   \* bounds the page's polls
  MaxSnags    \* bounds what goes wrong: throws, deaths, a stream that drops

Run == "run"
Keys == {Run, Paper}
ASSUME FeedAssumption ==
  /\ Checks \in Nat \ {0} /\ NoStep \notin 0 .. Checks \cup {Paper}
  /\ Paper \notin 0 .. Checks /\ Paper /= Run

VARIABLES
  facts,      \* CaseEvent rows, oldest first
  told,       \* how many of them the outbox has published
  shown,      \* the stage of the case the customer sees
  analysis,   \* the run: where it is
  paper,      \* the reading of the document: where it is
  live,       \* Keys -> the step that is open
  setting,    \* Keys -> the mirror write behind its last pulse, not yet done
  mirror,     \* case-pulse:<id>:last
  up,         \* the page's stream
  feed,       \* the page
  poll,       \* its GET /checklist in flight
  spent,      \* budgets used
  unheard     \* history: steps whose end the page was not told, or had heard before a last pulse

feedVars == <<facts, told, shown, analysis, paper, live, setting, mirror, up, feed, poll, spent, unheard>>

NoPulse == [step |-> NoStep, newer |-> FALSE, since |-> 0]
NoPoll == [pc |-> "none"]
EmptyFeed == [step |-> NoStep, runEvents |-> <<>>, stage |-> "docs", upTo |-> 0]
FeedInit ==
  /\ facts = <<>> /\ told = 0 /\ shown = "docs"
  /\ analysis = [pc |-> "idle", at |-> 0, no |-> 0] /\ paper = "unread"
  /\ live = [k \in Keys |-> NoStep] /\ setting = [k \in Keys |-> NoPulse] /\ mirror = NoPulse
  /\ up = TRUE /\ feed = EmptyFeed /\ poll = NoPoll
  /\ spent = [beats |-> 0, polls |-> 0, snags |-> 0] /\ unheard = {}

Open == {live[k] : k \in Keys} \ {NoStep}
\* Marked as begun, and not yet open.
Marked == {analysis.at : pc \in {analysis.pc} \cap {"begin"}}
Spend(what, most) == spent[what] < most /\ spent' = [spent EXCEPT ![what] = @ + 1]
-----------------------------------------------------------------------------
(* The feed: lib/progress-feed.ts.                                         *)

RunTypes == {"phase", "progress", "completed"}
Fact(type, what) == [type |-> type, what |-> what, run |-> analysis.no]
\* The events of one run, in their order.
OfRun(events, no) ==
  LET kept[n \in 0 .. Len(events)] ==
        IF n = 0 THEN <<>>
        ELSE IF events[n].type \in RunTypes /\ events[n].run = no THEN Append(kept[n - 1], events[n])
        ELSE kept[n - 1]
  IN  kept[Len(events)]
RunFacts == OfRun(facts, analysis.no)

\* A finished check, a document that was read, a new stage: the pulse that described it is stale.
EndsStep(f, step) ==
  \/ f.type = "completed" /\ f.what = step
  \/ f.type = "done" /\ step = Paper
  \/ f.type = "stage"
\* The screen, or the phase before them, that the run last began and has not finished.
NowChecking(runEvents) ==
  LET begun == {i \in DOMAIN runEvents : runEvents[i].type /= "completed"}
      done == {i \in DOMAIN runEvents : runEvents[i].type = "completed"}
  IN  IF begun = {} THEN NoStep
      ELSE LET last == CHOOSE i \in begun : \A j \in begun : j <= i
           IN  IF \E i \in done : i > last /\ runEvents[i].what = runEvents[last].what
               THEN NoStep ELSE runEvents[last].what
\* The worker's own word, or else what the facts say.
RightNow == IF feed.step /= NoStep THEN feed.step ELSE NowChecking(feed.runEvents)
\* Delivery is at least once: a fact that a poll brought is not taken twice.
WithFact(f) ==
  [feed EXCEPT !.step = IF EndsStep(f, @) THEN NoStep ELSE @,
               !.runEvents = IF f.type \in RunTypes /\ \A i \in DOMAIN @ : @[i] /= f THEN Append(@, f) ELSE @,
               !.stage = shown]

Heard(pulse) == [pulse EXCEPT !.newer = FALSE]
\* The page's last signal is now: no mirrored pulse is newer.
PageHears ==
  /\ mirror' = Heard(mirror)
  /\ poll' = IF poll = NoPoll THEN NoPoll ELSE [poll EXCEPT !.mirror = Heard(@)]

\* Mutant: a poll's pulse describes right now, whatever the stream has said since.
UsePulseFlawed(pulse) == pulse.step /= NoStep
UsePulse(pulse) == pulse.step /= NoStep /\ pulse.newer
FromFacts ==
  [step |-> IF UsePulse(poll.mirror) THEN poll.mirror.step ELSE feed.step,
   runEvents |-> poll.runEvents, stage |-> poll.stage, upTo |-> poll.upTo]

\* A page that was told of the end of a step may hear of the step once more.
EndTold(step) ==
  \E i \in 1 .. told :
    \/ step = Paper /\ facts[i].type = "done"
    \/ facts[i].type = "completed" /\ facts[i].run = analysis.no /\ facts[i].what = step
-----------------------------------------------------------------------------
(* The pulses: progress-pulse.service.ts.                                  *)

\* publish, and behind it a set that is not waited for.
SendPulse(key, step) ==
  LET pulse == [step |-> step, newer |-> ~up, since |-> Len(facts)]
      waiting == [k \in Keys |-> IF up THEN Heard(setting[k]) ELSE setting[k]]
  IN  /\ setting' = [waiting EXCEPT ![key] = pulse]
      /\ IF up THEN PageHears /\ feed' = [feed EXCEPT !.step = step]
               ELSE UNCHANGED <<mirror, poll, feed>>
SetMirror(key) ==
  /\ setting[key] /= NoPulse
  /\ mirror' = setting[key] /\ setting' = [setting EXCEPT ![key] = NoPulse]
  /\ UNCHANGED <<facts, told, shown, analysis, paper, live, up, feed, poll, spent, unheard>>

BeginStep(key, step) ==
  /\ live' = [live EXCEPT ![key] = step]
  /\ SendPulse(key, step)
  /\ unheard' = (IF up THEN unheard ELSE unheard \cup ({live[key]} \ {NoStep})) \ {step}
\* The end of a step deletes the case's mirror, whichever step that holds, and says nothing.
EndStep(key) ==
  /\ live' = [live EXCEPT ![key] = NoStep] /\ mirror' = NoPulse

Heartbeat(key) ==
  /\ live[key] /= NoStep /\ Spend("beats", MaxBeats)
  /\ SendPulse(key, live[key])
  /\ unheard' = unheard \cup {step \in {live[key]} : EndTold(step)}
  /\ UNCHANGED <<facts, told, shown, analysis, paper, live, up>>

\* Nothing renews the mirror of a step that is closed: it expires.
MirrorExpires ==
  /\ mirror /= NoPulse /\ mirror.step \notin Open /\ mirror' = NoPulse
  /\ UNCHANGED <<facts, told, shown, analysis, paper, live, setting, up, feed, poll, spent, unheard>>
-----------------------------------------------------------------------------
(* The worker.                                                             *)

RunAt(pc) == analysis' = [analysis EXCEPT !.pc = pc]
Quietly == UNCHANGED <<live, setting, mirror, feed, poll, unheard>>
BeginRun ==
  /\ analysis.pc = "idle" /\ shown \in {"docs", "analyzing"} /\ analysis.no < MaxTakes
  /\ analysis' = [pc |-> "mark", at |-> 0, no |-> analysis.no + 1]
  /\ facts' = IF shown = "docs" THEN Append(facts, Fact("stage", "analyzing")) ELSE facts
  /\ shown' = "analyzing" /\ Quietly /\ UNCHANGED <<told, paper, up, spent>>
MarkStep ==
  /\ analysis.pc = "mark" /\ RunAt("begin")
  /\ facts' = Append(facts, Fact(IF analysis.at = 0 THEN "phase" ELSE "progress", analysis.at))
  /\ Quietly /\ UNCHANGED <<told, shown, paper, up, spent>>
StartStep ==
  /\ analysis.pc = "begin" /\ RunAt("work") /\ BeginStep(Run, analysis.at)
  /\ UNCHANGED <<facts, told, shown, paper, up, spent>>
FinishStep ==
  /\ analysis.pc = "work"
  /\ analysis' = IF analysis.at < Checks THEN [analysis EXCEPT !.pc = "mark", !.at = @ + 1]
                 ELSE [analysis EXCEPT !.pc = "handoff"]
  /\ facts' = IF analysis.at > 0 THEN Append(facts, Fact("completed", analysis.at)) ELSE facts
  /\ Quietly /\ UNCHANGED <<told, shown, paper, up, spent>>
HandOver ==
  /\ analysis.pc = "handoff" /\ RunAt("end") /\ shown' = "quality"
  /\ facts' = Append(facts, Fact("stage", "quality"))
  /\ Quietly /\ UNCHANGED <<told, paper, up, spent>>
EndRun ==
  /\ analysis.pc = "end" /\ RunAt("idle") /\ EndStep(Run)
  /\ UNCHANGED <<facts, told, shown, paper, setting, up, feed, poll, spent, unheard>>
RunThrows ==
  /\ analysis.pc \notin {"idle", "end"} /\ Spend("snags", MaxSnags) /\ RunAt("idle")
  /\ unheard' = unheard \cup ({live[Run]} \ {NoStep}) \cup Marked /\ EndStep(Run)
  /\ UNCHANGED <<facts, told, shown, paper, setting, up, feed, poll>>

StartPaper ==
  /\ paper = "unread" /\ shown \in {"docs", "analyzing"} /\ paper' = "marked"
  /\ facts' = Append(facts, Fact("started", Paper))
  /\ Quietly /\ UNCHANGED <<told, shown, analysis, up, spent>>
ReadPaper ==
  /\ paper = "marked" /\ paper' = "reading" /\ BeginStep(Paper, Paper)
  /\ UNCHANGED <<facts, told, shown, analysis, up, spent>>
SavePaper ==
  /\ paper = "reading" /\ paper' = "saved" /\ facts' = Append(facts, Fact("done", Paper))
  /\ Quietly /\ UNCHANGED <<told, shown, analysis, up, spent>>
ClosePaper ==
  /\ paper = "saved" /\ paper' = "closed" /\ EndStep(Paper)
  /\ UNCHANGED <<facts, told, shown, analysis, setting, up, feed, poll, spent, unheard>>
PaperFails ==
  /\ paper = "reading" /\ Spend("snags", MaxSnags) /\ paper' = "closed"
  /\ unheard' = unheard \cup {Paper} /\ EndStep(Paper)
  /\ UNCHANGED <<facts, told, shown, analysis, setting, up, feed, poll>>

ProcessDies ==
  /\ Open /= {} /\ Spend("snags", MaxSnags)
  /\ RunAt("idle") /\ paper' = IF paper = "unread" THEN paper ELSE "closed"
  /\ live' = [k \in Keys |-> NoStep] /\ setting' = [k \in Keys |-> NoPulse]
  /\ unheard' = unheard \cup Open \cup Marked
  /\ UNCHANGED <<facts, told, shown, mirror, up, feed, poll>>
-----------------------------------------------------------------------------
(* The page.                                                               *)

\* The outbox publishes the next event with the case as it is now.
PublishFact ==
  /\ told < Len(facts) /\ told' = told + 1
  /\ LET f == facts[told + 1] IN
     IF up THEN /\ feed' = WithFact(f) /\ PageHears
                /\ setting' = [k \in Keys |-> Heard(setting[k])]
                /\ unheard' = unheard \cup {step \in {f.what} : f.type \in RunTypes /\ f.run /= analysis.no}
           ELSE /\ unheard' = unheard \cup {step \in Open \cup {feed.step} : step /= NoStep /\ EndsStep(f, step)}
                /\ UNCHANGED <<feed, mirror, poll, setting>>
  /\ UNCHANGED <<facts, shown, analysis, paper, live, up, spent>>

PollAsks ==
  /\ poll = NoPoll /\ Spend("polls", MaxPolls)
  /\ poll' = [pc |-> "asked", runEvents |-> RunFacts, stage |-> shown, upTo |-> Len(facts), mirror |-> mirror]
  /\ UNCHANGED <<facts, told, shown, analysis, paper, live, setting, mirror, up, feed, unheard>>
\* What the facts say happened last is a signal too.
AsOld(pulse) == [pulse EXCEPT !.newer = @ /\ pulse.since >= poll.upTo]
PollLands ==
  /\ poll /= NoPoll /\ poll' = NoPoll /\ feed' = FromFacts
  /\ mirror' = AsOld(mirror) /\ setting' = [k \in Keys |-> AsOld(setting[k])]
  /\ unheard' = unheard \cup {step \in {poll.mirror.step} : /\ poll.mirror.newer /\ step /= NoStep
                                                            /\ (step \notin Open \/ EndTold(step))}
  /\ UNCHANGED <<facts, told, shown, analysis, paper, live, up, spent>>

StreamDrops ==
  /\ up /\ Spend("snags", MaxSnags) /\ up' = FALSE
  /\ UNCHANGED <<facts, told, shown, analysis, paper, live, setting, mirror, feed, poll, unheard>>
Reconnects ==
  /\ ~up /\ up' = TRUE
  /\ UNCHANGED <<facts, told, shown, analysis, paper, live, setting, mirror, feed, poll, spent, unheard>>
News(pulse) == [pulse EXCEPT !.newer = pulse /= NoPulse]
\* The family opens the page anew: any mirrored pulse is news to it.
Reload ==
  /\ Spend("snags", MaxSnags) /\ up' = TRUE /\ feed' = EmptyFeed /\ poll' = NoPoll
  /\ mirror' = News(mirror) /\ setting' = [k \in Keys |-> News(setting[k])]
  /\ UNCHANGED <<facts, told, shown, analysis, paper, live, unheard>>

FeedNext ==
  \/ BeginRun \/ MarkStep \/ StartStep \/ FinishStep \/ HandOver \/ EndRun \/ RunThrows
  \/ StartPaper \/ ReadPaper \/ SavePaper \/ ClosePaper \/ PaperFails \/ ProcessDies
  \/ PublishFact \/ PollAsks \/ PollLands \/ StreamDrops \/ Reconnects \/ Reload \/ MirrorExpires
  \/ \E k \in Keys : SetMirror(k) \/ Heartbeat(k)
FeedSpec == FeedInit /\ [][FeedNext]_feedVars
-----------------------------------------------------------------------------
(* Once the facts are published, the step the page calls running is open: *)
(* "a crashed run must not keep telling the family" (analysis.service.ts)  *)
(* and no other end may. Left out are the ends the page is not told of: a   *)
(* throw or a death, which no message announces, a message that was missed, *)
(* and a last pulse or a late mirror behind the end. What the page reads    *)
(* from the facts is claimed once a poll has seen them all: an older poll    *)
(* takes back what the stream has told since it was asked.                  *)
StepIsRunning ==
  /\ told = Len(facts) /\ feed.stage = "analyzing"
  /\ feed.step /= NoStep \/ feed.upTo = Len(facts)
  => RightNow \in Open \cup Marked \cup unheard \cup {NoStep}

(* "The poll is the floor under the live stream" (status/page.tsx): a page  *)
(* whose last poll saw all there is shows this run's events, each once, in *)
(* their order, and the stage, whatever the stream said before or since. A  *)
(* late event of an earlier run may stand among them until the next poll.  *)
PollIsTheFloor ==
  told = Len(facts) /\ feed.upTo = Len(facts) =>
    /\ OfRun(feed.runEvents, analysis.no) = RunFacts
    /\ feed.stage = shown

ProgressIsReal == StepIsRunning /\ PollIsTheFloor
=============================================================================
