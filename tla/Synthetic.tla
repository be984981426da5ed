----------------------------- MODULE Synthetic -----------------------------
(***************************************************************************)
(* The synthetic stream of make-synthetic.py, which stands in for a        *)
(* campaign: episodes of scenario runs, each run the alerts the lab's      *)
(* rules raise on it, and the standing accounts' logins around them.       *)
(*                                                                         *)
(* What is drawn at random is given: of each episode its kind, its failed  *)
(* logons, the gaps between its runs and the rest after it; of the whole   *)
(* the pace of the scenarios.  Times are in tenths of a second.            *)
(***************************************************************************)
EXTENDS Dataset

FailedLogon == 100110
Composite   == 100111
CompositeThreshold == 6
CompositeWindow    == 1200
MinS1Gap           == 3300
Never              == 1000000000 \* longer ago than any gap

Attacks == {"bruteforce", "bruteforce-persist", "quiet-persist"}
Kinds   == Attacks \cup {"admin-failed-login", "admin-new-account", "admin-new-cronjob", "admin-provision"}
LabelOf(kind) == IF kind \in Attacks THEN "attack" ELSE "benign"

\* The runs of an episode, in order.
Grammar(kind) ==
  CASE kind \in {"admin-failed-login", "bruteforce"} -> <<"S1">>
    [] kind = "admin-new-account"  -> <<"S2">>
    [] kind = "admin-new-cronjob"  -> <<"S3">>
    [] kind = "bruteforce-persist" -> <<"S1", "S2", "S3">>
    [] OTHER                       -> <<"S2", "S3">>

LogonsOf(kind) ==
  CASE kind = "admin-failed-login"                   -> 1 .. 5
    [] kind \in {"bruteforce", "bruteforce-persist"} -> 6 .. 14
    [] OTHER                                         -> {0}

GapsOf(kind) ==
  CASE kind = "admin-provision"    -> 600 .. 3000
    [] kind = "bruteforce-persist" -> 150 .. 750
    [] OTHER                       -> 100 .. 450

\* What may be drawn.  The rest after an episode is two and a half to five and a half minutes.
Drawn(d) ==
  /\ d.kind \in Kinds /\ d.logons \in LogonsOf(d.kind)
  /\ d.gaps \in [1 .. Len(Grammar(d.kind)) - 1 -> GapsOf(d.kind)]
  /\ d.rest \in 1500 .. 3300

Paced(p) ==
  /\ p.setup \in 40 .. 70 /\ p.each \in 20 .. 36 /\ p.trigger \in 1 .. 4 /\ p.tail \in 25 .. 35
  /\ p.account \in 3 .. 12 /\ p.accountEnd \in 34 .. 44
  /\ p.cron \in 3 .. 15 /\ p.cronEnd \in 175 .. 195

----------------------------------------------------------------------------
(* One scenario run.                                                       *)

Raised(at, rule) == [at |-> at, rule |-> rule]

\* The failed logons, and the composite rule on the one that crosses its threshold.
Logons(logons, t0, p) ==
  LET Try(i) == t0 + p.setup + (i - 1) * p.each
      Crosses(i) == IF i = CompositeThreshold THEN <<Raised(Try(i) + p.trigger, Composite)>> ELSE <<>>
      upTo[i \in 0 .. logons] ==
        IF i = 0 THEN <<>> ELSE upTo[i - 1] \o <<Raised(Try(i), FailedLogon)>> \o Crosses(i)
  IN  upTo[logons]

\* The alerts of a run that begins at t0, and when it ends.
ScenarioAlerts(scenario, logons, t0, p) ==
  CASE scenario = "S1" -> [alerts |-> Logons(logons, t0, p),
                           end |-> t0 + p.setup + logons * p.each + p.tail]
    [] scenario = "S2" -> [alerts |-> <<Raised(t0 + p.account, 100112)>>, end |-> t0 + p.accountEnd]
    [] OTHER           -> [alerts |-> <<Raised(t0 + p.cron, 100113)>>, end |-> t0 + p.cronEnd]

----------------------------------------------------------------------------
(* The stream.                                                             *)

\* Slip: a run of failed logons begins whenever its episode has come to it.
AsItComes(scenario, cursor, lastS1End) == cursor

\* Failed logons wait until those of the last run are out of the composite rule's window.
Begins(scenario, cursor, lastS1End) ==
  IF scenario = "S1" /\ cursor - lastS1End < MinS1Gap THEN lastS1End + MinS1Gap ELSE cursor

Ran(state, scenario, gap, made) ==
  [cursor |-> made.end + gap, alerts |-> state.alerts \o made.alerts,
   lastS1End |-> IF scenario = "S1" THEN made.end ELSE state.lastS1End]

Run(state, scenario, logons, gap, p) ==
  Ran(state, scenario, gap,
      ScenarioAlerts(scenario, logons, Begins(scenario, state.cursor, state.lastS1End), p))

\* The runs of an episode that begins at t.
AllRuns(d, t, lastS1End, p) ==
  LET steps  == Grammar(d.kind)
      Gap(i) == IF i = Len(steps) THEN 0 ELSE d.gaps[i]
      upTo[i \in 0 .. Len(steps)] ==
        IF i = 0 THEN [cursor |-> t, lastS1End |-> lastS1End, alerts |-> <<>>]
        ELSE Run(upTo[i - 1], steps[i], d.logons, Gap(i), p)
  IN  upTo[Len(steps)]

WithEpisode(state, d, ran) ==
  [t |-> ran.cursor + d.rest, lastS1End |-> ran.lastS1End,
   made |-> Append(state.made, [kind |-> d.kind, label |-> LabelOf(d.kind), startedAt |-> state.t,
                                endedAt |-> ran.cursor, alerts |-> ran.alerts])]

\* One episode after the other, until the time is over.
OneMore(state, d, total, p) ==
  IF state.t >= total THEN state
  ELSE WithEpisode(state, d, AllRuns(d, state.t, state.lastS1End, p))

Episodes(total, first, draws, p) ==
  LET upTo[n \in 0 .. Len(draws)] ==
        IF n = 0 THEN [t |-> first, lastS1End |-> -Never, made |-> <<>>]
        ELSE OneMore(upTo[n - 1], draws[n], total, p)
  IN  upTo[Len(draws)].made

\* The logins of the standing accounts, one every so often and closed again.
Background(total, every, closed) ==
  [k \in 1 .. 2 * (total \div every) |->
     IF k % 2 = 1 THEN Raised(((k + 1) \div 2) * every, 5501)
     ELSE Raised((k \div 2) * every + closed, 5502)]

\* Each episode with the background from ten seconds before it to a minute after it.
Windowed(made, background) ==
  LET Falls(i) == {k \in DOMAIN background : /\ made[i].startedAt - 100 <= background[k].at
                                             /\ background[k].at <= made[i].endedAt + 600}
  IN  [i \in DOMAIN made |-> [made[i] EXCEPT !.alerts = @ \o Pick(background, Falls(i))]]

Build(total, first, draws, p, background) == Windowed(Episodes(total, first, draws, p), background)

\* What is written: the alerts in order of time.
AsDict(episode) == [episode EXCEPT !.alerts = Sorted(@, Sooner)]
=============================================================================
