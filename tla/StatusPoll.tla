----------------------------- MODULE StatusPoll -----------------------------
(***************************************************************************)
(* The poll of the manager (the script Start-LabDashboard.ps1 sends it):   *)
(* it fetches the recent alerts, groups them into windows, shows and       *)
(* scores the last few, and folds those behind them into the baseline.  An *)
(* endpoint without a baseline makes it fetch a longer span, once more, to *)
(* fill one.  A poll that is given up by its caller runs on beside the     *)
(* next.                                                                   *)
(*                                                                         *)
(* Time is counted in parts of a window.  An alert is an agent and the     *)
(* tick it was raised in; an observation is an agent, a window and the     *)
(* number of its alerts that were seen.                                    *)
(***************************************************************************)
EXTENDS Integers, FiniteSets, FiniteSetsExt

CONSTANTS
  Polls,       \* processes of the script that may run at a time
  Agents,      \* names of the endpoints
  Width,       \* ticks of a window (windowSeconds)
  PageSpan,    \* ALERT_SPAN_MINUTES, in ticks
  WarmSpan,    \* WARM_SPAN_MINUTES, in ticks
  MaxDocs,     \* MAX_DOCS, the most alerts a fetch returns
  TailDocs,    \* alerts in the tail of alerts.json; 0: it cannot be read
  OnPage,      \* windows shown, 12
  Lag,         \* ticks a poll may last after its first fetch
  MaxTime      \* bound: ticks

ASSUME PollAssumption ==
  /\ IsFiniteSet(Agents)
  /\ Width \in Nat \ {0} /\ OnPage \in Nat \ {0}
  /\ PageSpan \in Nat /\ WarmSpan \in Nat /\ PageSpan <= WarmSpan
  /\ MaxDocs \in Nat \ {0} /\ TailDocs \in Nat
  /\ Lag \in Nat /\ MaxTime \in Nat

VARIABLES
  now,       \* the manager's clock
  alerts,    \* all the alerts there have been
  file,      \* the observations the baseline was made from
  poll,      \* the processes of the script
  early      \* history: what was folded of windows newer than the folding poll's page

pollVars == <<now, alerts, file, poll, early>>

Alerts == Agents \X (0 .. MaxTime)

Window(t) == t \div Width + 1
Epochs == 1 .. Window(MaxTime)
Observations == Agents \X Epochs \X Nat

PollTypeOK ==
  /\ now \in 0 .. MaxTime
  /\ alerts \subseteq Alerts
  /\ file \subseteq Observations
  /\ poll \in [Polls ->
       [pc: {"idle", "fetched", "short", "warm", "warming", "settle", "settling", "score"},
        at: Nat, page: SUBSET Alerts, warm: SUBSET Observations,
        copy: SUBSET Observations, base: SUBSET Observations]]
  /\ early \subseteq Agents \X Epochs

Idle == [pc |-> "idle", at |-> 0, page |-> {}, warm |-> {}, copy |-> {}, base |-> {}]

PollInit ==
  /\ now = 0
  /\ alerts = {}
  /\ file = {}
  /\ poll = [p \in Polls |-> Idle]
  /\ early = {}

----------------------------------------------------------------------------
(* What a fetch returns and how it is grouped.                              *)

\* The n newest of the alerts, in every way ties can be broken.
NewestOf(rows, n) ==
  IF Cardinality(rows) <= n THEN {rows}
  ELSE {kept \in kSubset(n, rows) : \A x \in kept, y \in rows \ kept : y[2] <= x[2]}

\* The alerts of the last span ticks.
Within(span) == {x \in alerts : x[2] >= now - span}

\* The page's fetch: from the indexer or, when it does not answer, from the tail.
PageAnswers == NewestOf(Within(PageSpan), MaxDocs) \cup NewestOf(alerts, TailDocs)

\* The warm fetch: a window cut by the ceiling goes, all of it.
WarmAnswers ==
  LET rows == Within(WarmSpan)
      Edge(kept) == Min({Window(x[2]) : x \in kept})
  IN  IF Cardinality(rows) <= MaxDocs THEN {rows}
      ELSE {{x \in kept : Window(x[2]) > Edge(kept)} : kept \in NewestOf(rows, MaxDocs)}

Windows(rows) == {Window(x[2]) : x \in rows}

\* How many windows with an alert come after w.
NewerWindows(rows, w) == Cardinality({v \in Windows(rows) : v > w})

\* The last windows that hold an alert, and the one that is still filling.
Shown(rows) == {w \in Windows(rows) : NewerWindows(rows, w) < OnPage}
Current(rows) == Max(Windows(rows))

\* The windows behind those shown.
Foldable(rows) == (Windows(rows) \ Shown(rows)) \ {Current(rows)}

\* Slip (the slips are used by no action, the runs must notice them): the longer
\* span's windows are all folded, those on the page, too.
WarmAll(page, warm) == Windows(warm)

\* Of the longer span, the windows neither shown nor filling.
WarmFoldable(page, warm) == (Windows(warm) \ Shown(page)) \ {Current(page)}

Observed(rows, windows) ==
  {<<x[1], Window(x[2]), Cardinality({y \in rows : y[1] = x[1] /\ Window(y[2]) = Window(x[2])})>> :
     x \in {y \in rows : Window(y[2]) \in windows}}

----------------------------------------------------------------------------
(* The baseline, summed up as its store sees it.                            *)

Last(f, a) == LET of == {o[2] : o \in {o \in f : o[1] = a}} IN IF of = {} THEN 0 ELSE Max(of)

\* Slip: the observations are taken from the newest on, which shuts out the rest.
FoldUnsorted(f, obs) ==
  f \cup {o \in obs : o[2] > Last(f, o[1]) /\ \A u \in obs : u[1] = o[1] => u[2] <= o[2]}

Fold(f, obs) == f \cup {o \in obs : o[2] > Last(f, o[1])}

\* What a call leaves in the file that had the copy; it writes only what it changed.
Written(copy, obs) == IF Fold(copy, obs) = copy THEN file ELSE Fold(copy, obs)

Summary(f) == [a \in Agents |-> [windows |-> Cardinality({o \in f : o[1] = a}), last |-> Last(f, a)]]
Unread == \E p \in Polls : poll[p].pc \in {"warming", "settling"} /\ poll[p].copy # file
Store == INSTANCE BaselineStore WITH store <- Summary(file), unread <- Unread

----------------------------------------------------------------------------
(* The steps of a poll.                                                     *)

\* A poll goes on, and is done with the longer span and with the copy of its call.
Goes(p, pc) == poll' = [poll EXCEPT ![p] = [@ EXCEPT !.pc = pc, !.warm = {}, !.copy = {}]]

\* The first fetch; without an alert there is nothing to score.
Fetch(p) ==
  /\ poll[p].pc = "idle"
  /\ \E rows \in PageAnswers \ {{}} :
       poll' = [poll EXCEPT ![p] = [Idle EXCEPT !.pc = "fetched", !.at = now, !.page = rows]]
  /\ UNCHANGED <<now, alerts, file, early>>

\* What a call finds in the file: a reading that fails passes for an empty one.
Readings == {file, {}}

\* The baseline is read; an endpoint that raises alerts may be without one.
Open(p) ==
  /\ poll[p].pc = "fetched"
  /\ LET live == {x[1] : x \in poll[p].page}
     IN  \E f \in Readings : poll' = [poll EXCEPT
           ![p].base = f,
           ![p].pc = IF \E a \in live : Summary(f)[a].windows = 0 THEN "short" ELSE "settle"]
  /\ UNCHANGED <<now, alerts, file, early>>

\* The longer span is fetched, or cannot be; it may hold nothing to fold.
WarmFetch(p) ==
  /\ poll[p].pc = "short"
  /\ \E rows \in WarmAnswers \cup {{}} :
       LET obs == Observed(rows, WarmFoldable(poll[p].page, rows))
       IN  poll' = [poll EXCEPT ![p].warm = obs, ![p].pc = IF obs = {} THEN "settle" ELSE "warm"]
  /\ UNCHANGED <<now, alerts, file, early>>

\* A call of the helper reads the file ...
CallHelper(p) ==
  /\ poll[p].pc \in {"warm", "settle"}
  /\ \E f \in Readings :
       poll' = [poll EXCEPT ![p].copy = f, ![p].pc = IF @ = "warm" THEN "warming" ELSE "settling"]
  /\ UNCHANGED <<now, alerts, file, early>>

\* ... and replaces it, with what the longer span adds ...
WarmFolded(p) ==
  /\ poll[p].pc = "warming"
  /\ file' = Written(poll[p].copy, poll[p].warm)
  /\ early' = early \cup {<<o[1], o[2]>> : o \in {o \in poll[p].warm : o[2] > Current(poll[p].page)}}
  /\ Goes(p, "settle")
  /\ UNCHANGED <<now, alerts>>

\* Slip: the page's windows are folded into the copy that the poll opened with.
SettledOnOpened(p) ==
  /\ poll[p].pc = "settling"
  /\ file' = Written(poll[p].base, Observed(poll[p].page, Foldable(poll[p].page)))
  /\ Goes(p, "score")
  /\ UNCHANGED <<now, alerts, early>>

\* ... or the page's own windows.  It answers what it held before.
Settled(p) ==
  /\ poll[p].pc = "settling"
  /\ file' = Written(poll[p].copy, Observed(poll[p].page, Foldable(poll[p].page)))
  /\ poll' = [poll EXCEPT ![p] = [@ EXCEPT !.pc = "score", !.copy = {}, !.base = poll[p].copy]]
  /\ UNCHANGED <<now, alerts, early>>

\* The call fails, and the poll carries on without; without a first reading of
\* the baseline it folds nothing and scores against none.
CallFails(p) ==
  /\ \/ poll[p].pc = "fetched" /\ poll' = [poll EXCEPT ![p] = Idle]
     \/ poll[p].pc \in {"warm", "warming"} /\ Goes(p, "settle")
     \/ poll[p].pc \in {"settle", "settling"} /\ Goes(p, "score")
  /\ UNCHANGED <<now, alerts, file, early>>

\* The page's windows are scored: the completed ones against what a preview
\* reads, the one still filling against what it ends with, and all of them
\* against what was read before when there is no preview.
Score(p) ==
  /\ poll[p].pc = "score"
  /\ poll' = [poll EXCEPT ![p] = Idle]
  /\ UNCHANGED <<now, alerts, file, early>>

\* An alert arrives.
Arrive(a) ==
  /\ <<a, now>> \notin alerts
  /\ alerts' = alerts \cup {<<a, now>>}
  /\ UNCHANGED <<now, file, poll, early>>

\* Time passes.
Tick ==
  /\ now < MaxTime
  /\ \A p \in Polls : poll[p].pc # "idle" => now < poll[p].at + Lag
  /\ now' = now + 1
  /\ UNCHANGED <<alerts, file, poll, early>>

PollNext ==
  \/ Tick
  \/ \E a \in Agents : Arrive(a)
  \/ \E p \in Polls :
       \/ Fetch(p) \/ Open(p) \/ WarmFetch(p) \/ CallHelper(p)
       \/ WarmFolded(p) \/ Settled(p) \/ CallFails(p) \/ Score(p)

PollSpec == PollInit /\ [][PollNext]_pollVars

----------------------------------------------------------------------------
(* Properties.                                                              *)

Among(f, a, w) == \E o \in f : o[1] = a /\ o[2] = w

\* No window on the page has ever been folded into the baseline it is being
\* scored against: neither into what the poll has read nor into what its preview
\* will read.  So the comments say; a window that begins between a poll's two
\* fetches refutes it.
NotScoredAgainstItself ==
  \A p \in Polls : poll[p].pc = "score" =>
    \A a \in Agents, w \in Shown(poll[p].page) :
      ~Among(poll[p].base, a, w) /\ ~Among(file, a, w)

\* A window has begun since the page was fetched.
Overtaken(page) == \E x \in alerts : Window(x[2]) > Current(page)

\* So much of it holds: a window is scored against itself only if it was folded by
\* a poll in whose course it began, or on a page that such a window has overtaken.
ScoredAgainstOthers ==
  \A p \in Polls : poll[p].pc = "score" /\ ~Overtaken(poll[p].page) =>
    \A a \in Agents, w \in Shown(poll[p].page) :
      <<a, w>> \notin early => ~Among(poll[p].base, a, w) /\ ~Among(file, a, w)

\* A window not newer than one that was folded in the course of which it began.
ShutOut(a, w) == \E e \in early : e[1] = a /\ w <= e[2]

\* A window that every fetch still returns whole: it began within the page's span,
\* and the ceiling is behind it.
Whole(w) ==
  /\ (w - 1) * Width >= now - PageSpan
  /\ Cardinality({y \in alerts : Window(y[2]) >= w}) < MaxDocs

\* When a poll settles, every window behind those it shows is in the baseline, or
\* was when the call read it, of each endpoint that raised an alert in it: none was
\* shut out because a newer window had been folded before it.  Only those may be
\* missing that a fetch may no longer return whole, and those shut out by a window
\* that began between a poll's two fetches.
NothingSkipped ==
  [][\A p \in Polls : Settled(p) =>
       \A x \in poll[p].page :
         /\ Whole(Window(x[2]))
         /\ NewerWindows(poll[p].page, Window(x[2])) >= OnPage
         /\ ~ShutOut(x[1], Window(x[2]))
         => Among(file' \cup poll[p].copy, x[1], Window(x[2]))]_pollVars

\* One poll at a time folds into the store as it promises.
StoreSpec == Store!Spec
=============================================================================
