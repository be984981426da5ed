---------------------------- MODULE PagePolling ----------------------------
(***************************************************************************)
(* The pages that ask the dashboard's server for its state                 *)
(* (dashboard/dashboard.html), and are the clock of its sequence: the      *)
(* server takes a sequence a step further only when it is asked.  A page   *)
(* asks again POLL_MS after each answer, and stops when it is paused, or   *)
(* hidden with no sequence that it knows of.  Buttons ask once more.       *)
(*                                                                         *)
(* The server answers one request at a time, and a page takes its answers  *)
(* in the order in which the server gave them.                             *)
(***************************************************************************)
EXTENDS Integers, Sequences

CONSTANTS
  Pages,        \* tabs in which the dashboard is open
  Steps,        \* requests a sequence takes
  LeavesEarly,  \* whether a tab may be hidden before it knows of its sequence
  MaxCalls,     \* bound: requests of a page in flight for the user to add one
  MaxPresses,   \* bound: presses of buttons
  MaxFails      \* bound: requests that fail

ASSUME PageAssumption ==
  /\ Steps \in Nat \ {0} /\ LeavesEarly \in BOOLEAN
  /\ MaxCalls \in Nat /\ MaxPresses \in Nat /\ MaxFails \in Nat

VARIABLES
  gated,       \* by page: the preflight gate still covers it
  hidden,      \* by page: document.hidden
  paused,      \* by page
  seqRunning,  \* by page: what it last rendered of the sequence
  timer,       \* by page: whether the timeout is set
  sent,        \* by page and kind: requests the server has not taken
  answers,     \* by page: answers on their way
  left,        \* the server's sequence: requests until it ends
  presses,     \* so far, at most MaxPresses
  fails        \* so far, at most MaxFails

flags == <<gated, hidden, paused>>
vars == <<gated, hidden, paused, seqRunning, timer, sent, answers, left, presses, fails>>

\* refresh().then(schedule), refresh(), /api/lab, /api/action, and the reading of
\* the state that "Shut down all VMs" begins with.
Kinds == {"poll", "refresh", "lab", "cancel", "action", "list"}
Answers == [what: Kinds, running: BOOLEAN]

TypeOK ==
  /\ gated \in [Pages -> BOOLEAN]
  /\ hidden \in [Pages -> BOOLEAN]
  /\ paused \in [Pages -> BOOLEAN]
  /\ seqRunning \in [Pages -> BOOLEAN]
  /\ timer \in [Pages -> BOOLEAN]
  /\ sent \in [Pages -> [Kinds -> Nat]]
  /\ answers \in [Pages -> Seq(Answers)]
  /\ left \in 0 .. Steps
  /\ presses \in Nat
  /\ fails \in Nat

Init ==
  /\ gated = [p \in Pages |-> TRUE]
  /\ hidden = [p \in Pages |-> FALSE]
  /\ paused = [p \in Pages |-> FALSE]
  /\ seqRunning = [p \in Pages |-> FALSE]
  /\ timer = [p \in Pages |-> FALSE]
  /\ sent = [p \in Pages |-> [k \in Kinds |-> 0]]
  /\ answers = [p \in Pages |-> <<>>]
  /\ left = 0
  /\ presses = 0
  /\ fails = 0

----------------------------------------------------------------------------
(* The page.                                                                *)

Send(p, k) == sent' = [sent EXCEPT ![p][k] = @ + 1]

InFlight(p) ==
  sent[p]["poll"] + sent[p]["refresh"] + sent[p]["lab"] + sent[p]["cancel"]
    + sent[p]["action"] + sent[p]["list"] + Len(answers[p])

\* Slip (the slips are used by no action, the runs must notice them): being hidden
\* does not keep the timeout from being set.
SetsHidden(isPaused, isHidden, runs) == ~isPaused

\* Whether schedule() sets the timeout.
Sets(isPaused, isHidden, runs) == ~isPaused /\ (~isHidden \/ runs)

\* The timeout runs out.
TimerFires(p) ==
  /\ timer[p]
  /\ timer' = [timer EXCEPT ![p] = FALSE]
  /\ Send(p, "poll")
  /\ UNCHANGED <<flags, seqRunning, answers, left, presses, fails>>

\* The gate clears, or is skipped.
GateOpens(p) ==
  /\ gated[p]
  /\ gated' = [gated EXCEPT ![p] = FALSE]
  /\ Send(p, "poll")
  /\ UNCHANGED <<hidden, paused, seqRunning, timer, answers, left, presses, fails>>

\* Whether the page shows what has become of its buttons.
Knows(p) ==
  /\ left > 0 => seqRunning[p]
  /\ sent[p]["lab"] = 0 /\ sent[p]["refresh"] = 0
  /\ \A i \in 1 .. Len(answers[p]) : answers[p][i].what = "poll"

\* Slip: what is pending is dropped whenever the page is hidden.
HideStops(p) ==
  /\ ~hidden[p] /\ (LeavesEarly \/ Knows(p))
  /\ hidden' = [hidden EXCEPT ![p] = TRUE]
  /\ timer' = [timer EXCEPT ![p] = FALSE]
  /\ UNCHANGED <<gated, paused, seqRunning, sent, answers, left, presses, fails>>

\* The tab is hidden.
Hide(p) ==
  /\ ~hidden[p] /\ (LeavesEarly \/ Knows(p))
  /\ hidden' = [hidden EXCEPT ![p] = TRUE]
  /\ timer' = [timer EXCEPT ![p] = @ /\ seqRunning[p]]
  /\ UNCHANGED <<gated, paused, seqRunning, sent, answers, left, presses, fails>>

\* Slip: the state is read again, but the cycle is not taken up.
ShowOnce(p) ==
  /\ hidden[p] /\ InFlight(p) < MaxCalls
  /\ hidden' = [hidden EXCEPT ![p] = FALSE]
  /\ IF paused[p] THEN /\ timer' = [timer EXCEPT ![p] = @ /\ seqRunning[p]]
                       /\ UNCHANGED sent
                  ELSE Send(p, "refresh") /\ UNCHANGED timer
  /\ UNCHANGED <<gated, paused, seqRunning, answers, left, presses, fails>>

\* The tab is looked at again.
Show(p) ==
  /\ hidden[p] /\ InFlight(p) < MaxCalls
  /\ hidden' = [hidden EXCEPT ![p] = FALSE]
  /\ IF paused[p] THEN /\ timer' = [timer EXCEPT ![p] = @ /\ seqRunning[p]]
                       /\ UNCHANGED sent
                  ELSE Send(p, "poll") /\ UNCHANGED timer
  /\ UNCHANGED <<gated, paused, seqRunning, answers, left, presses, fails>>

InView(p) == ~gated[p] /\ ~hidden[p]

\* Pause, or Resume.
Pause(p) ==
  /\ InView(p) /\ InFlight(p) < MaxCalls
  /\ paused' = [paused EXCEPT ![p] = ~@]
  /\ timer' = [timer EXCEPT ![p] = Sets(paused'[p], hidden[p], seqRunning[p])]
  /\ UNCHANGED <<gated, hidden, seqRunning, sent, answers, left, presses, fails>>

\* A button is pressed: "Bring the lab up" or "Take the lab down", Cancel in a
\* running sequence, one of a VM's, and "Shut down all VMs", which no sequence
\* disables.
Press(p, k) ==
  /\ InView(p) /\ presses < MaxPresses /\ InFlight(p) < MaxCalls
  /\ k = "lab" => ~seqRunning[p]
  /\ k = "cancel" => seqRunning[p]
  /\ k = "action" => ~seqRunning[p]
  /\ presses' = presses + 1
  /\ Send(p, k)
  /\ UNCHANGED <<flags, seqRunning, timer, answers, left, fails>>

\* An answer arrives.  The state is rendered, and the cycle goes on; a button's
\* answer asks for the state; the reading of "Shut down all VMs" acts on it.
Handle(p) ==
  /\ answers[p] # <<>>
  /\ answers' = [answers EXCEPT ![p] = Tail(@)]
  /\ LET a == Head(answers[p]) IN
       \/ /\ a.what = "poll"
          /\ seqRunning' = [seqRunning EXCEPT ![p] = a.running]
          /\ timer' = [timer EXCEPT ![p] = Sets(paused[p], hidden[p], a.running)]
          /\ UNCHANGED sent
       \/ /\ a.what = "refresh"
          /\ seqRunning' = [seqRunning EXCEPT ![p] = a.running]
          /\ UNCHANGED <<timer, sent>>
       \/ /\ a.what = "list"
          /\ Send(p, "action")
          /\ UNCHANGED <<seqRunning, timer>>
       \/ /\ a.what \in {"lab", "cancel", "action"}
          /\ Send(p, "refresh")
          /\ UNCHANGED <<seqRunning, timer>>
  /\ UNCHANGED <<flags, left, presses, fails>>

\* A request fails: the cycle goes on, anything else is let go.
Fails(p, k) ==
  /\ fails < MaxFails /\ sent[p][k] > 0
  /\ fails' = fails + 1
  /\ sent' = [sent EXCEPT ![p][k] = @ - 1]
  /\ timer' = IF k = "poll" THEN [timer EXCEPT ![p] = Sets(paused[p], hidden[p], seqRunning[p])]
              ELSE timer
  /\ UNCHANGED <<flags, seqRunning, answers, left, presses>>

----------------------------------------------------------------------------
(* The server.                                                              *)

\* The sequence after a request of kind k: asked for the state it takes a step.
After(k) ==
  IF k \in {"poll", "refresh", "list"} /\ left > 0 THEN left - 1
  ELSE IF k = "lab" /\ left = 0 THEN Steps
  ELSE IF k = "cancel" THEN 0
  ELSE left

Serve(p, k) ==
  /\ sent[p][k] > 0
  /\ sent' = [sent EXCEPT ![p][k] = @ - 1]
  /\ left' = After(k)
  /\ answers' = [answers EXCEPT ![p] = Append(@, [what |-> k, running |-> left' > 0])]
  /\ UNCHANGED <<flags, seqRunning, timer, presses, fails>>

Browses(p) ==
  \/ GateOpens(p) \/ Hide(p) \/ Show(p) \/ Pause(p)
  \/ \E k \in {"lab", "cancel", "action", "list"} : Press(p, k)

Next ==
  \E p \in Pages :
    \/ TimerFires(p) \/ Handle(p) \/ Browses(p)
    \/ \E k \in Kinds : Fails(p, k) \/ Serve(p, k)

\* The browser runs its timers and takes its answers, and the server answers;
\* nothing is asked of the user.
Fairness ==
  \A p \in Pages :
    /\ WF_vars(TimerFires(p)) /\ WF_vars(Handle(p))
    /\ \A k \in Kinds : WF_vars(Serve(p, k))

Spec == Init /\ [][Next]_vars
FairSpec == Spec /\ Fairness

----------------------------------------------------------------------------
(* Properties.                                                              *)

Polling(p) ==
  timer[p] \/ sent[p]["poll"] > 0 \/ \E i \in 1 .. Len(answers[p]) : answers[p][i].what = "poll"

\* A page in view that is not paused keeps asking, whatever was pressed, hidden,
\* shown, paused or lost, and in whatever order its answers come.
KeepsPolling == \A p \in Pages : InView(p) /\ ~paused[p] => Polling(p)

\* A paused page has no timeout set: it asks no more than what is on its way.
PausedIsQuiet == \A p \in Pages : paused[p] => ~timer[p]

\* A sequence goes on until it ends, the page that started it being paused or
\* left open in the background.
SequenceDriven == left > 0 ~> left = 0 \/ \E p \in Pages : paused[p]

\* A page left in a background tab, with no sequence, costs nothing in the end.
QuietInBackground ==
  \A p \in Pages : <>[](hidden[p] /\ left = 0) => <>[](InFlight(p) = 0 /\ ~timer[p])
=============================================================================
