--------------------------- MODULE Polling_proofs ---------------------------
(***************************************************************************)
(* Who polls, and what a poll does to the baseline: a page in view keeps   *)
(* polling, and a paused one does not, for any number of pages, presses,   *)
(* failures and requests in flight; and a poll of the manager that is over *)
(* within a tick scores windows against themselves, and shuts some out of  *)
(* the baseline, only where one began between its two fetches, for any     *)
(* number of processes, agents and alerts.                                 *)
(***************************************************************************)
EXTENDS PagePolling, StatusPoll, FiniteSetTheorems, TLAPS

LEMMA SendType ==
  ASSUME TypeOK, NEW p \in Pages, NEW k \in Kinds, Send(p, k)
  PROVE  /\ sent' \in [Pages -> [Kinds -> Nat]]
         /\ sent'[p][k] = sent[p][k] + 1
         /\ \A q \in Pages, j \in Kinds : q # p \/ j # k => sent'[q][j] = sent[q][j]
  BY DEF TypeOK, Send

LEMMA TakenType ==
  ASSUME TypeOK, NEW p \in Pages, NEW k \in Kinds, sent[p][k] > 0,
         sent' = [sent EXCEPT ![p][k] = @ - 1]
  PROVE  /\ sent' \in [Pages -> [Kinds -> Nat]]
         /\ \A q \in Pages, j \in Kinds : q # p \/ j # k => sent'[q][j] = sent[q][j]
<1>1. sent[p][k] - 1 \in Nat
  BY DEF TypeOK
<1>2. QED
  BY <1>1 DEF TypeOK

LEMMA SetsType ==
  ASSUME NEW a \in BOOLEAN, NEW b \in BOOLEAN, NEW c \in BOOLEAN
  PROVE  Sets(a, b, c) \in BOOLEAN
  BY DEF Sets

\* The pages' flags, their requests and answers in flight and the server's sequence
\* keep their types.
THEOREM PageTypes == Spec => []TypeOK
<1>1. Init => TypeOK
  BY PageAssumption DEF Init, TypeOK
<1>2. TypeOK /\ [Next]_vars => TypeOK'
  <2> SUFFICES ASSUME TypeOK, [Next]_vars PROVE TypeOK'
    OBVIOUS
  <2>1. ASSUME NEW p \in Pages, TimerFires(p) PROVE TypeOK'
    <3>1. "poll" \in Kinds
      BY DEF Kinds
    <3>2. sent' \in [Pages -> [Kinds -> Nat]]
      BY <2>1, <3>1, SendType DEF TimerFires
    <3>3. QED
      BY <2>1, <3>2 DEF TimerFires, TypeOK, flags
  <2>2. ASSUME NEW p \in Pages, GateOpens(p) PROVE TypeOK'
    <3>1. "poll" \in Kinds
      BY DEF Kinds
    <3>2. sent' \in [Pages -> [Kinds -> Nat]]
      BY <2>2, <3>1, SendType DEF GateOpens
    <3>3. QED
      BY <2>2, <3>2 DEF GateOpens, TypeOK, flags
  <2>3. ASSUME NEW p \in Pages, Hide(p) PROVE TypeOK'
    <3>1. timer' \in [Pages -> BOOLEAN] /\ hidden' \in [Pages -> BOOLEAN]
      BY <2>3, Zenon DEF Hide, TypeOK
    <3>2. QED
      BY <2>3, <3>1 DEF Hide, TypeOK, flags
  <2>4. ASSUME NEW p \in Pages, Show(p) PROVE TypeOK'
    <3>1. "poll" \in Kinds
      BY DEF Kinds
    <3>2. sent' \in [Pages -> [Kinds -> Nat]]
      <4>1. CASE paused[p]
        BY <2>4, <4>1 DEF Show, TypeOK
      <4>2. CASE ~paused[p]
        BY <2>4, <3>1, <4>2, SendType DEF Show
      <4>3. QED
        BY <4>1, <4>2
    <3>3. timer' \in [Pages -> BOOLEAN] /\ hidden' \in [Pages -> BOOLEAN]
      <4>1. CASE paused[p]
        BY <2>4, <4>1, Zenon DEF Show, TypeOK
      <4>2. CASE ~paused[p]
        BY <2>4, <4>2, Zenon DEF Show, TypeOK
      <4>3. QED
        BY <4>1, <4>2
    <3>4. QED
      BY <2>4, <3>2, <3>3 DEF Show, TypeOK
  <2>5. ASSUME NEW p \in Pages, Pause(p) PROVE TypeOK'
    <3>1. paused' \in [Pages -> BOOLEAN]
      BY <2>5, Zenon DEF Pause, TypeOK
    <3>2. Sets(paused'[p], hidden[p], seqRunning[p]) \in BOOLEAN
      BY <3>1, SetsType DEF TypeOK
    <3>3. timer' \in [Pages -> BOOLEAN]
      BY <2>5, <3>2, Zenon DEF Pause, TypeOK
    <3>4. QED
      BY <2>5, <3>1, <3>3 DEF Pause, TypeOK
  <2>6. ASSUME NEW p \in Pages, NEW k \in {"lab", "cancel", "action", "list"}, Press(p, k) PROVE TypeOK'
    <3>1. k \in Kinds
      BY DEF Kinds
    <3>2. sent' \in [Pages -> [Kinds -> Nat]]
      BY <2>6, <3>1, SendType DEF Press
    <3>3. QED
      BY <2>6, <3>2 DEF Press, TypeOK, flags
  <2>7. ASSUME NEW p \in Pages, Handle(p) PROVE TypeOK'
    <3> DEFINE a == Head(answers[p])
    <3>1. a \in Answers /\ Tail(answers[p]) \in Seq(Answers)
      BY <2>7 DEF Handle, TypeOK
    <3>2. answers' \in [Pages -> Seq(Answers)]
      BY <2>7, <3>1 DEF Handle, TypeOK
    <3>3. a.running \in BOOLEAN
      BY <3>1 DEF Answers
    <3>4. "refresh" \in Kinds /\ "action" \in Kinds
      BY DEF Kinds
    <3>5. sent' \in [Pages -> [Kinds -> Nat]]
      <4>1. \/ UNCHANGED sent
            \/ Send(p, "action")
            \/ Send(p, "refresh")
        BY <2>7 DEF Handle
      <4>2. QED
        BY <3>4, <4>1, SendType DEF TypeOK
    <3>6. seqRunning' \in [Pages -> BOOLEAN] /\ timer' \in [Pages -> BOOLEAN]
      <4>1. Sets(paused[p], hidden[p], a.running) \in BOOLEAN
        BY <3>3, SetsType DEF TypeOK
      <4>2. /\ \/ UNCHANGED seqRunning
               \/ seqRunning' = [seqRunning EXCEPT ![p] = a.running]
            /\ \/ UNCHANGED timer
               \/ timer' = [timer EXCEPT ![p] = Sets(paused[p], hidden[p], a.running)]
        BY <2>7 DEF Handle
      <4> HIDE DEF a
      <4>3. QED
        BY <3>3, <4>1, <4>2, Zenon DEF TypeOK
    <3>7. QED
      BY <2>7, <3>2, <3>5, <3>6 DEF Handle, TypeOK, flags
  <2>8. ASSUME NEW p \in Pages, NEW k \in Kinds, Fails(p, k) PROVE TypeOK'
    <3>1. sent' \in [Pages -> [Kinds -> Nat]]
      BY <2>8, TakenType DEF Fails
    <3>2. Sets(paused[p], hidden[p], seqRunning[p]) \in BOOLEAN
      BY SetsType DEF TypeOK
    <3>3. timer' \in [Pages -> BOOLEAN]
      <4>1. \/ timer' = [timer EXCEPT ![p] = Sets(paused[p], hidden[p], seqRunning[p])]
            \/ timer' = timer
        BY <2>8 DEF Fails
      <4>2. QED
        BY <3>2, <4>1, Zenon DEF TypeOK
    <3>4. QED
      BY <2>8, <3>1, <3>3 DEF Fails, TypeOK, flags
  <2>9. ASSUME NEW p \in Pages, NEW k \in Kinds, Serve(p, k) PROVE TypeOK'
    <3>1. sent' \in [Pages -> [Kinds -> Nat]]
      BY <2>9, TakenType DEF Serve
    <3>2. left' \in 0 .. Steps
      BY <2>9, PageAssumption DEF Serve, After, TypeOK
    <3>3. [what |-> k, running |-> left' > 0] \in Answers
      BY DEF Answers
    <3>4. Append(answers[p], [what |-> k, running |-> left' > 0]) \in Seq(Answers)
      BY <3>3 DEF TypeOK
    <3>5. answers' \in [Pages -> Seq(Answers)]
      BY <2>9, <3>4 DEF Serve, TypeOK
    <3>6. QED
      BY <2>9, <3>1, <3>2, <3>5 DEF Serve, TypeOK, flags
  <2>10. CASE UNCHANGED vars
    BY <2>10 DEF vars, TypeOK
  <2>11. QED
    BY <2>1, <2>2, <2>3, <2>4, <2>5, <2>6, <2>7, <2>8, <2>9, <2>10 DEF Next, Browses
<1>3. QED
  BY <1>1, <1>2, PTL DEF Spec

----------------------------------------------------------------------------
(* What becomes of a page's polling.                                        *)

Answered(p) == \E i \in 1 .. Len(answers[p]) : answers[p][i].what = "poll"

\* A page of which nothing changed polls as it did.
LEMMA PollingKept ==
  ASSUME NEW q \in Pages, timer'[q] = timer[q], answers'[q] = answers[q],
         sent'[q]["poll"] = sent[q]["poll"]
  PROVE  Polling(q)' = Polling(q)
  BY DEF Polling

Alive(p) == InView(p) /\ ~paused[p] => Polling(p)
Still(p) == paused[p] => ~timer[p]

\* A step of one page, or of the server for it, leaves the others' polling alone.
LEMMA Elsewhere ==
  ASSUME TypeOK, NEW p \in Pages, NEW q \in Pages, q # p,
         \/ TimerFires(p) \/ Handle(p) \/ Browses(p)
         \/ \E k \in Kinds : Fails(p, k) \/ Serve(p, k)
  PROVE  /\ Alive(q) => Alive(q)'
         /\ Still(q) => Still(q)'
<1>1. timer'[q] = timer[q]
  <2>1. \/ UNCHANGED timer
        \/ \E b : timer' = [timer EXCEPT ![p] = b]
    BY DEF TimerFires, Handle, Browses, GateOpens, Hide, Show, Pause, Press, Fails, Serve
  <2>2. QED
    BY <2>1 DEF TypeOK
<1>2. answers'[q] = answers[q]
  <2>1. \/ UNCHANGED answers
        \/ \E b : answers' = [answers EXCEPT ![p] = b]
    BY DEF TimerFires, Handle, Browses, GateOpens, Hide, Show, Pause, Press, Fails, Serve
  <2>2. QED
    BY <2>1 DEF TypeOK
<1>3. sent'[q] = sent[q]
  <2>1. \/ UNCHANGED sent
        \/ \E k \in Kinds : Send(p, k)
        \/ \E k \in Kinds : sent' = [sent EXCEPT ![p][k] = @ - 1]
    BY DEF TimerFires, Handle, Browses, GateOpens, Hide, Show, Pause, Press, Fails, Serve, Kinds
  <2>2. QED
    BY <2>1 DEF TypeOK, Send
<1>4. gated'[q] = gated[q] /\ hidden'[q] = hidden[q] /\ paused'[q] = paused[q]
  <2>1. /\ UNCHANGED gated \/ \E b : gated' = [gated EXCEPT ![p] = b]
        /\ UNCHANGED hidden \/ \E b : hidden' = [hidden EXCEPT ![p] = b]
        /\ UNCHANGED paused \/ \E b : paused' = [paused EXCEPT ![p] = b]
    BY DEF TimerFires, Handle, Browses, GateOpens, Hide, Show, Pause, Press, Fails, Serve, flags
  <2>2. QED
    BY <2>1 DEF TypeOK
<1>5. Polling(q)' = Polling(q)
  BY <1>1, <1>2, <1>3, PollingKept
<1>6. QED
  BY <1>1, <1>4, <1>5 DEF Alive, Still, InView

\* A page whose timeout is set as schedule() sets it is alive and still.
LEMMA Scheduled ==
  ASSUME TypeOK, NEW p \in Pages, NEW b,
         timer' = [timer EXCEPT ![p] = Sets(paused'[p], hidden'[p], b)]
  PROVE  Alive(p)' /\ Still(p)'
<1>1. timer'[p] = Sets(paused'[p], hidden'[p], b)
  BY DEF TypeOK
<1>2. QED
  BY <1>1 DEF Alive, Still, Sets, InView, Polling

\* A page that has just asked is alive.
LEMMA JustAsked ==
  ASSUME TypeOK, NEW p \in Pages, Send(p, "poll")
  PROVE  Alive(p)'
<1>1. sent'[p]["poll"] = sent[p]["poll"] + 1 /\ sent[p]["poll"] \in Nat
  BY SendType DEF TypeOK, Kinds
<1>2. QED
  BY <1>1 DEF Alive, Polling

\* The last answer read, the ones behind it stand.
LEMMA OthersStand ==
  ASSUME TypeOK, NEW p \in Pages, answers[p] # <<>>, Head(answers[p]).what # "poll",
         answers' = [answers EXCEPT ![p] = Tail(@)]
  PROVE  Answered(p) => Answered(p)'
<1> SUFFICES ASSUME NEW i \in 1 .. Len(answers[p]), answers[p][i].what = "poll"
             PROVE  Answered(p)'
  BY DEF Answered
<1>1. answers[p] \in Seq(Answers) /\ answers'[p] = Tail(answers[p])
  BY DEF TypeOK
<1>2. i # 1
  BY <1>1
<1>3. i - 1 \in 1 .. Len(answers'[p]) /\ answers'[p][i - 1] = answers[p][i]
  <2> DEFINE s == answers[p]
             t == answers'[p]
  <2>1. s \in Seq(Answers) /\ t = Tail(s) /\ s # <<>> /\ i \in 1 .. Len(s) /\ i # 1
    BY <1>1, <1>2
  <2> HIDE DEF s, t
  <2>2. Len(t) = Len(s) - 1 /\ \A j \in 1 .. Len(t) : t[j] = s[j + 1]
    BY <2>1
  <2>3. i - 1 \in 1 .. Len(t) /\ t[i - 1] = s[i]
    BY <2>1, <2>2
  <2>4. QED
    BY <2>3 DEF s, t
<1>4. QED
  BY <1>3 DEF Answered

\* An answer more, and a request fewer.
LEMMA AnswerAdded ==
  ASSUME TypeOK, NEW p \in Pages, NEW k \in Kinds, Serve(p, k), Polling(p)
  PROVE  Polling(p)'
<1> DEFINE a == [what |-> k, running |-> left' > 0]
<1>1. answers[p] \in Seq(Answers) /\ answers'[p] = Append(answers[p], a)
  BY DEF TypeOK, Serve
<1>2. a.what = k
  OBVIOUS
<1>3. a \in Answers
  BY DEF Answers
<1> HIDE DEF a
<1>4. Len(answers'[p]) \in 1 .. Len(answers'[p]) /\ answers'[p][Len(answers'[p])] = a
  BY <1>1, <1>3
<1>5. CASE k = "poll"
  BY <1>2, <1>4, <1>5 DEF Polling
<1>6. CASE k # "poll"
  <2>1. "poll" \in Kinds
    BY DEF Kinds
  <2>2. sent'[p]["poll"] = sent[p]["poll"] /\ timer' = timer
    BY <1>6, <2>1, TakenType DEF Serve
  <2>3. \A i \in 1 .. Len(answers[p]) :
          i \in 1 .. Len(answers'[p]) /\ answers'[p][i] = answers[p][i]
    BY <1>1, <1>3
  <2>4. QED
    BY <2>2, <2>3 DEF Polling
<1>7. QED
  BY <1>5, <1>6

\* A step keeps the page it is a step of alive and still.
LEMMA Here ==
  ASSUME TypeOK, NEW p \in Pages, Alive(p), Still(p),
         \/ TimerFires(p) \/ Handle(p) \/ Browses(p)
         \/ \E k \in Kinds : Fails(p, k) \/ Serve(p, k)
  PROVE  Alive(p)' /\ Still(p)'
<1>0. "poll" \in Kinds
  BY DEF Kinds
<1>1. CASE TimerFires(p)
  <2>1. Alive(p)'
    BY <1>1, JustAsked DEF TimerFires
  <2>2. timer'[p] = FALSE
    BY <1>1 DEF TimerFires, TypeOK
  <2>3. QED
    BY <2>1, <2>2 DEF Still
<1>2. CASE GateOpens(p)
  <2>1. Alive(p)'
    BY <1>2, JustAsked DEF GateOpens
  <2>2. QED
    BY <1>2, <2>1 DEF Still, GateOpens
<1>3. CASE Hide(p)
  <2>1. hidden'[p] = TRUE /\ (timer'[p] => timer[p]) /\ paused' = paused
    BY <1>3 DEF Hide, TypeOK
  <2>2. QED
    BY <2>1 DEF Alive, Still, InView
<1>4. CASE Show(p)
  <2>1. CASE paused[p]
    <3>1. timer'[p] => timer[p]
      BY <1>4, <2>1 DEF Show, TypeOK
    <3>2. paused' = paused
      BY <1>4 DEF Show
    <3>3. QED
      BY <2>1, <3>1, <3>2 DEF Alive, Still
  <2>2. CASE ~paused[p]
    <3>1. Alive(p)'
      BY <1>4, <2>2, JustAsked DEF Show
    <3>2. QED
      BY <1>4, <2>2, <3>1 DEF Show, Still
  <2>3. QED
    BY <2>1, <2>2
<1>5. CASE Pause(p)
  <2>1. hidden' = hidden /\ timer' = [timer EXCEPT ![p] = Sets(paused'[p], hidden'[p], seqRunning[p])]
    BY <1>5 DEF Pause
  <2>2. QED
    BY <2>1, Scheduled
<1>6. ASSUME NEW k \in {"lab", "cancel", "action", "list"}, Press(p, k)
      PROVE  Alive(p)' /\ Still(p)'
  <2>1. k \in Kinds /\ k # "poll"
    BY DEF Kinds
  <2>2. sent'[p]["poll"] = sent[p]["poll"]
    BY <1>0, <1>6, <2>1, SendType DEF Press
  <2>3. UNCHANGED <<flags, timer, answers>>
    BY <1>6 DEF Press
  <2>4. Polling(p)' = Polling(p)
    BY <2>2, <2>3, PollingKept
  <2>5. QED
    BY <2>3, <2>4 DEF Alive, Still, InView, flags
<1>7. CASE Handle(p)
  <2> DEFINE a == Head(answers[p])
  <2>1. answers' = [answers EXCEPT ![p] = Tail(@)] /\ answers[p] # <<>> /\ UNCHANGED flags
    BY <1>7 DEF Handle
  <2>2. CASE a.what = "poll"
    <3>1. timer' = [timer EXCEPT ![p] = Sets(paused[p], hidden[p], a.running)]
      BY <1>7, <2>2 DEF Handle
    <3>2. timer' = [timer EXCEPT ![p] = Sets(paused'[p], hidden'[p], a.running)]
      BY <2>1, <3>1 DEF flags
    <3> HIDE DEF a
    <3>3. QED
      BY <3>2, Scheduled
  <2>3. CASE a.what # "poll"
    <3>1. Answered(p) => Answered(p)'
      BY <2>1, <2>3, OthersStand
    <3>2. timer' = timer
      BY <1>7, <2>3 DEF Handle
    <3>3. sent'[p]["poll"] = sent[p]["poll"]
      <4>1. UNCHANGED sent \/ Send(p, "action") \/ Send(p, "refresh")
        BY <1>7, <2>3 DEF Handle
      <4>2. "action" \in Kinds /\ "refresh" \in Kinds
        BY DEF Kinds
      <4>3. QED
        BY <1>0, <4>1, <4>2, SendType
    <3>4. Polling(p) => Polling(p)'
      BY <3>1, <3>2, <3>3 DEF Polling, Answered
    <3>5. QED
      BY <2>1, <3>2, <3>4 DEF Alive, Still, InView, flags
  <2>4. QED
    BY <2>2, <2>3
<1>8. ASSUME NEW k \in Kinds, Fails(p, k) PROVE Alive(p)' /\ Still(p)'
  <2>1. CASE k = "poll"
    <3>1. timer' = [timer EXCEPT ![p] = Sets(paused'[p], hidden'[p], seqRunning[p])]
      BY <1>8, <2>1 DEF Fails, flags
    <3>2. QED
      BY <3>1, Scheduled
  <2>2. CASE k # "poll"
    <3>1. sent'[p]["poll"] = sent[p]["poll"]
      BY <1>0, <1>8, <2>2, TakenType DEF Fails
    <3>2. UNCHANGED <<flags, timer, answers>>
      BY <1>8, <2>2 DEF Fails
    <3>3. Polling(p)' = Polling(p)
      BY <3>1, <3>2, PollingKept
    <3>4. QED
      BY <3>2, <3>3 DEF Alive, Still, InView, flags
  <2>3. QED
    BY <2>1, <2>2
<1>9. ASSUME NEW k \in Kinds, Serve(p, k) PROVE Alive(p)' /\ Still(p)'
  <2>1. UNCHANGED <<flags, timer>>
    BY <1>9 DEF Serve
  <2>2. Polling(p) => Polling(p)'
    BY <1>9, AnswerAdded
  <2>3. QED
    BY <2>1, <2>2 DEF Alive, Still, InView, flags
<1>10. QED
  BY <1>1, <1>2, <1>3, <1>4, <1>5, <1>6, <1>7, <1>8, <1>9 DEF Browses

LEMMA CycleKept == Spec => [](\A p \in Pages : Alive(p) /\ Still(p))
<1>1. Init => \A p \in Pages : Alive(p) /\ Still(p)
  BY DEF Init, Alive, Still, InView
<1>2. TypeOK /\ (\A p \in Pages : Alive(p) /\ Still(p)) /\ [Next]_vars
        => (\A p \in Pages : Alive(p) /\ Still(p))'
  <2> SUFFICES ASSUME TypeOK, \A p \in Pages : Alive(p) /\ Still(p), [Next]_vars, NEW q \in Pages
               PROVE  Alive(q)' /\ Still(q)'
    OBVIOUS
  <2>1. CASE UNCHANGED vars
    BY <2>1 DEF vars, Alive, Still, InView, Polling
  <2>2. CASE Next
    <3>1. PICK p \in Pages : \/ TimerFires(p) \/ Handle(p) \/ Browses(p)
                             \/ \E k \in Kinds : Fails(p, k) \/ Serve(p, k)
      BY <2>2 DEF Next
    <3>2. CASE q = p
      BY <3>1, <3>2, Here
    <3>3. CASE q # p
      BY <3>1, <3>3, Elsewhere
    <3>4. QED
      BY <3>2, <3>3
  <2>3. QED
    BY <2>1, <2>2
<1>3. QED
  BY <1>1, <1>2, PageTypes, PTL DEF Spec

\* A page in view that is not paused keeps asking: schedule() and the handlers of
\* refresh() and of visibilitychange between them never let go of the cycle.
THEOREM CycleNeverLost == Spec => []KeepsPolling
<1>1. (\A p \in Pages : Alive(p) /\ Still(p)) => KeepsPolling
  BY DEF Alive, KeepsPolling
<1>2. QED
  BY <1>1, CycleKept, PTL

\* A paused page has no timeout set, whatever answer arrives after the pause.
THEOREM PauseHolds == Spec => []PausedIsQuiet
<1>1. (\A p \in Pages : Alive(p) /\ Still(p)) => PausedIsQuiet
  BY DEF Still, PausedIsQuiet
<1>2. QED
  BY <1>1, CycleKept, PTL

----------------------------------------------------------------------------
(* The poll of the manager.                                                 *)

USE PollAssumption DEF PollAssumption

----------------------------------------------------------------------------
(* Sets of windows, and the windows of alerts.                              *)

LEMMA MinExists ==
  ASSUME NEW S \in SUBSET Nat, S # {}
  PROVE  Min(S) \in S /\ \A s \in S : Min(S) <= s
<1>1. \E x \in S : \A y \in S : ~(<<y, x>> \in OpToRel(<, Nat))
  BY NatLessThanWellFounded, WFMin
<1>2. \E x \in S : \A y \in S : x <= y
  <2>1. PICK x \in S : \A y \in S : ~(<<y, x>> \in OpToRel(<, Nat))
    BY <1>1
  <2>2. ASSUME NEW y \in S PROVE x <= y
    <3>1. ~(y < x)
      BY <2>1 DEF OpToRel
    <3>2. QED
      BY <3>1
  <2>3. QED
    BY <2>2
<1>3. QED
  BY <1>2 DEF Min

LEMMA MaxExists ==
  ASSUME NEW S \in SUBSET Nat, S # {}, NEW n \in Nat, \A s \in S : s <= n
  PROVE  Max(S) \in S /\ \A s \in S : s <= Max(S)
<1> DEFINE T == {m \in Nat : n - m \in S}
<1>1. T \in SUBSET Nat /\ T # {}
  <2>1. PICK s \in S : TRUE
    OBVIOUS
  <2>2. n - s \in T
    BY <2>1
  <2>3. QED
    BY <2>2
<1>2. PICK x \in T : \A y \in T : x <= y
  BY <1>1, MinExists
<1>3. n - x \in S
  BY <1>2
<1>4. ASSUME NEW s \in S PROVE s <= n - x
  <2>1. n - s \in T
    BY <1>4
  <2>2. x <= n - s
    BY <1>2, <2>1
  <2>3. QED
    BY <2>2, <1>2
<1>5. QED
  BY <1>3, <1>4 DEF Max

LEMMA WindowOf ==
  ASSUME NEW t \in Nat
  PROVE  Window(t) \in Nat \ {0} /\ (t <= MaxTime => Window(t) \in Epochs)
BY DEF Window, Epochs

LEMMA WindowRises ==
  ASSUME NEW s \in Nat, NEW t \in Nat, s <= t
  PROVE  Window(s) <= Window(t)
BY DEF Window

----------------------------------------------------------------------------
(* What a fetch is sure to return.                                          *)

LEMMA AlertsFinite ==
  /\ IsFiniteSet(Alerts)
  /\ \A rows \in SUBSET Alerts : IsFiniteSet(rows)
  /\ \A x \in Alerts : x[1] \in Agents /\ x[2] \in Nat /\ x[2] <= MaxTime /\ x = <<x[1], x[2]>>
<1>1. IsFiniteSet(0 .. MaxTime)
  BY FS_Interval
<1>2. IsFiniteSet(Alerts)
  BY <1>1, FS_Product DEF Alerts
<1>3. \A rows \in SUBSET Alerts : IsFiniteSet(rows)
  BY <1>2, FS_Subset
<1>4. QED
  BY <1>2, <1>3 DEF Alerts

LEMMA WindowsFinite ==
  ASSUME NEW rows \in SUBSET Alerts
  PROVE  /\ Windows(rows) \subseteq Epochs /\ Epochs \subseteq Nat \ {0}
         /\ IsFiniteSet(Epochs) /\ \A W \in SUBSET Windows(rows) : IsFiniteSet(W)
<1>1. Windows(rows) \subseteq Epochs
  BY WindowOf, AlertsFinite DEF Windows
<1>2. Window(MaxTime) \in Nat
  BY WindowOf
<1>3. IsFiniteSet(Epochs)
  BY <1>2, FS_Interval DEF Epochs
<1>4. Epochs \subseteq Nat \ {0}
  BY <1>2 DEF Epochs
<1>5. \A W \in SUBSET Windows(rows) : IsFiniteSet(W)
  BY <1>1, <1>3, FS_Subset
<1>6. QED
  BY <1>1, <1>3, <1>4, <1>5

\* More windows are newer than the older of two.
LEMMA MoreAreNewer ==
  ASSUME NEW rows \in SUBSET Alerts, NEW more \in SUBSET Alerts, rows \subseteq more,
         NEW v \in Nat, NEW w \in Nat, v <= w
  PROVE  /\ NewerWindows(rows, w) \in Nat
         /\ NewerWindows(more, v) \in Nat
         /\ NewerWindows(rows, w) <= NewerWindows(more, v)
<1>1. {u \in Windows(rows) : u > w} \subseteq {u \in Windows(more) : u > v}
  BY WindowsFinite DEF Windows
<1>2. IsFiniteSet({u \in Windows(rows) : u > w}) /\ IsFiniteSet({u \in Windows(more) : u > v})
  BY WindowsFinite
<1>3. QED
  BY <1>1, <1>2, FS_Subset, FS_CardinalityType DEF NewerWindows

LEMMA NewestIs ==
  ASSUME NEW rows \in SUBSET Alerts, NEW n \in Nat, NEW kept \in NewestOf(rows, n)
  PROVE  /\ kept \subseteq rows /\ IsFiniteSet(kept)
         /\ kept = rows \/ /\ Cardinality(kept) = n
                           /\ \A x \in kept, y \in rows \ kept : y[2] <= x[2]
         /\ kept = rows => Cardinality(kept) <= n
<1>1. CASE Cardinality(rows) <= n
  BY <1>1, AlertsFinite DEF NewestOf
<1>2. CASE ~(Cardinality(rows) <= n)
  <2>1. kept \in kSubset(n, rows) /\ \A x \in kept, y \in rows \ kept : y[2] <= x[2]
    BY <1>2 DEF NewestOf
  <2>2. kept \subseteq rows /\ Cardinality(kept) = n
    BY <2>1 DEF kSubset
  <2>3. QED
    BY <2>1, <2>2, <1>2, AlertsFinite
<1>3. QED
  BY <1>1, <1>2

\* A fetch that leaves an alert out is full, of alerts that are no older.
LEMMA FetchIsFull ==
  ASSUME NEW rows \in SUBSET Alerts, NEW kept \in NewestOf(rows, MaxDocs), NEW y \in rows \ kept
  PROVE  Cardinality(kept) = MaxDocs /\ \A q \in kept : y[2] <= q[2]
<1>1. kept # rows
  OBVIOUS
<1>2. QED
  BY <1>1, NewestIs

----------------------------------------------------------------------------
(* Which windows a poll folds.                                              *)

\* Under way: a page that was fetched at this tick; alerts may have arrived since.
Fit(page) ==
  /\ page # {} /\ page \subseteq Within(PageSpan)
  /\ \A y \in Within(PageSpan) \ page : Window(y[2]) < Current(page) =>
       Cardinality(page) = MaxDocs /\ \A q \in page : y[2] <= q[2]

\* Its alerts, its windows, and the newest of them.
LEMMA FitType ==
  ASSUME alerts \subseteq Alerts, NEW page, Fit(page)
  PROVE  /\ page \subseteq alerts /\ page \subseteq Alerts /\ Windows(page) \subseteq Nat
         /\ \A z \in page : z[2] \in Nat /\ Window(z[2]) \in Windows(page) /\ Window(z[2]) <= Current(page)
         /\ Current(page) \in Windows(page) /\ Current(page) \in Nat
<1>1. page \subseteq alerts /\ page \subseteq Alerts /\ page # {}
  BY DEF Fit, Within
<1>2. Windows(page) \subseteq Epochs /\ Epochs \subseteq Nat
  BY <1>1, WindowsFinite
<1>3. Windows(page) # {}
  BY <1>1 DEF Windows
<1>4. Window(MaxTime) \in Nat /\ \A w \in Windows(page) : w <= Window(MaxTime)
  BY <1>2, WindowOf DEF Epochs
<1>5. Current(page) \in Windows(page) /\ \A w \in Windows(page) : w <= Current(page)
  BY <1>2, <1>3, <1>4, MaxExists DEF Current
<1>6. QED
  BY <1>1, <1>2, <1>5, AlertsFinite DEF Windows

\* A page that was just fetched from the indexer is such.
LEMMA FetchedIsFit ==
  ASSUME alerts \subseteq Alerts, NEW page \in NewestOf(Within(PageSpan), MaxDocs), page # {}
  PROVE  Fit(page)
<1>1. Within(PageSpan) \subseteq Alerts
  BY DEF Within
<1>2. page \subseteq Within(PageSpan)
  BY <1>1, NewestIs
<1>3. QED
  BY <1>1, <1>2, FetchIsFull DEF Fit

\* Between a window it has an alert of and its newest, a page has all alerts.
LEMMA PageIsWhole ==
  ASSUME alerts \subseteq Alerts, now \in Nat, NEW page, Fit(page),
         NEW z \in page, NEW x \in alerts, Window(z[2]) < Window(x[2]), Window(x[2]) < Current(page)
  PROVE  x \in page
<1>1. z \in Alerts /\ x \in Alerts /\ z[2] >= now - PageSpan
  BY FitType DEF Fit, Within
<1>2. x[2] \in Nat /\ z[2] \in Nat /\ Window(x[2]) \in Nat /\ Window(z[2]) \in Nat
  BY <1>1, AlertsFinite, WindowOf
<1>3. z[2] < x[2]
  BY <1>2, WindowRises
<1>4. x \in Within(PageSpan)
  BY <1>1, <1>2, <1>3 DEF Within
<1>5. QED
  BY <1>2, <1>3, <1>4 DEF Fit

\* The alerts of a window that is whole are within the page's span, and so few that a
\* full fetch has an older one.
LEMMA WholeIs ==
  ASSUME alerts \subseteq Alerts, now \in Nat, NEW x \in alerts, Whole(Window(x[2]))
  PROVE  /\ x \in Within(PageSpan)
         /\ \A rows \in SUBSET alerts :
              Cardinality(rows) = MaxDocs => \E q \in rows : Window(q[2]) < Window(x[2])
         /\ \A w \in Nat : Window(x[2]) <= w => Whole(w)
<1> DEFINE w0 == Window(x[2])  From(w) == {y \in alerts : Window(y[2]) >= w}
<1>1. x[2] \in Nat /\ w0 \in Nat \ {0} /\ Width \in Nat \ {0}
  BY AlertsFinite, WindowOf
<1>2. (w0 - 1) * Width <= x[2]
  BY <1>1 DEF Window
<1>3. (w0 - 1) * Width >= now - PageSpan /\ Cardinality(From(w0)) < MaxDocs
  BY DEF Whole
<1>4. x \in Within(PageSpan)
  <2>1. (w0 - 1) * Width \in Int
    BY <1>1
  <2>2. x[2] >= now - PageSpan
    BY <1>1, <1>2, <1>3, <2>1
  <2>3. QED
    BY <2>2 DEF Within
<1>5. \A w : IsFiniteSet(From(w)) /\ Cardinality(From(w)) \in Nat
  BY AlertsFinite, FS_CardinalityType
<1>6. ASSUME NEW rows \in SUBSET alerts, Cardinality(rows) = MaxDocs
      PROVE  \E q \in rows : Window(q[2]) < w0
  <2>1. SUFFICES ASSUME \A q \in rows : ~(Window(q[2]) < w0) PROVE FALSE
    OBVIOUS
  <2>2. \A q \in rows : Window(q[2]) \in Nat
    BY AlertsFinite, WindowOf
  <2>3. rows \subseteq From(w0)
    BY <1>1, <2>1, <2>2
  <2> HIDE DEF From, w0
  <2>4. Cardinality(rows) <= Cardinality(From(w0))
    BY <1>5, <2>3, FS_Subset
  <2>5. QED
    BY <1>3, <1>5, <1>6, <2>4
<1>7. ASSUME NEW w \in Nat, w0 <= w PROVE Whole(w)
  <2>1. (w0 - 1) * Width <= (w - 1) * Width
    <3>1. \A i, j \in Int, n \in Nat : i <= j => i * n <= j * n
      OBVIOUS
    <3>2. w0 - 1 <= w - 1
      BY <1>1, <1>7
    <3> HIDE DEF w0
    <3>3. QED
      BY <1>1, <1>7, <3>1, <3>2
  <2>2. From(w) \subseteq From(w0)
    <3>1. \A y \in alerts : Window(y[2]) \in Nat
      BY AlertsFinite, WindowOf
    <3>2. QED
      BY <1>1, <1>7, <3>1
  <2> DEFINE m == Cardinality(From(w))  n == Cardinality(From(w0))  i == (w0 - 1) * Width  j == (w - 1) * Width
  <2>3. m <= n /\ m \in Nat /\ n \in Nat
    BY <1>5, <2>2, FS_Subset
  <2>4. i \in Int /\ j \in Int
    BY <1>1, <1>7
  <2>5. i <= j /\ i >= now - PageSpan /\ n < MaxDocs
    BY <1>3, <2>1
  <2>6. j >= now - PageSpan /\ m < MaxDocs
    <3> HIDE DEF m, n, i, j
    <3>1. QED
      BY <2>3, <2>4, <2>5
  <2>7. QED
    BY <2>6 DEF Whole
<1>8. QED
  BY <1>4, <1>6, <1>7

\* Of a window that is whole and not the newest of a page, the page has all alerts.
LEMMA WholeOnPage ==
  ASSUME alerts \subseteq Alerts, now \in Nat, NEW page, Fit(page),
         NEW x \in alerts, Whole(Window(x[2])), Window(x[2]) < Current(page)
  PROVE  x \in page
<1>1. SUFFICES ASSUME x \notin page PROVE FALSE
  OBVIOUS
<1>2. Cardinality(page) = MaxDocs /\ \A q \in page : x[2] <= q[2]
  BY <1>1, WholeIs DEF Fit
<1>3. PICK q \in page : Window(q[2]) < Window(x[2])
  BY <1>2, WholeIs, FitType
<1>4. q[2] \in Nat /\ x[2] \in Nat /\ x[2] <= q[2]
  BY <1>2, <1>3, FitType, AlertsFinite
<1>5. Window(x[2]) <= Window(q[2]) /\ Window(x[2]) \in Nat /\ Window(q[2]) \in Nat
  BY <1>4, WindowRises, WindowOf
<1>6. QED
  BY <1>3, <1>5

\* No page will show this window again, unless a newer begins while it is fetched: enough
\* newer ones there are, or the span of a page has passed its alerts.
Behind(w) ==
  \/ NewerWindows(alerts, w) >= OnPage
  \/ \A y \in alerts : Window(y[2]) = w => y \notin Within(PageSpan)

Older(w) == \E y \in alerts : w < Window(y[2])

LEMMA ShownIsNotBehind ==
  ASSUME alerts \subseteq Alerts, now \in Nat, NEW page, Fit(page), ~Overtaken(page),
         NEW w \in Shown(page)
  PROVE  ~Behind(w)
<1>1. page \subseteq alerts /\ page \subseteq Alerts /\ page \subseteq Within(PageSpan)
  BY FitType DEF Fit
<1>2. PICK z \in page : w = Window(z[2])
  BY DEF Shown, Windows
<1>3. w \in Windows(page) /\ w \in Nat /\ Current(page) \in Windows(page) /\ Current(page) \in Nat
  BY FitType DEF Shown
<1>4. ASSUME NEW v \in Windows(alerts), v > w PROVE v \in Windows(page)
  <2>1. PICK x \in alerts : v = Window(x[2])
    BY <1>4 DEF Windows
  <2>2. v \in Nat /\ ~(v > Current(page))
    BY <2>1, AlertsFinite, WindowOf DEF Overtaken
  <2>3. CASE v = Current(page)
    BY <1>3, <2>3
  <2>4. CASE v # Current(page)
    <3>1. Window(x[2]) < Current(page) /\ Window(z[2]) < Window(x[2])
      BY <1>2, <1>3, <1>4, <2>1, <2>2, <2>4
    <3>2. x \in page
      BY <3>1, PageIsWhole
    <3>3. QED
      BY <2>1, <3>2 DEF Windows
  <2>5. QED
    BY <2>3, <2>4
<1>5. {v \in Windows(alerts) : v > w} = {v \in Windows(page) : v > w}
  BY <1>1, <1>4 DEF Windows
<1>6. NewerWindows(alerts, w) = NewerWindows(page, w)
  BY <1>5 DEF NewerWindows
<1>7. NewerWindows(page, w) < OnPage /\ NewerWindows(page, w) \in Nat
  BY <1>1, <1>3, MoreAreNewer DEF Shown
<1>8. QED
  BY <1>1, <1>2, <1>6, <1>7 DEF Behind

\* What is folded of a page is behind it, and so is what is older.
LEMMA FoldableBehind ==
  ASSUME alerts \subseteq Alerts, now \in Nat, NEW page, Fit(page), NEW w \in Foldable(page)
  PROVE  /\ w \in Windows(page) /\ w < Current(page) /\ Behind(w) /\ Older(w)
         /\ \A v \in Windows(page) : v <= w => v \in Foldable(page)
<1>1. page \subseteq alerts /\ page \subseteq Alerts /\ Windows(page) \subseteq Nat
      /\ Current(page) \in Windows(page) /\ \A v \in Windows(page) : v <= Current(page)
  BY FitType DEF Windows
<1>2. w \in Windows(page) /\ w \notin Shown(page) /\ w # Current(page)
  BY DEF Foldable
<1>4. NewerWindows(page, w) >= OnPage
  <2>1. w \in Nat
    BY <1>1, <1>2
  <2>2. NewerWindows(page, w) \in Nat
    BY <1>1, <2>1, MoreAreNewer
  <2>3. QED
    BY <1>2, <2>2 DEF Shown
<1>5. Behind(w)
  BY <1>1, <1>2, <1>4, MoreAreNewer DEF Behind
<1>6. w < Current(page)
  BY <1>1, <1>2
<1>7. Older(w)
  BY <1>1, <1>6 DEF Older, Windows
<1>8. ASSUME NEW v \in Windows(page), v <= w PROVE v \in Foldable(page)
  <2>1. NewerWindows(page, v) >= OnPage /\ NewerWindows(page, v) \in Nat
    BY <1>1, <1>2, <1>4, <1>8, MoreAreNewer
  <2>2. v \notin Shown(page)
    BY <2>1 DEF Shown
  <2>3. v # Current(page)
    BY <1>1, <1>6, <1>2, <1>8
  <2>4. QED
    BY <2>2, <2>3 DEF Foldable
<1>9. QED
  BY <1>2, <1>5, <1>6, <1>7, <1>8

\* The longer span's rows are those of a fetch, but for its oldest window if it is full.
LEMMA WarmIs ==
  ASSUME alerts \subseteq Alerts, NEW warm \in WarmAnswers
  PROVE  \E kept \in NewestOf(Within(WarmSpan), MaxDocs) :
           /\ warm \subseteq kept /\ kept \subseteq alerts /\ kept \subseteq Within(WarmSpan)
           /\ IsFiniteSet(kept) /\ Cardinality(kept) <= MaxDocs
           /\ \A x, k \in kept : Window(k[2]) < Window(x[2]) => x \in warm
           /\ \/ warm = Within(WarmSpan)
              \/ \A x \in warm : \E k \in kept : Window(k[2]) < Window(x[2])
           /\ warm = Within(WarmSpan) \/ Cardinality(kept) = MaxDocs
<1>1. Within(WarmSpan) \subseteq alerts /\ Within(WarmSpan) \subseteq Alerts
  BY DEF Within
<1>2. CASE Cardinality(Within(WarmSpan)) <= MaxDocs
  <2>1. warm = Within(WarmSpan) /\ warm \in NewestOf(Within(WarmSpan), MaxDocs)
    BY <1>2 DEF WarmAnswers, NewestOf
  <2>2. QED
    BY <1>1, <1>2, <2>1, AlertsFinite
<1>3. CASE ~(Cardinality(Within(WarmSpan)) <= MaxDocs)
  <2>1. PICK kept \in NewestOf(Within(WarmSpan), MaxDocs) :
          warm = {x \in kept : Window(x[2]) > Min({Window(y[2]) : y \in kept})}
    BY <1>3 DEF WarmAnswers
  <2>2. kept \subseteq alerts /\ kept \subseteq Alerts /\ kept \subseteq Within(WarmSpan)
        /\ IsFiniteSet(kept) /\ Cardinality(kept) = MaxDocs
    BY <1>1, <1>3, NewestIs
  <2> DEFINE W == {Window(y[2]) : y \in kept}
  <2>3. W \in SUBSET Nat /\ \A k \in kept : Window(k[2]) \in W /\ Window(k[2]) \in Nat
    BY <2>2, AlertsFinite, WindowOf
  <2>4. W # {} => Min(W) \in W /\ \A v \in W : Min(W) <= v
    BY <2>3, MinExists
  <2>5. ASSUME NEW x \in kept, NEW k \in kept, Window(k[2]) < Window(x[2]) PROVE x \in warm
    <3>1. Min(W) \in Nat /\ Min(W) <= Window(k[2]) /\ Window(k[2]) \in Nat /\ Window(x[2]) \in Nat
      BY <2>3, <2>4
    <3>2. QED
      BY <2>1, <2>5, <3>1
  <2>6. ASSUME NEW x \in warm PROVE \E k \in kept : Window(k[2]) < Window(x[2])
    <3>1. x \in kept /\ Window(x[2]) > Min(W)
      BY <2>1
    <3>2. Min(W) \in W
      BY <2>4, <3>1
    <3>3. PICK k \in kept : Min(W) = Window(k[2])
      BY <3>2
    <3>4. Window(k[2]) < Window(x[2])
      BY <2>3, <3>1, <3>3
    <3>5. QED
      BY <3>4
  <2>7. warm \subseteq kept
    BY <2>1
  <2>8. Cardinality(kept) <= MaxDocs
    BY <2>2
  <2> HIDE DEF W
  <2>9. QED
    BY <2>2, <2>5, <2>6, <2>7, <2>8
<1>4. QED
  BY <1>2, <1>3

\* What the longer span shows of windows older than the page's newest is behind the page.
LEMMA WarmFoldableBehind ==
  ASSUME alerts \subseteq Alerts, now \in Nat, NEW page, Fit(page),
         NEW warm \in WarmAnswers, NEW w \in WarmFoldable(page, warm), w < Current(page)
  PROVE  Behind(w)
<1>1. page \subseteq alerts /\ page \subseteq Alerts /\ page \subseteq Within(PageSpan)
  BY FitType DEF Fit
<1>2. w \in Windows(warm) /\ w \notin Shown(page) /\ w # Current(page)
  BY DEF WarmFoldable
<1>3. CASE w \in Windows(page)
  BY <1>2, <1>3, FoldableBehind DEF Foldable
<1>4. CASE w \notin Windows(page)
  <2>1. SUFFICES ASSUME NEW y \in alerts, Window(y[2]) = w, y \in Within(PageSpan) PROVE FALSE
    BY DEF Behind
  <2>2. y \notin page
    BY <1>4, <2>1 DEF Windows
  <2>3. Cardinality(page) = MaxDocs /\ \A q \in page : y[2] <= q[2]
    BY <2>1, <2>2 DEF Fit
  <2>4. PICK kept \in NewestOf(Within(WarmSpan), MaxDocs) :
           /\ warm \subseteq kept /\ kept \subseteq Within(WarmSpan)
           /\ IsFiniteSet(kept) /\ Cardinality(kept) <= MaxDocs
           /\ \/ warm = Within(WarmSpan)
              \/ \A x \in warm : \E k \in kept : Window(k[2]) < Window(x[2])
    BY WarmIs
  <2>5. Within(PageSpan) \subseteq Within(WarmSpan) /\ Within(WarmSpan) \subseteq Alerts
    <3>1. \A x \in alerts : x[2] \in Nat
      BY AlertsFinite
    <3>2. QED
      BY <3>1 DEF Within
  <2>6. \E k \in kept : page \subseteq kept /\ k \notin page
    <3>1. CASE warm = Within(WarmSpan)
      BY <1>1, <2>1, <2>2, <2>4, <2>5, <3>1
    <3>2. CASE \A x \in warm : \E k \in kept : Window(k[2]) < Window(x[2])
      <4>1. PICK v \in warm : w = Window(v[2])
        BY <1>2 DEF Windows
      <4>2. PICK k \in kept : Window(k[2]) < w
        BY <3>2, <4>1
      <4>3. k \in Alerts /\ k[2] \in Nat /\ y[2] \in Nat /\ Window(k[2]) \in Nat /\ Window(y[2]) \in Nat
        BY <2>4, <2>5, <4>2, AlertsFinite, WindowOf
      <4>4. k[2] < y[2]
        BY <2>1, <4>2, <4>3, WindowRises
      <4>5. \A q \in page : q[2] \in Nat /\ k[2] < q[2]
        BY <2>3, <4>3, <4>4, FitType
      <4>6. k \notin page
        BY <4>3, <4>5
      <4>7. ASSUME NEW q \in page PROVE q \in kept
        <5>1. SUFFICES ASSUME q \notin kept PROVE FALSE
          OBVIOUS
        <5>2. q \in Within(WarmSpan) \ kept
          BY <1>1, <2>5, <5>1
        <5>3. q[2] <= k[2]
          BY <2>5, <4>2, <5>2, FetchIsFull
        <5>4. QED
          BY <4>3, <4>5, <5>3
      <4>8. QED
        BY <4>6, <4>7
    <3>3. QED
      BY <2>4, <3>1, <3>2
  <2>7. PICK k \in kept : page \subseteq kept \ {k}
    BY <2>6
  <2>8. /\ IsFiniteSet(kept \ {k}) /\ Cardinality(kept \ {k}) = Cardinality(kept) - 1
        /\ Cardinality(kept) \in Nat
    BY <2>4, FS_RemoveElement, FS_CardinalityType
  <2>9. Cardinality(page) <= Cardinality(kept \ {k})
    BY <2>7, <2>8, FS_Subset
  <2>10. QED
    BY <2>3, <2>4, <2>8, <2>9
<1>5. QED
  BY <1>3, <1>4

\* Where such a window is folded, the whole windows before it are.
LEMMA WarmFull ==
  ASSUME alerts \subseteq Alerts, now \in Nat, NEW page, Fit(page), NEW warm \in WarmAnswers,
         NEW w \in WarmFoldable(page, warm), w < Current(page),
         NEW x \in alerts, Whole(Window(x[2])), Window(x[2]) <= w
  PROVE  x \in warm /\ Window(x[2]) \in WarmFoldable(page, warm)
<1>1. PICK kept \in NewestOf(Within(WarmSpan), MaxDocs) :
           /\ warm \subseteq kept /\ kept \subseteq alerts
           /\ \A u, k \in kept : Window(k[2]) < Window(u[2]) => u \in warm
           /\ warm = Within(WarmSpan) \/ Cardinality(kept) = MaxDocs
  BY WarmIs
<1>2. x \in Within(WarmSpan) /\ Within(WarmSpan) \subseteq Alerts
  <2>1. x \in Within(PageSpan) /\ x[2] \in Nat
    BY WholeIs, AlertsFinite
  <2>2. QED
    BY <2>1 DEF Within
<1>3. x \in warm
  <2>1. CASE warm = Within(WarmSpan)
    BY <1>2, <2>1
  <2>2. CASE Cardinality(kept) = MaxDocs
    <3>1. PICK k \in kept : Window(k[2]) < Window(x[2])
      BY <1>1, <2>2, WholeIs
    <3>2. k[2] \in Nat /\ x[2] \in Nat /\ Window(k[2]) \in Nat /\ Window(x[2]) \in Nat
      BY <1>1, <3>1, AlertsFinite, WindowOf
    <3>3. ~(x[2] <= k[2])
      BY <3>1, <3>2, WindowRises
    <3>4. x \in kept
      BY <1>2, <3>1, <3>3, FetchIsFull
    <3>5. QED
      BY <1>1, <3>1, <3>4
  <2>3. QED
    BY <1>1, <2>1, <2>2
<1>4. PICK v \in warm : w = Window(v[2])
  BY DEF WarmFoldable, Windows
<1>5. v \in alerts /\ w \in Nat /\ Window(x[2]) \in Nat /\ Current(page) \in Nat
  BY <1>1, <1>4, AlertsFinite, WindowOf, FitType
<1>6. v \in page
  BY <1>4, <1>5, WholeIs, WholeOnPage
<1>7. w \in Foldable(page)
  BY <1>4, <1>6 DEF WarmFoldable, Foldable, Windows
<1>8. x \in page
  BY <1>5, WholeOnPage
<1>9. Window(x[2]) \in Foldable(page)
  BY <1>7, <1>8, FoldableBehind DEF Windows
<1>10. QED
  BY <1>3, <1>9 DEF Foldable, WarmFoldable, Windows

----------------------------------------------------------------------------
(* Folding.                                                                 *)

LEMMA LastIs ==
  ASSUME NEW f \in SUBSET Observations, NEW a
  PROVE  /\ Last(f, a) \in Nat
         /\ \A o \in f : o[1] = a => o[2] <= Last(f, a)
         /\ Last(f, a) # 0 => \E o \in f : o[1] = a /\ o[2] = Last(f, a)
<1> DEFINE of == {o[2] : o \in {u \in f : u[1] = a}}
<1>1. Epochs \subseteq Nat /\ Window(MaxTime) \in Nat
  BY WindowOf DEF Epochs
<1>2. of \in SUBSET Nat /\ \A n \in of : n <= Window(MaxTime)
  BY <1>1 DEF Observations, Epochs
<1>3. of = {} => Last(f, a) = 0
  BY DEF Last
<1>4. of # {} => Last(f, a) = Max(of)
  BY DEF Last
<1>5. of # {} => Max(of) \in of /\ \A n \in of : n <= Max(of)
  BY <1>1, <1>2, MaxExists
<1>6. QED
  BY <1>2, <1>3, <1>4, <1>5

LEMMA ObservedIs ==
  ASSUME NEW rows \in SUBSET Alerts, NEW windows
  PROVE  /\ Observed(rows, windows) \subseteq Observations
         /\ \A o \in Observed(rows, windows) : o[2] \in windows
         /\ \A x \in rows : Window(x[2]) \in windows =>
              Among(Observed(rows, windows), x[1], Window(x[2]))
<1>1. ASSUME NEW x \in rows
      PROVE  /\ x[1] \in Agents /\ Window(x[2]) \in Epochs
             /\ Cardinality({y \in rows : y[1] = x[1] /\ Window(y[2]) = Window(x[2])}) \in Nat
  <2>1. IsFiniteSet({y \in rows : y[1] = x[1] /\ Window(y[2]) = Window(x[2])})
    BY AlertsFinite
  <2>2. QED
    BY <2>1, AlertsFinite, WindowOf, FS_CardinalityType
<1> DEFINE Seen(x) == Cardinality({y \in rows : y[1] = x[1] /\ Window(y[2]) = Window(x[2])})
<1>2. Observed(rows, windows)
        = {<<x[1], Window(x[2]), Seen(x)>> : x \in {y \in rows : Window(y[2]) \in windows}}
  BY DEF Observed
<1>3. \A x \in rows : x[1] \in Agents /\ Window(x[2]) \in Epochs /\ Seen(x) \in Nat
  BY <1>1
<1> HIDE DEF Seen
<1>4. Observed(rows, windows) \subseteq Observations
  BY <1>2, <1>3 DEF Observations
<1>5. \A o \in Observed(rows, windows) : o[2] \in windows
  BY <1>2
<1>6. ASSUME NEW x \in rows, Window(x[2]) \in windows
      PROVE  Among(Observed(rows, windows), x[1], Window(x[2]))
  <2>1. <<x[1], Window(x[2]), Seen(x)>> \in Observed(rows, windows)
    BY <1>2, <1>6
  <2>2. QED
    BY <2>1 DEF Among
<1>7. QED
  BY <1>4, <1>5, <1>6

LEMMA FoldIs ==
  ASSUME NEW f \in SUBSET Observations, NEW obs \in SUBSET Observations
  PROVE  Fold(f, obs) \in SUBSET Observations /\ f \subseteq Fold(f, obs)
BY DEF Fold

LEMMA WrittenIs ==
  ASSUME file \in SUBSET Observations, NEW f \in SUBSET Observations, NEW obs \in SUBSET Observations
  PROVE  Written(f, obs) \in SUBSET Observations /\ Written(f, obs) \in {file, Fold(f, obs)}
BY FoldIs DEF Written

\* An endpoint's window that is not newer than one of those in e.
ShutBy(e, a, w) == \E d \in e : d[1] = a /\ w <= d[2]

\* A baseline that only pages overtaken by a newer window will be scored against their
\* own with, and that lacks no whole window older than its newest, but for those that
\* were folded before a page showed them.
Kept(f, e) ==
  /\ \A o \in f : <<o[1], o[2]>> \in e \/ (Behind(o[2]) /\ Older(o[2]))
  /\ \A x \in alerts : Whole(Window(x[2])) /\ Window(x[2]) <= Last(f, x[1]) =>
       Among(f, x[1], Window(x[2])) \/ ShutBy(e, x[1], Window(x[2]))

LEMMA NothingIsKept == ASSUME alerts \subseteq Alerts PROVE \A e : Kept({}, e)
<1>1. \A x \in alerts : Window(x[2]) \in Nat \ {0}
  BY AlertsFinite, WindowOf
<1>2. \A a : Last({}, a) = 0
  BY DEF Last
<1>3. QED
  BY <1>1, <1>2 DEF Kept

LEMMA FoldKept ==
  ASSUME alerts \subseteq Alerts, NEW f \in SUBSET Observations, NEW obs \in SUBSET Observations,
         NEW e, NEW d, e \subseteq d, Kept(f, e),
         \A o \in obs : <<o[1], o[2]>> \in d \/ (Behind(o[2]) /\ Older(o[2])),
         \A o \in obs, x \in alerts :
           Whole(Window(x[2])) /\ x[1] = o[1] /\ Window(x[2]) <= o[2] =>
             Among(obs, x[1], Window(x[2])) \/ ShutBy(d, x[1], Window(x[2]))
  PROVE  Kept(Fold(f, obs), d)
<1> DEFINE g == Fold(f, obs)
<1>1. g \in SUBSET Observations /\ f \subseteq g
  BY FoldIs
<1>2. ASSUME NEW o \in g PROVE <<o[1], o[2]>> \in d \/ (Behind(o[2]) /\ Older(o[2]))
  <2>1. CASE o \in f
    BY <2>1 DEF Kept
  <2>2. CASE o \in obs
    BY <2>2
  <2>3. QED
    BY <2>1, <2>2 DEF Fold
<1>3. ASSUME NEW x \in alerts, Whole(Window(x[2])), Window(x[2]) <= Last(g, x[1])
      PROVE  Among(g, x[1], Window(x[2])) \/ ShutBy(d, x[1], Window(x[2]))
  <2>1. Window(x[2]) \in Nat \ {0} /\ Last(f, x[1]) \in Nat /\ Last(g, x[1]) \in Nat
    BY <1>1, AlertsFinite, WindowOf, LastIs
  <2>2. CASE Window(x[2]) <= Last(f, x[1])
    BY <1>1, <1>3, <2>2 DEF Kept, Among, ShutBy
  <2>3. CASE ~(Window(x[2]) <= Last(f, x[1]))
    <3>1. PICK o \in g : o[1] = x[1] /\ o[2] = Last(g, x[1])
      BY <1>1, <1>3, <2>1, LastIs
    <3>2. o \notin f
      BY <1>3, <2>1, <2>3, <3>1, LastIs
    <3>3. o \in obs
      BY <3>2 DEF Fold
    <3>4. CASE ShutBy(d, x[1], Window(x[2]))
      BY <3>4
    <3>5. CASE Among(obs, x[1], Window(x[2]))
      <4>1. PICK u \in obs : u[1] = x[1] /\ u[2] = Window(x[2])
        BY <3>5 DEF Among
      <4>2. u \in g
        BY <2>1, <2>3, <4>1 DEF Fold
      <4>3. QED
        BY <4>1, <4>2 DEF Among
    <3>6. QED
      BY <1>3, <3>1, <3>3, <3>4, <3>5
  <2>4. QED
    BY <2>2, <2>3
<1>4. QED
  BY <1>2, <1>3 DEF Kept

----------------------------------------------------------------------------
(* Types.                                                                   *)

Stages == {"idle", "fetched", "short", "warm", "warming", "settle", "settling", "score"}
PollType == [pc: Stages, at: Nat, page: SUBSET Alerts, warm: SUBSET Observations,
             copy: SUBSET Observations, base: SUBSET Observations]

LEMMA AnswersType ==
  ASSUME PollTypeOK
  PROVE  PageAnswers \subseteq SUBSET Alerts /\ WarmAnswers \subseteq SUBSET Alerts
<1>1. alerts \subseteq Alerts /\ Within(PageSpan) \subseteq Alerts
  BY DEF PollTypeOK, Within
<1>2. PageAnswers \subseteq SUBSET Alerts
  BY <1>1, NewestIs DEF PageAnswers
<1>3. WarmAnswers \subseteq SUBSET Alerts
  BY <1>1, WarmIs
<1>4. QED
  BY <1>2, <1>3

\* One process takes a step of its own.
LEMMA PollStepType ==
  ASSUME PollTypeOK, NEW p \in Polls, NEW r \in PollType, poll' = [poll EXCEPT ![p] = r],
         now' = now, alerts' = alerts, file' \in SUBSET Observations,
         early' \in SUBSET (Agents \X Epochs)
  PROVE  PollTypeOK'
<1>1. poll \in [Polls -> PollType]
  BY DEF PollTypeOK, PollType, Stages
<1>2. poll' \in [Polls -> PollType]
  BY <1>1
<1>3. QED
  BY <1>2 DEF PollTypeOK, PollType, Stages

\* What a process folds of the longer span is observed of what a fetch answered.
WarmObs(page) == {Observed(rows, WarmFoldable(page, rows)) : rows \in WarmAnswers \cup {{}}}

\* What a step of a process makes of its record, and what of the file.
LEMMA StepRecord ==
  ASSUME PollTypeOK, NEW p \in Polls
  PROVE  /\ Fetch(p) => \E rows \in PageAnswers \ {{}} :
              poll' = [poll EXCEPT ![p] = [Idle EXCEPT !.pc = "fetched", !.at = now, !.page = rows]]
         /\ Open(p) => \E s \in {"short", "settle"}, f \in Readings :
              poll' = [poll EXCEPT ![p] = [poll[p] EXCEPT !.base = f, !.pc = s]]
         /\ WarmFetch(p) => \E obs \in WarmObs(poll[p].page), s \in {"settle", "warm"} :
              poll' = [poll EXCEPT ![p] = [poll[p] EXCEPT !.warm = obs, !.pc = s]]
         /\ CallHelper(p) => \E s \in {"warming", "settling"}, f \in Readings :
              poll' = [poll EXCEPT ![p] = [poll[p] EXCEPT !.copy = f, !.pc = s]]
         /\ WarmFolded(p) =>
              poll' = [poll EXCEPT ![p] = [poll[p] EXCEPT !.pc = "settle", !.warm = {}, !.copy = {}]]
         /\ Settled(p) =>
              poll' = [poll EXCEPT ![p] = [poll[p] EXCEPT !.pc = "score", !.copy = {}, !.base = poll[p].copy]]
         /\ CallFails(p) => \/ poll' = [poll EXCEPT ![p] = Idle]
                            \/ \E s \in {"settle", "score"} :
                                 /\ poll[p].pc # "idle"
                                 /\ poll' = [poll EXCEPT ![p] =
                                      [poll[p] EXCEPT !.pc = s, !.warm = {}, !.copy = {}]]
         /\ Score(p) => poll' = [poll EXCEPT ![p] = Idle]
<1>0. poll \in [Polls -> PollType] /\ poll[p] \in PollType
  BY DEF PollTypeOK, PollType, Stages
<1>1. Fetch(p) => \E rows \in PageAnswers \ {{}} :
        poll' = [poll EXCEPT ![p] = [Idle EXCEPT !.pc = "fetched", !.at = now, !.page = rows]]
  BY DEF Fetch
<1>2. ASSUME Open(p)
      PROVE  \E s \in {"short", "settle"}, f \in Readings :
               poll' = [poll EXCEPT ![p] = [poll[p] EXCEPT !.base = f, !.pc = s]]
  <2> DEFINE live == {x[1] : x \in poll[p].page}
             S(f) == IF \E a \in live : Summary(f)[a].windows = 0 THEN "short" ELSE "settle"
  <2>1. PICK f \in Readings : poll' = [poll EXCEPT ![p].base = f, ![p].pc = S(f)]
    BY <1>2 DEF Open
  <2>2. S(f) \in {"short", "settle"}
    OBVIOUS
  <2> HIDE DEF S
  <2>3. poll' = [poll EXCEPT ![p] = [poll[p] EXCEPT !.base = f, !.pc = S(f)]]
    BY <1>0, <2>1 DEF PollType
  <2>4. QED
    BY <2>2, <2>3
<1>3. ASSUME WarmFetch(p)
      PROVE  \E obs \in WarmObs(poll[p].page), s \in {"settle", "warm"} :
               poll' = [poll EXCEPT ![p] = [poll[p] EXCEPT !.warm = obs, !.pc = s]]
  <2> DEFINE O(rows) == Observed(rows, WarmFoldable(poll[p].page, rows))
  <2>1. PICK rows \in WarmAnswers \cup {{}} :
          poll' = [poll EXCEPT ![p].warm = O(rows), ![p].pc = IF O(rows) = {} THEN "settle" ELSE "warm"]
    BY <1>3 DEF WarmFetch
  <2>2. O(rows) \in WarmObs(poll[p].page)
    BY DEF WarmObs
  <2> HIDE DEF O
  <2>3. poll' = [poll EXCEPT ![p] = [poll[p] EXCEPT !.warm = O(rows), !.pc = IF O(rows) = {} THEN "settle" ELSE "warm"]]
    BY <1>0, <2>1 DEF PollType
  <2>4. QED
    BY <2>2, <2>3
<1>4. ASSUME CallHelper(p)
      PROVE  \E s \in {"warming", "settling"}, f \in Readings :
               poll' = [poll EXCEPT ![p] = [poll[p] EXCEPT !.copy = f, !.pc = s]]
  BY <1>0, <1>4 DEF CallHelper, PollType
<1>5. WarmFolded(p) =>
        poll' = [poll EXCEPT ![p] = [poll[p] EXCEPT !.pc = "settle", !.warm = {}, !.copy = {}]]
  BY <1>0 DEF WarmFolded, Goes, PollType
<1>6. Settled(p) =>
        poll' = [poll EXCEPT ![p] = [poll[p] EXCEPT !.pc = "score", !.copy = {}, !.base = poll[p].copy]]
  BY <1>0 DEF Settled, PollType
<1>7. ASSUME CallFails(p)
      PROVE  \/ poll' = [poll EXCEPT ![p] = Idle]
             \/ \E s \in {"settle", "score"} :
                  /\ poll[p].pc # "idle"
                  /\ poll' = [poll EXCEPT ![p] = [poll[p] EXCEPT !.pc = s, !.warm = {}, !.copy = {}]]
  BY <1>0, <1>7 DEF CallFails, Goes, PollType
<1>8. Score(p) => poll' = [poll EXCEPT ![p] = Idle]
  BY DEF Score
<1>9. QED
  BY <1>1, <1>2, <1>3, <1>4, <1>5, <1>6, <1>7, <1>8

LEMMA WarmObsType ==
  ASSUME PollTypeOK, NEW page, NEW obs \in WarmObs(page)
  PROVE  obs \in SUBSET Observations
<1>1. PICK rows \in WarmAnswers \cup {{}} : obs = Observed(rows, WarmFoldable(page, rows))
  BY DEF WarmObs
<1>2. rows \in SUBSET Alerts
  BY AnswersType
<1>3. QED
  BY <1>1, <1>2, ObservedIs

\* The state keeps its types, whatever is raised, fetched or left unanswered.
THEOREM PollTypes == PollSpec => []PollTypeOK
<1>1. PollInit => PollTypeOK
  <2> SUFFICES ASSUME PollInit PROVE PollTypeOK
    OBVIOUS
  <2>1. poll \in [Polls -> PollType]
    BY DEF PollInit, Idle, PollType, Stages
  <2>2. QED
    BY <2>1 DEF PollInit, PollTypeOK, PollType, Stages
<1>2. PollTypeOK /\ [PollNext]_pollVars => PollTypeOK'
  <2> SUFFICES ASSUME PollTypeOK, [PollNext]_pollVars PROVE PollTypeOK'
    OBVIOUS
  <2>1. CASE UNCHANGED pollVars
    BY <2>1 DEF pollVars, PollTypeOK
  <2>2. CASE Tick
    BY <2>2 DEF Tick, PollTypeOK
  <2>3. ASSUME NEW a \in Agents, Arrive(a) PROVE PollTypeOK'
    <3>1. alerts' \subseteq Alerts
      BY <2>3 DEF Arrive, PollTypeOK, Alerts
    <3>2. QED
      BY <2>3, <3>1 DEF Arrive, PollTypeOK
  <2>4. ASSUME NEW p \in Polls,
               Fetch(p) \/ Open(p) \/ WarmFetch(p) \/ CallHelper(p)
                 \/ WarmFolded(p) \/ Settled(p) \/ CallFails(p) \/ Score(p)
        PROVE  PollTypeOK'
    <3>1. now' = now /\ alerts' = alerts
      BY <2>4 DEF Fetch, Open, WarmFetch, CallHelper, WarmFolded, Settled, CallFails, Score
    <3>2. now \in Nat /\ file \in SUBSET Observations /\ poll[p] \in PollType
          /\ early \in SUBSET (Agents \X Epochs) /\ Readings \subseteq SUBSET Observations
      BY DEF PollTypeOK, PollType, Stages, Readings
    <3>3. file' \in SUBSET Observations
      <4>1. /\ Written(poll[p].copy, poll[p].warm) \in SUBSET Observations
            /\ Written(poll[p].copy, Observed(poll[p].page, Foldable(poll[p].page))) \in SUBSET Observations
        BY <3>2, ObservedIs, WrittenIs DEF PollType
      <4>2. QED
        BY <2>4, <3>2, <4>1
           DEF Fetch, Open, WarmFetch, CallHelper, WarmFolded, Settled, CallFails, Score
    <3>4. early' \in SUBSET (Agents \X Epochs)
      <4>1. \A o \in poll[p].warm : <<o[1], o[2]>> \in Agents \X Epochs
        BY <3>2 DEF PollType, Observations
      <4>2. QED
        BY <2>4, <3>2, <4>1
           DEF Fetch, Open, WarmFetch, CallHelper, WarmFolded, Settled, CallFails, Score
    <3>5. \E r \in PollType : poll' = [poll EXCEPT ![p] = r]
      <4>1. Idle \in PollType
        BY DEF Idle, PollType, Stages
      <4>2. \A rows \in SUBSET Alerts, obs \in SUBSET Observations, s \in Stages :
              /\ [Idle EXCEPT !.pc = s, !.at = now, !.page = rows] \in PollType
              /\ [poll[p] EXCEPT !.base = obs, !.pc = s] \in PollType
              /\ [poll[p] EXCEPT !.warm = obs, !.pc = s] \in PollType
              /\ [poll[p] EXCEPT !.copy = obs, !.pc = s] \in PollType
              /\ [poll[p] EXCEPT !.pc = s, !.warm = {}, !.copy = {}] \in PollType
              /\ [poll[p] EXCEPT !.pc = s, !.copy = {}, !.base = poll[p].copy] \in PollType
        BY <3>2, <4>1 DEF PollType
      <4>3. {"fetched", "short", "settle", "warm", "warming", "settling", "score"} \subseteq Stages
        BY DEF Stages
      <4>4. CASE Fetch(p)
        <5>1. \A rows \in PageAnswers \ {{}} : rows \in SUBSET Alerts
          BY AnswersType
        <5>2. QED
          BY <4>2, <4>3, <4>4, <5>1, StepRecord
      <4>5. CASE Open(p)
        <5>1. PICK s \in {"short", "settle"}, f \in Readings :
                poll' = [poll EXCEPT ![p] = [poll[p] EXCEPT !.base = f, !.pc = s]]
          BY <4>5, StepRecord
        <5>2. QED
          BY <3>2, <4>2, <4>3, <5>1
      <4>6. CASE WarmFetch(p)
        <5>1. PICK obs \in WarmObs(poll[p].page), s \in {"settle", "warm"} :
                poll' = [poll EXCEPT ![p] = [poll[p] EXCEPT !.warm = obs, !.pc = s]]
          BY <4>6, StepRecord
        <5>2. obs \in SUBSET Observations
          BY WarmObsType
        <5>3. QED
          BY <4>2, <4>3, <5>1, <5>2
      <4>7. CASE CallHelper(p)
        <5>1. PICK s \in {"warming", "settling"}, f \in Readings :
                poll' = [poll EXCEPT ![p] = [poll[p] EXCEPT !.copy = f, !.pc = s]]
          BY <4>7, StepRecord
        <5>2. QED
          BY <3>2, <4>2, <4>3, <5>1
      <4>8. CASE WarmFolded(p)
        <5>1. poll' = [poll EXCEPT ![p] = [poll[p] EXCEPT !.pc = "settle", !.warm = {}, !.copy = {}]]
          BY <4>8, StepRecord
        <5>2. QED
          BY <4>2, <4>3, <5>1
      <4>9. CASE Settled(p)
        <5>1. poll' = [poll EXCEPT ![p] =
                         [poll[p] EXCEPT !.pc = "score", !.copy = {}, !.base = poll[p].copy]]
          BY <4>9, StepRecord
        <5>2. QED
          BY <3>2, <4>2, <4>3, <5>1
      <4>10. CASE CallFails(p)
        <5>1. CASE poll' = [poll EXCEPT ![p] = Idle]
          BY <4>1, <5>1
        <5>2. CASE \E s \in {"settle", "score"} :
                     poll' = [poll EXCEPT ![p] = [poll[p] EXCEPT !.pc = s, !.warm = {}, !.copy = {}]]
          BY <4>2, <4>3, <5>2
        <5>3. QED
          BY <4>10, <5>1, <5>2, StepRecord
      <4>11. CASE Score(p)
        BY <4>1, <4>11, StepRecord
      <4>12. QED
        BY <2>4, <4>4, <4>5, <4>6, <4>7, <4>8, <4>9, <4>10, <4>11
    <3>6. QED
      BY <3>1, <3>3, <3>4, <3>5, PollStepType
  <2>5. QED
    BY <2>1, <2>2, <2>3, <2>4 DEF PollNext
<1>3. QED
  BY <1>1, <1>2, PTL DEF PollSpec

----------------------------------------------------------------------------
(* Polls that the clock does not overtake.                                  *)

\* A poll is over before the next tick, and the alerts come from the indexer.
Prompt == Lag = 0 /\ TailDocs = 0

\* What of the longer span is older than the page's newest window is behind the page,
\* and nothing whole is left out before it.
WarmFit(page, obs) ==
  \A o \in obs :
    /\ o[2] # Current(page)
    /\ o[2] < Current(page) =>
         /\ Behind(o[2])
         /\ \A x \in alerts : Whole(Window(x[2])) /\ x[1] = o[1] /\ Window(x[2]) <= o[2] =>
              Among(obs, x[1], Window(x[2]))

\* What a process has fetched is of this tick, and what it has read is kept.
Sound(r, e) ==
  /\ r.pc # "idle" => r.at = now /\ Fit(r.page) /\ WarmFit(r.page, r.warm)
  /\ Kept(r.copy, e) /\ Kept(r.base, e)

PromptInv ==
  /\ PollTypeOK
  /\ \A x \in alerts : x[2] <= now
  /\ \A f \in {file} : Kept(f, early)
  /\ \A r \in {poll[p] : p \in Polls} : Sound(r, early)

LEMMA IdleIsSound == ASSUME alerts \subseteq Alerts PROVE \A e : Sound(Idle, e)
  BY NothingIsKept DEF Sound, Idle

\* What is kept stays so when more has been folded early.
LEMMA MoreEarly ==
  ASSUME NEW e, NEW d, e \subseteq d
  PROVE  /\ \A f : Kept(f, e) => Kept(f, d)
         /\ \A r : Sound(r, e) => Sound(r, d)
BY DEF Kept, ShutBy, Sound

\* What is kept and sound is a matter of the alerts and the clock.
LEMMA SameMoment ==
  ASSUME now' = now, alerts' = alerts
  PROVE  /\ \A f, e : Kept(f, e)' <=> Kept(f, e)
         /\ \A r, e : Sound(r, e)' <=> Sound(r, e)
<1>1. \A span : Within(span)' = Within(span)
  BY DEF Within
<1>2. \A w : (Behind(w)' <=> Behind(w)) /\ (Older(w)' <=> Older(w)) /\ (Whole(w)' <=> Whole(w))
  BY <1>1 DEF Behind, Older, Whole
<1>3. \A f, e : Kept(f, e)' <=> Kept(f, e)
  BY <1>2 DEF Kept
<1>4. \A page, obs : (Fit(page)' <=> Fit(page)) /\ (WarmFit(page, obs)' <=> WarmFit(page, obs))
  BY <1>1, <1>2 DEF Fit, WarmFit
<1>5. QED
  BY <1>3, <1>4 DEF Sound

LEMMA PollStepKeeps ==
  ASSUME PromptInv, NEW p \in Polls, NEW r \in PollType, NEW e \in SUBSET (Agents \X Epochs),
         early \subseteq e, early' = e, Sound(r, e),
         poll' = [poll EXCEPT ![p] = r], now' = now, alerts' = alerts,
         NEW f \in SUBSET Observations, Kept(f, e), file' = f
  PROVE  PromptInv'
<1>1. PollTypeOK'
  BY PollStepType DEF PromptInv
<1>2. (\A x \in alerts : x[2] <= now)'
  BY DEF PromptInv
<1>3. (\A g \in {file} : Kept(g, early))'
  BY SameMoment
<1>4. \A q \in Polls : Sound(poll[q], e)
  BY MoreEarly DEF PromptInv
<1>5. \A s \in {poll'[q] : q \in Polls} : Sound(s, e)
  BY <1>4 DEF PromptInv, PollTypeOK
<1>6. (\A s \in {poll[q] : q \in Polls} : Sound(s, early))'
  BY <1>5, SameMoment
<1>7. QED
  BY <1>1, <1>2, <1>3, <1>6 DEF PromptInv

\* What is observed of a fetch of the longer span fits the page.
LEMMA WarmObsFit ==
  ASSUME alerts \subseteq Alerts, now \in Nat, NEW page, Fit(page), NEW obs \in WarmObs(page)
  PROVE  WarmFit(page, obs)
<1>1. PICK rows \in WarmAnswers \cup {{}} : obs = Observed(rows, WarmFoldable(page, rows))
  BY DEF WarmObs
<1>2. SUFFICES ASSUME NEW o \in obs
      PROVE  /\ o[2] # Current(page)
             /\ o[2] < Current(page) =>
                  /\ Behind(o[2])
                  /\ \A x \in alerts : Whole(Window(x[2])) /\ x[1] = o[1] /\ Window(x[2]) <= o[2] =>
                       Among(obs, x[1], Window(x[2]))
  BY DEF WarmFit
<1>3. rows \in SUBSET Alerts
  <2>1. \A warm \in WarmAnswers : warm \in SUBSET Alerts
    BY WarmIs
  <2>2. QED
    BY <2>1
<1>4. o[2] \in WarmFoldable(page, rows)
  BY <1>1, <1>3, ObservedIs
<1>5. rows \in WarmAnswers
  BY <1>4 DEF WarmFoldable, Windows
<1>6. o[2] # Current(page)
  BY <1>4 DEF WarmFoldable
<1>7. ASSUME o[2] < Current(page)
      PROVE  /\ Behind(o[2])
             /\ \A x \in alerts : Whole(Window(x[2])) /\ Window(x[2]) <= o[2] =>
                  Among(obs, x[1], Window(x[2]))
  <2>1. Behind(o[2])
    BY <1>4, <1>5, <1>7, WarmFoldableBehind
  <2>2. ASSUME NEW x \in alerts, Whole(Window(x[2])), Window(x[2]) <= o[2]
        PROVE  Among(obs, x[1], Window(x[2]))
    <3>1. x \in rows /\ Window(x[2]) \in WarmFoldable(page, rows)
      BY <1>4, <1>5, <1>7, <2>2, WarmFull
    <3>2. QED
      BY <1>1, <1>3, <3>1, ObservedIs
  <2>3. QED
    BY <2>1, <2>2
<1>8. QED
  BY <1>6, <1>7

\* The pairs that a call folds early.
Early(page, obs) == {<<o[1], o[2]>> : o \in {o \in obs : o[2] > Current(page)}}

\* With them, the fold of the longer span leaves a kept baseline kept.
LEMMA WarmKept ==
  ASSUME alerts \subseteq Alerts, now \in Nat, NEW page, Fit(page),
         NEW obs \in SUBSET Observations, WarmFit(page, obs),
         NEW f \in SUBSET Observations, NEW e, Kept(f, e)
  PROVE  Kept(Fold(f, obs), e \cup Early(page, obs))
<1> DEFINE d == e \cup Early(page, obs)
<1>1. Current(page) \in Nat /\ Current(page) \in Windows(page) /\ page \subseteq alerts
  BY FitType
<1>2. \A o \in obs : o[2] \in Nat
  BY WindowOf DEF Observations, Epochs
<1>3. \A o \in obs : o[2] < Current(page) \/ o[2] > Current(page)
  BY <1>1, <1>2 DEF WarmFit
<1>4. \A o \in obs : o[2] > Current(page) => <<o[1], o[2]>> \in d
  BY DEF Early
<1> HIDE DEF d
<1>5. ASSUME NEW o \in obs PROVE <<o[1], o[2]>> \in d \/ (Behind(o[2]) /\ Older(o[2]))
  <2>1. CASE o[2] > Current(page)
    BY <1>4, <2>1
  <2>2. CASE o[2] < Current(page)
    <3>1. Behind(o[2])
      BY <2>2 DEF WarmFit
    <3>2. PICK z \in page : Current(page) = Window(z[2])
      BY <1>1 DEF Windows
    <3>3. z \in alerts /\ o[2] < Window(z[2])
      BY <1>1, <2>2, <3>2
    <3>4. QED
      BY <3>1, <3>3 DEF Older
  <2>3. QED
    BY <1>3, <2>1, <2>2
<1>6. ASSUME NEW o \in obs, NEW x \in alerts,
             Whole(Window(x[2])), x[1] = o[1], Window(x[2]) <= o[2]
      PROVE  Among(obs, x[1], Window(x[2])) \/ ShutBy(d, x[1], Window(x[2]))
  <2>1. CASE o[2] > Current(page)
    <3>1. <<o[1], o[2]>> \in d /\ <<o[1], o[2]>>[1] = x[1] /\ Window(x[2]) <= <<o[1], o[2]>>[2]
      BY <1>4, <1>6, <2>1
    <3>2. QED
      BY <3>1 DEF ShutBy
  <2>2. CASE o[2] < Current(page)
    BY <1>6, <2>2 DEF WarmFit
  <2>3. QED
    BY <1>3, <2>1, <2>2
<1>7. e \subseteq d
  BY DEF d
<1>8. Kept(Fold(f, obs), d)
  BY <1>5, <1>6, <1>7, FoldKept
<1>9. QED
  BY <1>8 DEF d

\* The fold of a page leaves a kept baseline kept.
LEMMA PageKept ==
  ASSUME alerts \subseteq Alerts, now \in Nat, NEW page, Fit(page),
         NEW f \in SUBSET Observations, NEW e, Kept(f, e)
  PROVE  Kept(Fold(f, Observed(page, Foldable(page))), e)
<1> DEFINE obs == Observed(page, Foldable(page))
<1>1. page \in SUBSET Alerts /\ page \subseteq alerts
  BY FitType
<1>2. /\ obs \in SUBSET Observations
      /\ \A o \in obs : o[2] \in Foldable(page)
      /\ \A x \in page : Window(x[2]) \in Foldable(page) => Among(obs, x[1], Window(x[2]))
  BY <1>1, ObservedIs
<1> HIDE DEF obs
<1>3. \A o \in obs : Behind(o[2]) /\ Older(o[2])
  BY <1>2, FoldableBehind
<1>4. ASSUME NEW o \in obs, NEW x \in alerts, Whole(Window(x[2])), Window(x[2]) <= o[2]
      PROVE  Among(obs, x[1], Window(x[2]))
  <2>1. o[2] \in Nat /\ Window(x[2]) \in Nat /\ Current(page) \in Nat /\ o[2] < Current(page)
    BY <1>2, AlertsFinite, WindowOf, FitType, FoldableBehind
  <2>2. x \in page
    BY <1>4, <2>1, WholeOnPage
  <2>3. Window(x[2]) \in Foldable(page)
    BY <1>2, <1>4, <2>2, FoldableBehind DEF Windows
  <2>4. QED
    BY <1>2, <2>2, <2>3
<1>5. Kept(Fold(f, obs), e)
  BY <1>2, <1>3, <1>4, FoldKept
<1>6. QED
  BY <1>5 DEF obs

LEMMA OwnStepKeeps ==
  ASSUME Prompt, PromptInv, NEW p \in Polls,
         Fetch(p) \/ Open(p) \/ WarmFetch(p) \/ CallHelper(p)
           \/ WarmFolded(p) \/ Settled(p) \/ CallFails(p) \/ Score(p)
  PROVE  PromptInv'
<1>1. now' = now /\ alerts' = alerts
  BY DEF Fetch, Open, WarmFetch, CallHelper, WarmFolded, Settled, CallFails, Score
<1>2. /\ PollTypeOK /\ alerts \subseteq Alerts /\ now \in Nat /\ file \in SUBSET Observations
      /\ early \in SUBSET (Agents \X Epochs)
      /\ poll[p] \in PollType /\ Kept(file, early) /\ Sound(poll[p], early)
  BY DEF PromptInv, PollTypeOK, PollType, Stages
<1>3. Idle \in PollType /\ Sound(Idle, early)
  BY <1>2, IdleIsSound DEF Idle, PollType, Stages
<1>4. \A r \in PollType : Sound(r, early) /\ poll' = [poll EXCEPT ![p] = r] /\ file' = file
                            /\ early' = early => PromptInv'
  BY <1>1, <1>2, PollStepKeeps
<1>5. Kept({}, early) /\ \A f \in Readings : f \in SUBSET Observations /\ Kept(f, early)
  BY <1>2, NothingIsKept DEF Readings
<1>6. \A page : WarmFit(page, {})
  BY DEF WarmFit
<1>7. CASE Fetch(p)
  <2>1. PICK rows \in PageAnswers \ {{}} :
          poll' = [poll EXCEPT ![p] = [Idle EXCEPT !.pc = "fetched", !.at = now, !.page = rows]]
    BY <1>2, <1>7, StepRecord
  <2>2. rows \in SUBSET Alerts
    BY <1>2, AnswersType
  <2>3. Fit(rows)
    <3>1. CASE rows \in NewestOf(Within(PageSpan), MaxDocs)
      BY <1>2, <2>1, <3>1, FetchedIsFit
    <3>2. CASE rows \in NewestOf(alerts, TailDocs)
      <4>0. TailDocs = 0 /\ alerts \in SUBSET Alerts
        BY <1>2 DEF Prompt
      <4>1. IsFiniteSet(rows) /\ Cardinality(rows) <= 0
        BY <3>2, <4>0, NewestIs
      <4>2. Cardinality(rows) = 0
        BY <4>1, FS_CardinalityType
      <4>3. QED
        BY <2>1, <4>1, <4>2, FS_EmptySet
    <3>3. QED
      BY <3>1, <3>2 DEF PageAnswers
  <2>4. [Idle EXCEPT !.pc = "fetched", !.at = now, !.page = rows] \in PollType
    BY <1>2, <2>2 DEF Idle, PollType, Stages
  <2>5. Sound([Idle EXCEPT !.pc = "fetched", !.at = now, !.page = rows], early)
    BY <1>5, <1>6, <2>3 DEF Sound, Idle
  <2>6. file' = file /\ early' = early
    BY <1>7 DEF Fetch
  <2>7. QED
    BY <1>4, <2>1, <2>4, <2>5, <2>6
<1>8. CASE Open(p)
  <2>1. PICK s \in {"short", "settle"}, f \in Readings :
          poll' = [poll EXCEPT ![p] = [poll[p] EXCEPT !.base = f, !.pc = s]]
    BY <1>2, <1>8, StepRecord
  <2>2. poll[p].pc # "idle" /\ file' = file /\ early' = early
    BY <1>8 DEF Open
  <2>3. [poll[p] EXCEPT !.base = f, !.pc = s] \in PollType
    BY <1>2, <1>5 DEF PollType, Stages
  <2>4. Sound([poll[p] EXCEPT !.base = f, !.pc = s], early)
    BY <1>2, <1>5, <2>2 DEF Sound, PollType
  <2>5. QED
    BY <1>4, <2>1, <2>2, <2>3, <2>4
<1>9. CASE WarmFetch(p)
  <2>1. PICK obs \in WarmObs(poll[p].page), s \in {"settle", "warm"} :
          poll' = [poll EXCEPT ![p] = [poll[p] EXCEPT !.warm = obs, !.pc = s]]
    BY <1>2, <1>9, StepRecord
  <2>2. poll[p].pc # "idle" /\ file' = file /\ early' = early
    BY <1>9 DEF WarmFetch
  <2>3. [poll[p] EXCEPT !.warm = obs, !.pc = s] \in PollType
    BY <1>2, WarmObsType DEF PollType, Stages
  <2>4. WarmFit(poll[p].page, obs)
    BY <1>2, <2>2, WarmObsFit DEF Sound
  <2>5. Sound([poll[p] EXCEPT !.warm = obs, !.pc = s], early)
    BY <1>2, <2>2, <2>4 DEF Sound, PollType
  <2>6. QED
    BY <1>4, <2>1, <2>2, <2>3, <2>5
<1>10. CASE CallHelper(p)
  <2>1. PICK s \in {"warming", "settling"}, f \in Readings :
          poll' = [poll EXCEPT ![p] = [poll[p] EXCEPT !.copy = f, !.pc = s]]
    BY <1>2, <1>10, StepRecord
  <2>2. poll[p].pc # "idle" /\ file' = file /\ early' = early
    BY <1>10 DEF CallHelper
  <2>3. [poll[p] EXCEPT !.copy = f, !.pc = s] \in PollType
    BY <1>2, <1>5 DEF PollType, Stages
  <2>4. Sound([poll[p] EXCEPT !.copy = f, !.pc = s], early)
    BY <1>2, <1>5, <2>2 DEF Sound, PollType
  <2>5. QED
    BY <1>4, <2>1, <2>2, <2>3, <2>4
<1>11. CASE WarmFolded(p)
  <2> DEFINE page == poll[p].page  obs == poll[p].warm  copy == poll[p].copy
             f == Written(copy, obs)  e == early \cup Early(page, obs)
             r == [poll[p] EXCEPT !.pc = "settle", !.warm = {}, !.copy = {}]
  <2>1. poll[p].pc = "warming" /\ file' = f /\ early' = e /\ poll' = [poll EXCEPT ![p] = r]
    BY <1>2, <1>11, StepRecord DEF WarmFolded, Early
  <2>2. Fit(page) /\ WarmFit(page, obs) /\ Kept(copy, early)
        /\ obs \in SUBSET Observations /\ copy \in SUBSET Observations
    BY <1>2, <2>1 DEF Sound, PollType
  <2>3. early \subseteq e /\ e \in SUBSET (Agents \X Epochs)
    BY <1>2, <2>2 DEF Early, Observations
  <2>4. f \in SUBSET Observations /\ Kept(f, e)
    <3> HIDE DEF page, obs, copy
    <3>1. Kept(Fold(copy, obs), e)
      BY <1>2, <2>2, WarmKept
    <3>2. Kept(file, e)
      BY <1>2, <2>3, MoreEarly
    <3>3. QED
      BY <1>2, <2>2, <3>1, <3>2, WrittenIs
  <2>5. r \in PollType
    BY <1>2 DEF PollType, Stages
  <2>6. r.pc = "settle" /\ r.at = poll[p].at /\ r.page = page /\ r.warm = {} /\ r.copy = {}
        /\ r.base = poll[p].base
    BY <1>2 DEF PollType
  <2>7. Sound(r, e)
    <3>1. poll[p].at = now /\ Kept(poll[p].base, e) /\ Kept({}, e)
      BY <1>2, <1>5, <2>1, <2>3, MoreEarly DEF Sound
    <3>2. QED
      BY <1>6, <2>2, <2>6, <3>1 DEF Sound
  <2> HIDE DEF f, e, r
  <2>8. QED
    BY <1>1, <2>1, <2>3, <2>4, <2>5, <2>7, PollStepKeeps
<1>12. CASE Settled(p)
  <2> DEFINE page == poll[p].page  copy == poll[p].copy
             f == Written(copy, Observed(page, Foldable(page)))
             r == [poll[p] EXCEPT !.pc = "score", !.copy = {}, !.base = poll[p].copy]
  <2>1. poll[p].pc = "settling" /\ file' = f /\ early' = early /\ poll' = [poll EXCEPT ![p] = r]
    BY <1>2, <1>12, StepRecord DEF Settled
  <2>2. Fit(page) /\ Kept(copy, early) /\ page \in SUBSET Alerts /\ copy \in SUBSET Observations
    BY <1>2, <2>1 DEF Sound, PollType
  <2>3. f \in SUBSET Observations /\ Kept(f, early)
    <3> HIDE DEF page, copy
    <3>1. Kept(Fold(copy, Observed(page, Foldable(page))), early)
      BY <1>2, <2>2, PageKept
    <3>2. Observed(page, Foldable(page)) \in SUBSET Observations
      BY <2>2, ObservedIs
    <3>3. QED
      BY <1>2, <2>2, <3>1, <3>2, WrittenIs
  <2>4. r \in PollType
    BY <1>2 DEF PollType, Stages
  <2>5. r.at = poll[p].at /\ r.page = page /\ r.warm = poll[p].warm /\ r.copy = {} /\ r.base = copy
    BY <1>2 DEF PollType
  <2>6. Sound(r, early)
    BY <1>2, <1>5, <2>1, <2>2, <2>5 DEF Sound
  <2> HIDE DEF f, r
  <2>7. QED
    BY <1>1, <1>2, <2>1, <2>3, <2>4, <2>6, PollStepKeeps
<1>13. CASE CallFails(p)
  <2>1. file' = file /\ early' = early
    BY <1>13 DEF CallFails
  <2>2. \A s \in {"settle", "score"} : poll[p].pc # "idle" =>
          /\ [poll[p] EXCEPT !.pc = s, !.warm = {}, !.copy = {}] \in PollType
          /\ Sound([poll[p] EXCEPT !.pc = s, !.warm = {}, !.copy = {}], early)
    BY <1>2, <1>5, <1>6 DEF Sound, PollType, Stages
  <2>3. QED
    BY <1>2, <1>3, <1>4, <1>13, <2>1, <2>2, StepRecord
<1>14. CASE Score(p)
  <2>1. file' = file /\ early' = early
    BY <1>14 DEF Score
  <2>2. QED
    BY <1>2, <1>3, <1>4, <1>14, <2>1, StepRecord
<1>15. QED
  BY <1>7, <1>8, <1>9, <1>10, <1>11, <1>12, <1>13, <1>14

\* Neither with an alert that arrives nor as time passes does a window come within reach
\* that was not, but for the one that is filling.
LEMMA LaterMoment ==
  ASSUME alerts \subseteq Alerts, alerts' \subseteq Alerts, now \in Nat, now' \in Nat, now <= now',
         alerts \subseteq alerts', \A x \in alerts' : x \in alerts \/ x[2] = now,
         \A x \in alerts : x[2] <= now
  PROVE  /\ \A w \in Nat : Behind(w) /\ Older(w) => Behind(w)' /\ Older(w)'
         /\ \A w \in Nat : Whole(w)' => Whole(w)
         /\ \A f \in SUBSET Observations : \A e : Kept(f, e) => Kept(f, e)'
<1>1. \A y \in alerts' : y[2] \in Nat /\ Window(y[2]) \in Nat \ {0} /\ Window(y[2]) <= Window(now)
  <2>1. \A y \in alerts' : y[2] \in Nat /\ y[2] <= now
    BY AlertsFinite
  <2>2. QED
    BY <2>1, WindowOf, WindowRises
<1>2. Window(now) \in Nat
  BY WindowOf
<1>3. \A y \in alerts : y \in Within(PageSpan)' => y \in Within(PageSpan)
  <2>1. \A y \in alerts : y[2] \in Nat
    BY AlertsFinite
  <2>2. QED
    BY <2>1 DEF Within
<1>4. ASSUME NEW w \in Nat, Behind(w), Older(w) PROVE Behind(w)' /\ Older(w)'
  <2>1. PICK y0 \in alerts : w < Window(y0[2])
    BY <1>4 DEF Older
  <2>2. w < Window(now)
    BY <1>1, <1>2, <2>1
  <2>3. Older(w)'
    BY <2>1 DEF Older
  <2>4. CASE NewerWindows(alerts, w) >= OnPage
    <3>1. /\ NewerWindows(alerts, w) <= NewerWindows(alerts', w)
          /\ NewerWindows(alerts, w) \in Nat /\ NewerWindows(alerts', w) \in Nat
      BY MoreAreNewer
    <3>2. NewerWindows(alerts', w) >= OnPage
      BY <2>4, <3>1
    <3>3. QED
      BY <2>3, <3>2 DEF Behind
  <2>5. CASE \A y \in alerts : Window(y[2]) = w => y \notin Within(PageSpan)
    <3>1. \A y \in alerts' : Window(y[2]) = w => y \in alerts
      BY <1>2, <2>2
    <3>2. \A y \in alerts' : Window(y[2]) = w => y \notin Within(PageSpan)'
      BY <1>3, <2>5, <3>1
    <3>3. QED
      BY <2>3, <3>2 DEF Behind
  <2>6. QED
    BY <1>4, <2>4, <2>5 DEF Behind
<1>5. ASSUME NEW w \in Nat, Whole(w)' PROVE Whole(w)
  <2> DEFINE From == {y \in alerts : Window(y[2]) >= w}  start == (w - 1) * Width
  <2>0. start \in Int
    OBVIOUS
  <2>1. start >= now' - PageSpan /\ Cardinality(From') < MaxDocs
    BY <1>5 DEF Whole
  <2>2. From \subseteq From' /\ IsFiniteSet(From')
    BY AlertsFinite
  <2>3. Cardinality(From) <= Cardinality(From') /\ Cardinality(From) \in Nat /\ Cardinality(From') \in Nat
    BY <2>2, FS_Subset, FS_CardinalityType
  <2>4. start >= now - PageSpan
    <3>1. start >= now' - PageSpan
      BY <2>1
    <3>2. \A s, m, n, k \in Int : s >= n - k /\ m <= n => s >= m - k
      OBVIOUS
    <3>3. now \in Int /\ now' \in Int /\ PageSpan \in Int
      OBVIOUS
    <3> HIDE DEF start
    <3>4. QED
      BY <2>0, <3>1, <3>2, <3>3
  <2>5. Cardinality(From) < MaxDocs
    <3> HIDE DEF From
    <3>1. QED
      BY <2>1, <2>3
  <2>6. QED
    BY <2>4, <2>5 DEF Whole
<1>6. ASSUME NEW f \in SUBSET Observations, NEW e, Kept(f, e) PROVE Kept(f, e)'
  <2>0. \A o \in f : <<o[1], o[2]>> \in e \/ (Behind(o[2]) /\ Older(o[2]))
    BY <1>6 DEF Kept
  <2>4. \A o \in f : o[2] \in Nat
    BY WindowOf DEF Observations, Epochs
  <2>1. \A o \in f : o[2] \in Nat /\ (<<o[1], o[2]>> \in e \/ (Behind(o[2]) /\ Older(o[2])))
    BY <2>0, <2>4
  <2>2. \A o \in f : <<o[1], o[2]>> \in e \/ (Behind(o[2])' /\ Older(o[2])')
    BY <1>4, <2>1
  <2>3. ASSUME NEW x \in alerts', Whole(Window(x[2]))', Window(x[2]) <= Last(f, x[1])
        PROVE  Among(f, x[1], Window(x[2])) \/ ShutBy(e, x[1], Window(x[2]))
    <3>1. Window(x[2]) \in Nat \ {0} /\ Last(f, x[1]) \in Nat
      BY <1>1, LastIs
    <3>2. Whole(Window(x[2]))
      BY <1>5, <2>3, <3>1
    <3>3. CASE x \in alerts
      BY <1>6, <2>3, <3>2, <3>3 DEF Kept
    <3>4. CASE x \notin alerts
      <4>1. Window(x[2]) = Window(now)
        BY <3>4
      <4>2. PICK o \in f : o[1] = x[1] /\ o[2] = Last(f, x[1])
        BY <2>3, <3>1, LastIs
      <4>3. ~Older(o[2])
        <5>1. SUFFICES ASSUME NEW y \in alerts, o[2] < Window(y[2]) PROVE FALSE
          BY DEF Older
        <5>2. Window(y[2]) <= Window(now) /\ Window(y[2]) \in Nat
          BY <1>1
        <5>3. QED
          BY <1>2, <2>3, <3>1, <4>1, <4>2, <5>1, <5>2
      <4>4. <<o[1], o[2]>> \in e /\ <<o[1], o[2]>>[1] = x[1] /\ Window(x[2]) <= <<o[1], o[2]>>[2]
        BY <2>1, <2>3, <4>2, <4>3
      <4>5. QED
        BY <4>4 DEF ShutBy
    <3>5. QED
      BY <3>3, <3>4
  <2>5. QED
    BY <2>2, <2>3 DEF Kept
<1>7. QED
  BY <1>4, <1>5, <1>6

LEMMA ArriveKeeps == ASSUME PromptInv, NEW a \in Agents, Arrive(a) PROVE PromptInv'
<1>1. /\ now \in Nat /\ now \in 0 .. MaxTime /\ alerts \subseteq Alerts /\ file \in SUBSET Observations
      /\ poll \in [Polls -> PollType] /\ \A x \in alerts : x[2] <= now
  BY DEF PromptInv, PollTypeOK, PollType, Stages
<1>2. /\ now' = now /\ file' = file /\ poll' = poll /\ early' = early
      /\ alerts' = alerts \cup {<<a, now>>}
  BY DEF Arrive
<1>3. /\ alerts \subseteq alerts' /\ alerts' \subseteq Alerts
      /\ \A x \in alerts' : x \in alerts \/ x[2] = now
  BY <1>1, <1>2 DEF Alerts
<1>4. /\ \A w \in Nat : Behind(w) /\ Older(w) => Behind(w)' /\ Older(w)'
      /\ \A w \in Nat : Whole(w)' => Whole(w)
      /\ \A f \in SUBSET Observations : \A e : Kept(f, e) => Kept(f, e)'
  BY <1>1, <1>2, <1>3, LaterMoment
<1>5. Window(now) \in Nat
  BY <1>1, WindowOf
<1>6. ASSUME NEW page, Fit(page) PROVE Fit(page)' /\ Current(page) <= Window(now)
  <2>1. Within(PageSpan) \subseteq Within(PageSpan)'
    BY <1>2, <1>3 DEF Within
  <2>2. PICK z \in page : Current(page) = Window(z[2])
    BY <1>1, <1>6, FitType DEF Windows
  <2>3. Current(page) <= Window(now)
    BY <1>1, <1>6, <2>2, FitType, WindowRises
  <2>4. \A y \in Within(PageSpan)' : y \in Within(PageSpan) \/ Window(y[2]) = Window(now)
    BY <1>2, <1>3 DEF Within
  <2>5. Current(page) \in Nat
    BY <1>1, <1>6, FitType
  <2>6. \A y \in Within(PageSpan)' \ page : Window(y[2]) < Current(page) =>
          Cardinality(page) = MaxDocs /\ \A q \in page : y[2] <= q[2]
    BY <1>5, <1>6, <2>3, <2>4, <2>5 DEF Fit
  <2>7. QED
    BY <1>6, <2>1, <2>3, <2>6 DEF Fit
<1>7. ASSUME NEW page, NEW obs \in SUBSET Observations, Fit(page), WarmFit(page, obs)
      PROVE  WarmFit(page, obs)'
  <2>1. SUFFICES ASSUME NEW o \in obs, o[2] < Current(page)
        PROVE  /\ Behind(o[2])'
               /\ \A x \in alerts' : Whole(Window(x[2]))' /\ x[1] = o[1] /\ Window(x[2]) <= o[2] =>
                    Among(obs, x[1], Window(x[2]))
    BY <1>7 DEF WarmFit
  <2>2. o[2] \in Nat /\ Current(page) \in Nat /\ Current(page) <= Window(now)
        /\ Current(page) \in Windows(alerts)
    <3>1. o[2] \in Nat
      BY WindowOf DEF Observations, Epochs
    <3>2. Current(page) \in Windows(page) /\ page \subseteq alerts
      BY <1>1, <1>7, FitType
    <3>3. Current(page) \in Windows(alerts)
      BY <3>2 DEF Windows
    <3>4. QED
      BY <1>1, <1>6, <1>7, <3>1, <3>3, FitType
  <2>3. Behind(o[2]) /\ Older(o[2])
    BY <1>7, <2>1, <2>2 DEF WarmFit, Older, Windows
  <2>4. ASSUME NEW x \in alerts', Whole(Window(x[2]))', x[1] = o[1], Window(x[2]) <= o[2]
        PROVE  Among(obs, x[1], Window(x[2]))
    <3>1. Window(x[2]) \in Nat
      BY <1>3, AlertsFinite, WindowOf
    <3>2. x \in alerts
      BY <1>3, <1>5, <2>1, <2>2, <2>4, <3>1
    <3>3. Whole(Window(x[2]))
      BY <1>4, <2>4, <3>1
    <3>4. QED
      BY <1>7, <2>1, <2>4, <3>2, <3>3 DEF WarmFit
  <2>5. QED
    BY <1>4, <2>2, <2>3, <2>4
<1>8. ASSUME NEW p \in Polls PROVE Sound(poll[p], early)'
  <2>1. Sound(poll[p], early) /\ poll[p] \in PollType
    BY <1>1 DEF PromptInv
  <2>2. /\ poll[p].copy \in SUBSET Observations /\ poll[p].base \in SUBSET Observations
        /\ poll[p].warm \in SUBSET Observations
    BY <2>1 DEF PollType
  <2>3. Kept(poll[p].copy, early)' /\ Kept(poll[p].base, early)'
    BY <1>2, <1>4, <2>1, <2>2 DEF Sound
  <2>4. poll[p].pc # "idle" => Fit(poll[p].page)' /\ WarmFit(poll[p].page, poll[p].warm)'
    BY <1>6, <1>7, <1>2, <2>1, <2>2 DEF Sound
  <2>5. QED
    BY <1>2, <2>1, <2>3, <2>4 DEF Sound
<1>9. PollTypeOK'
  BY <1>2, <1>3 DEF PromptInv, PollTypeOK
<1>10. (\A x \in alerts : x[2] <= now)'
  BY <1>1, <1>2, <1>3
<1>11. (\A f \in {file} : Kept(f, early))'
  BY <1>1, <1>2, <1>4 DEF PromptInv
<1>12. (\A r \in {poll[p] : p \in Polls} : Sound(r, early))'
  BY <1>8
<1>13. QED
  BY <1>9, <1>10, <1>11, <1>12 DEF PromptInv

LEMMA TickKeeps == ASSUME Prompt, PromptInv, Tick PROVE PromptInv'
<1>1. /\ now \in Nat /\ now < MaxTime /\ now' = now + 1 /\ file' = file /\ poll' = poll
      /\ alerts' = alerts /\ early' = early /\ alerts \subseteq Alerts /\ file \in SUBSET Observations
      /\ \A x \in alerts : x[2] <= now /\ x[2] \in Nat
  BY AlertsFinite DEF PromptInv, PollTypeOK, Tick
<1>2. \A p \in Polls : poll[p].pc = "idle"
  <2>1. \A p \in Polls : poll[p].pc # "idle" => now < poll[p].at + Lag /\ poll[p].at = now
    BY DEF Tick, PromptInv, Sound
  <2>2. QED
    BY <1>1, <2>1 DEF Prompt
<1>3. \A f \in SUBSET Observations : \A e : Kept(f, e) => Kept(f, e)'
  <2>1. alerts' \subseteq Alerts /\ now' \in Nat /\ now <= now'
    BY <1>1
  <2>2. QED
    BY <1>1, <2>1, LaterMoment
<1>4. PollTypeOK'
  BY <1>1 DEF PromptInv, PollTypeOK
<1>5. (\A x \in alerts : x[2] <= now)'
  BY <1>1
<1>6. (\A f \in {file} : Kept(f, early))'
  BY <1>1, <1>3 DEF PromptInv
<1>7. ASSUME NEW p \in Polls PROVE Sound(poll[p], early)'
  <2>1. /\ poll[p].pc = "idle" /\ Kept(poll[p].copy, early) /\ Kept(poll[p].base, early)
        /\ poll[p].copy \in SUBSET Observations /\ poll[p].base \in SUBSET Observations
    BY <1>2 DEF PromptInv, PollTypeOK, Sound
  <2>2. Kept(poll[p].copy, early)' /\ Kept(poll[p].base, early)'
    BY <1>1, <1>3, <2>1
  <2>3. QED
    BY <1>1, <2>1, <2>2 DEF Sound
<1>8. (\A r \in {poll[p] : p \in Polls} : Sound(r, early))'
  BY <1>7
<1>9. QED
  BY <1>4, <1>5, <1>6, <1>8 DEF PromptInv

LEMMA PromptCorrect == ASSUME Prompt PROVE PollSpec => []PromptInv
<1>1. PollInit => PromptInv
  <2> SUFFICES ASSUME PollInit PROVE PromptInv
    OBVIOUS
  <2>1. poll \in [Polls -> PollType]
    BY DEF PollInit, Idle, PollType, Stages
  <2>2. PollTypeOK
    BY <2>1 DEF PollInit, PollTypeOK, PollType, Stages
  <2>3. Kept({}, early) /\ Sound(Idle, early)
    BY NothingIsKept, IdleIsSound DEF PollInit
  <2>4. QED
    BY <2>2, <2>3 DEF PollInit, PromptInv
<1>2. PromptInv /\ [PollNext]_pollVars => PromptInv'
  <2> SUFFICES ASSUME PromptInv, [PollNext]_pollVars PROVE PromptInv'
    OBVIOUS
  <2>1. CASE UNCHANGED pollVars
    <3>1. now' = now /\ alerts' = alerts /\ file' = file /\ poll' = poll /\ early' = early
      BY <2>1 DEF pollVars
    <3>2. PollTypeOK'
      BY <3>1 DEF PromptInv, PollTypeOK
    <3>3. QED
      BY <3>1, <3>2, SameMoment DEF PromptInv
  <2>2. QED
    BY <2>1, OwnStepKeeps, ArriveKeeps, TickKeeps DEF PollNext
<1>3. QED
  BY <1>1, <1>2, PTL DEF PollSpec

\* When polls are prompt, however many run at a time, whatever arrives in their course,
\* whatever the fetches leave out and whichever calls or readings fail, a window on a page
\* has been folded into the baseline the page is scored against, or into the one its
\* preview reads, only if it was folded by a poll in whose course it began, or a newer
\* one has begun since: Start-LabDashboard.ps1 211-213 and 534-536 as far as they hold.
THEOREM PromptPollsScoreOthers ==
  ASSUME Prompt
  PROVE  PollSpec => []ScoredAgainstOthers
<1>1. PromptInv => ScoredAgainstOthers
  <2>1. SUFFICES ASSUME PromptInv, NEW p \in Polls, poll[p].pc = "score", ~Overtaken(poll[p].page),
                        NEW a \in Agents, NEW w \in Shown(poll[p].page), <<a, w>> \notin early
                 PROVE  ~Among(poll[p].base, a, w) /\ ~Among(file, a, w)
    BY DEF ScoredAgainstOthers
  <2>2. alerts \subseteq Alerts /\ now \in Nat
    BY <2>1 DEF PromptInv, PollTypeOK
  <2>3. Fit(poll[p].page) /\ Kept(poll[p].base, early) /\ Kept(file, early)
    BY <2>1 DEF PromptInv, Sound
  <2>4. ~Behind(w)
    BY <2>1, <2>2, <2>3, ShownIsNotBehind
  <2>5. QED
    BY <2>1, <2>3, <2>4 DEF Kept, Among
<1>2. QED
  BY <1>1, PromptCorrect, PTL

\* When polls are prompt, each that settles leaves every window behind its page that a
\* fetch still returns whole in the baseline, of every endpoint that raised an alert in
\* it, or it was there when the call read it: the folds of two spans and of other polls
\* shut none out, but those that took a window which began in their course.
THEOREM PromptPollsSkipNothing ==
  ASSUME Prompt
  PROVE  PollSpec => NothingSkipped
<1> DEFINE Step == \A p \in Polls : Settled(p) =>
       \A x \in poll[p].page :
         /\ Whole(Window(x[2]))
         /\ NewerWindows(poll[p].page, Window(x[2])) >= OnPage
         /\ ~ShutOut(x[1], Window(x[2]))
         => Among(file' \cup poll[p].copy, x[1], Window(x[2]))
<1>1. PromptInv => Step
  <2>1. SUFFICES ASSUME PromptInv, NEW p \in Polls, Settled(p), NEW x \in poll[p].page,
                        Whole(Window(x[2])),
                        NewerWindows(poll[p].page, Window(x[2])) >= OnPage,
                        ~ShutOut(x[1], Window(x[2]))
                 PROVE  Among(file' \cup poll[p].copy, x[1], Window(x[2]))
    OBVIOUS
  <2> DEFINE page == poll[p].page  copy == poll[p].copy  w == Window(x[2])
             obs == Observed(page, Foldable(page))
  <2>2. /\ alerts \subseteq Alerts /\ now \in Nat /\ page \in SUBSET Alerts
        /\ copy \in SUBSET Observations /\ Fit(page) /\ Kept(copy, early)
        /\ file' = Written(copy, obs)
    BY <2>1 DEF PromptInv, PollTypeOK, Sound, Settled
  <2>3. x \in alerts /\ w \in Windows(page) /\ w \in Nat /\ Windows(page) \subseteq Nat
    BY <2>1, <2>2, FitType DEF Windows
  <2>4. w \in Foldable(page)
    <3>1. NewerWindows(page, w) >= OnPage /\ NewerWindows(page, w) \in Nat /\ NewerWindows(page, w) > 0
      BY <2>1, <2>2, <2>3, MoreAreNewer
    <3>2. w \notin Shown(page)
      BY <3>1 DEF Shown
    <3>3. {v \in Windows(page) : v > w} # {}
      BY <3>1, FS_EmptySet DEF NewerWindows
    <3>4. PICK v \in Windows(page) : v > w
      BY <3>3
    <3>5. v <= Current(page) /\ Current(page) \in Nat
      BY <2>2, <3>4, FitType DEF Windows
    <3>6. w # Current(page)
      BY <2>3, <3>4, <3>5
    <3>7. QED
      BY <2>3, <3>2, <3>6 DEF Foldable
  <2>5. PICK o \in obs : o[1] = x[1] /\ o[2] = w
    BY <2>1, <2>2, <2>4, ObservedIs DEF Among
  <2>6. CASE w <= Last(copy, x[1])
    <3>1. ~ShutBy(early, x[1], w)
      BY <2>1 DEF ShutBy, ShutOut
    <3>2. Among(copy, x[1], w)
      BY <2>1, <2>2, <2>3, <2>6, <3>1 DEF Kept
    <3>3. QED
      BY <3>2 DEF Among
  <2>7. CASE ~(w <= Last(copy, x[1]))
    <3>1. Last(copy, x[1]) \in Nat
      BY <2>2, LastIs
    <3>2. o \in Fold(copy, obs)
      BY <2>3, <2>5, <2>7, <3>1 DEF Fold
    <3>3. o \in file' \cup copy
      BY <2>2, <3>2 DEF Written
    <3>4. QED
      BY <2>5, <3>3 DEF Among
  <2>8. QED
    BY <2>6, <2>7
<1>2. PromptInv => [Step]_pollVars
  BY <1>1
<1>3. QED
  BY <1>2, PromptCorrect, PTL DEF NothingSkipped

----------------------------------------------------------------------------
(* The folds of one process are the store's.                                 *)

\* The store counts as this module does.
LEMMA CountedAlike == ASSUME NEW S PROVE Store!Cardinality(S) = Cardinality(S)
BY DEF Store!Cardinality, Cardinality

\* The observations of an agent, and the windows that observations are of.
Of(f, a) == {o \in f : o[1] = a}
Named(obs) == {<<o[1], o[2]>> : o \in obs}

\* An agent is observed once in a window.
LEMMA ObservedOnce ==
  ASSUME NEW rows \in SUBSET Alerts, NEW windows, NEW a \in Agents, NEW n \in Nat
  PROVE  LET obs == Observed(rows, windows)
             new == {o \in Of(obs, a) : o[2] > n}
         IN  /\ IsFiniteSet(new)
             /\ Cardinality(new) = Cardinality(Store!Newer(n, a, Named(obs)))
<1> DEFINE obs == Observed(rows, windows)
           new == {o \in Of(obs, a) : o[2] > n}
           epochs == Store!Newer(n, a, Named(obs))
           Raised(e) == Cardinality({y \in rows : y[1] = a /\ Window(y[2]) = e})
           g == [e \in epochs |-> <<a, e, Raised(e)>>]
<1>1. obs = {<<x[1], Window(x[2]),
               Cardinality({y \in rows : y[1] = x[1] /\ Window(y[2]) = Window(x[2])})>> :
               x \in {y \in rows : Window(y[2]) \in windows}}
  BY DEF Observed
<1>2. ASSUME NEW o \in obs, o[1] = a PROVE o = <<a, o[2], Raised(o[2])>>
  <2>1. PICK x \in rows :
          o = <<x[1], Window(x[2]),
                Cardinality({y \in rows : y[1] = x[1] /\ Window(y[2]) = Window(x[2])})>>
    BY <1>1, <1>2
  <2>2. x[1] = a /\ o[2] = Window(x[2])
    BY <1>2, <2>1
  <2>3. QED
    BY <2>1, <2>2
<1>3. obs \subseteq Observations
  BY ObservedIs
<1> HIDE DEF Raised, obs
<1>4. \A o \in new : o[2] \in epochs /\ o = <<a, o[2], Raised(o[2])>>
  BY <1>2, <1>3 DEF Of, Store!Newer, Named, Observations
<1>5. \A e \in epochs : e > n /\ <<a, e, Raised(e)>> \in new
  BY <1>2, <1>3 DEF Of, Store!Newer, Named, Observations
<1> HIDE DEF new, epochs
<1>6. g \in Bijection(epochs, new)
  <2>1. g \in [epochs -> new]
    BY <1>5
  <2>2. \A d, e \in epochs : g[d] = g[e] => d = e
    OBVIOUS
  <2>3. \A o \in new : \E e \in epochs : g[e] = o
    BY <1>4
  <2>4. QED
    BY <2>1, <2>2, <2>3 DEF Bijection, Injection, Surjection, IsInjective
<1>7. IsFiniteSet(epochs)
  <2>1. MaxTime \in Nat
    OBVIOUS
  <2>2. IsFiniteSet(Epochs)
    BY <2>1, WindowOf, FS_Interval DEF Epochs
  <2>3. epochs \subseteq Epochs
    BY DEF epochs, Store!Newer
  <2>4. QED
    BY <2>2, <2>3, FS_Subset
<1>8. IsFiniteSet(new) /\ Cardinality(new) = Cardinality(epochs)
  <2> HIDE DEF g
  <2>1. QED
    BY <1>6, <1>7, FS_Bijection DEF ExistsBijection
<1>9. QED
  BY <1>8 DEF new, epochs, obs

\* What has been folded of an agent can be counted.
Countable(f) == \A a \in Agents : IsFiniteSet(Of(f, a))

\* A fold adds to an agent's count its newer windows, and keeps the newest in mind.
LEMMA FoldCounts ==
  ASSUME NEW f \in SUBSET Observations, Countable(f),
         NEW rows \in SUBSET Alerts, NEW windows, NEW a \in Agents
  PROVE  LET obs == Observed(rows, windows)
             new == Store!Newer(Last(f, a), a, Named(obs))
             g == Fold(f, obs)
         IN  /\ IsFiniteSet(Of(g, a))
             /\ Cardinality(Of(g, a)) = Cardinality(Of(f, a)) + Cardinality(new)
             /\ Last(g, a) = Store!Newest(Last(f, a), new)
<1> DEFINE obs == Observed(rows, windows)
           new == Store!Newer(Last(f, a), a, Named(obs))
           added == {o \in Of(obs, a) : o[2] > Last(f, a)}
           g == Fold(f, obs)
<1>1. obs \in SUBSET Observations /\ g \in SUBSET Observations /\ Last(f, a) \in Nat
  BY ObservedIs, FoldIs, LastIs
<1>2. IsFiniteSet(added) /\ Cardinality(added) = Cardinality(new)
  BY <1>1, ObservedOnce
<1> HIDE DEF obs
<1>3. Of(g, a) = Of(f, a) \cup added
  BY DEF Of, Fold
<1>4. Of(f, a) \cap added = {}
  <2>1. ASSUME NEW o \in Of(f, a), o \in added PROVE FALSE
    <3>1. o[2] <= Last(f, a) /\ o[2] > Last(f, a)
      BY <2>1, LastIs DEF Of
    <3>2. o[2] \in Nat
      BY <2>1, WindowOf DEF Of, Observations, Epochs
    <3>3. QED
      BY <1>1, <3>1, <3>2
  <2>2. QED
    BY <2>1
<1>5. IsFiniteSet(Of(g, a)) /\ Cardinality(Of(g, a)) = Cardinality(Of(f, a)) + Cardinality(new)
  <2>1. IsFiniteSet(Of(f, a)) /\ Cardinality(Of(f, a)) \in Nat /\ Cardinality(added) \in Nat
    BY <1>2, FS_CardinalityType DEF Countable
  <2>2. Cardinality(Of(f, a) \cap added) = 0
    BY <1>4, FS_EmptySet
  <2> HIDE DEF added, new, g
  <2>3. IsFiniteSet(Of(f, a) \cup added)
        /\ Cardinality(Of(f, a) \cup added)
             = Cardinality(Of(f, a)) + Cardinality(added) - Cardinality(Of(f, a) \cap added)
    BY <1>2, <2>1, FS_Union
  <2>4. Cardinality(Of(f, a) \cup added) = Cardinality(Of(f, a)) + Cardinality(added)
    BY <2>1, <2>2, <2>3
  <2>5. QED
    BY <1>2, <1>3, <2>3, <2>4
<1>6. Epochs \subseteq Nat
  BY WindowOf DEF Epochs
<1>7. \A e \in Epochs : e \in new <=> e > Last(f, a) /\ \E o \in obs : o[1] = a /\ o[2] = e
  BY DEF Store!Newer, Named
<1>8. new \subseteq Epochs /\ \A e \in new : e > Last(f, a)
  BY DEF Store!Newer
<1> HIDE DEF new
<1>9. Last(g, a) = Store!Newest(Last(f, a), new)
  <2>1. Last(g, a) \in Nat /\ \A o \in g : o[1] = a => o[2] <= Last(g, a)
    BY <1>1, LastIs
  <2>2. \A e \in new : e <= Last(g, a)
    <3>1. SUFFICES ASSUME NEW e \in new PROVE e <= Last(g, a)
      OBVIOUS
    <3>2. PICK o \in obs : o[1] = a /\ o[2] = e
      BY <1>7, <1>8
    <3>3. o \in g
      BY <1>8, <3>2 DEF Fold
    <3>4. QED
      BY <2>1, <3>2, <3>3
  <2>3. Last(f, a) <= Last(g, a)
    <3>1. CASE Last(f, a) = 0
      BY <2>1, <3>1
    <3>2. CASE Last(f, a) # 0
      <4>1. PICK o \in f : o[1] = a /\ o[2] = Last(f, a)
        BY <3>2, LastIs
      <4>2. QED
        BY <1>1, <2>1, <4>1, FoldIs
    <3>3. QED
      BY <3>1, <3>2
  <2>4. Last(g, a) = Last(f, a) \/ Last(g, a) \in new
    <3>1. SUFFICES ASSUME Last(g, a) # Last(f, a) PROVE Last(g, a) \in new
      OBVIOUS
    <3>2. Last(g, a) > Last(f, a) /\ Last(g, a) # 0
      BY <1>1, <2>1, <2>3, <3>1
    <3>3. PICK o \in g : o[1] = a /\ o[2] = Last(g, a)
      BY <1>1, <3>2, LastIs
    <3>4. o \notin f
      BY <1>1, <2>1, <3>2, <3>3, LastIs
    <3>5. o \in obs
      BY <3>3, <3>4 DEF Fold
    <3>6. o[2] \in Epochs
      BY <1>1, <3>5 DEF Observations
    <3>7. QED
      BY <1>7, <3>2, <3>3, <3>5, <3>6
  <2> HIDE DEF g
  <2>5. CASE new = {}
    BY <2>4, <2>5 DEF Store!Newest
  <2>6. CASE new # {}
    <3>0. PICK e \in new : TRUE
      BY <2>6
    <3>1. Last(g, a) \in new
      BY <1>1, <1>6, <1>8, <2>1, <2>2, <2>4, <3>0
    <3>2. \A b \in new : (\A d \in new : d <= b) => b = Last(g, a)
      BY <1>6, <1>8, <2>1, <2>2, <3>1
    <3>3. QED
      BY <2>2, <2>6, <3>1, <3>2 DEF Store!Newest
  <2>7. QED
    BY <2>5, <2>6
<1>10. QED
  BY <1>5, <1>9 DEF new, obs

\* So the store would fold, handed the windows.
LEMMA FoldIsStores ==
  ASSUME NEW f \in SUBSET Observations, Countable(f),
         NEW rows \in SUBSET Alerts, NEW windows
  PROVE  LET obs == Observed(rows, windows)
         IN  /\ Countable(Fold(f, obs))
             /\ Named(obs) \in SUBSET Store!Observations
             /\ Summary(Fold(f, obs)) = Store!Folded(Summary(f), Named(obs))
<1> DEFINE obs == Observed(rows, windows)
           g == Fold(f, obs)
           New(a) == Store!Newer(Last(f, a), a, Named(obs))
<1>1. \A a \in Agents : /\ IsFiniteSet(Of(g, a))
                        /\ Cardinality(Of(g, a)) = Cardinality(Of(f, a)) + Cardinality(New(a))
                        /\ Last(g, a) = Store!Newest(Last(f, a), New(a))
  BY FoldCounts
<1>2. Named(obs) \in SUBSET Store!Observations
  <2>1. obs \subseteq Observations
    BY ObservedIs
  <2>2. QED
    BY <2>1 DEF Named, Observations, Store!Observations
<1> HIDE DEF g, obs
<1>3. Summary(g) = Store!Folded(Summary(f), Named(obs))
  <2> DEFINE s == Summary(f)
  <2>1. \A a \in Agents : s[a].windows = Cardinality(Of(f, a)) /\ s[a].last = Last(f, a)
    BY DEF Summary, Of
  <2>2. Summary(g) = [a \in Agents |-> [windows |-> Cardinality(Of(g, a)), last |-> Last(g, a)]]
    BY DEF Summary, Of
  <2> HIDE DEF s
  <2>3. Store!Folded(s, Named(obs))
          = [a \in Agents |->
               [windows |-> s[a].windows + Cardinality(Store!Newer(s[a].last, a, Named(obs))),
                last |-> Store!Newest(s[a].last, Store!Newer(s[a].last, a, Named(obs)))]]
    BY CountedAlike DEF Store!Folded
  <2>4. Summary(g) = Store!Folded(s, Named(obs))
    BY <1>1, <2>1, <2>2, <2>3
  <2>5. QED
    BY <2>4 DEF s
<1>4. Countable(g)
  BY <1>1 DEF Countable
<1>5. QED
  BY <1>2, <1>3, <1>4 DEF g, obs

\* An agent without an alert left, and a store that could not be read.
LEMMA NothingCounts == Countable({}) /\ Summary({}) = Store!Empty
<1>1. \A a : Of({}, a) = {} /\ Last({}, a) = 0
  BY DEF Of, Last
<1>2. IsFiniteSet({}) /\ Cardinality({}) = 0
  BY FS_EmptySet
<1>3. Countable({})
  BY <1>1, <1>2 DEF Countable
<1>4. Summary({}) = [a \in Agents |-> [windows |-> Cardinality(Of({}, a)), last |-> Last({}, a)]]
  BY DEF Summary, Of
<1>5. QED
  BY <1>1, <1>2, <1>3, <1>4 DEF Store!Empty

\* What a process hands over is observed of some rows.
Seen(obs) == \E rows \in SUBSET Alerts : \E windows : obs = Observed(rows, windows)

\* The file can be counted, and a call that runs has read it as it is, or has not.
AloneInv ==
  /\ Countable(file)
  /\ \A p \in Polls : poll[p].pc \in {"warming", "settling"} => poll[p].copy \in {file, {}}
  /\ \A p \in Polls : Seen(poll[p].warm)

LEMMA SeenIs ==
  ASSUME PollTypeOK
  PROVE  Seen({}) /\ \A page : \A obs \in WarmObs(page) : Seen(obs)
<1>1. Observed({}, {}) = {}
  BY DEF Observed
<1>2. \A rows \in WarmAnswers \cup {{}} : rows \in SUBSET Alerts
  BY AnswersType
<1>3. QED
  BY <1>1, <1>2 DEF Seen, WarmObs

\* The fold of a call that runs is the store's; of one that has not read the file it is
\* that of a store that begins anew.
LEMMA CallFolds ==
  ASSUME PollTypeOK, AloneInv, NEW p \in Polls, NEW obs, Seen(obs),
         poll[p].pc \in {"warming", "settling"}, file' = Written(poll[p].copy, obs),
         Unread <=> poll[p].copy # file, Unread' = FALSE
  PROVE  Countable(file') /\ Store!Next
<1> DEFINE copy == poll[p].copy
<1>1. /\ file \in SUBSET Observations /\ Countable(file) /\ copy \in {file, {}}
      /\ copy \in SUBSET Observations /\ Countable(copy)
  BY NothingCounts DEF PollTypeOK, AloneInv
<1>2. PICK rows \in SUBSET Alerts : \E windows : obs = Observed(rows, windows)
  BY DEF Seen
<1>3. PICK windows : obs = Observed(rows, windows)
  BY <1>2
<1> HIDE DEF copy
<1>4. /\ Countable(Fold(copy, obs)) /\ Named(obs) \in SUBSET Store!Observations
      /\ Summary(Fold(copy, obs)) = Store!Folded(Summary(copy), Named(obs))
  BY <1>1, <1>3, FoldIsStores
<1>5. Unread \in BOOLEAN
  BY DEF Unread
<1>6. CASE file' = file
  <2>1. Summary(file)' = Summary(file)
    BY <1>6 DEF Summary
  <2>2. QED
    BY <1>1, <1>6, <2>1 DEF Store!Next, Store!Reads
<1>7. CASE file' # file
  <2>1. file' = Fold(copy, obs) /\ Fold(copy, obs) # copy
    BY <1>7 DEF Written, copy
  <2>2. Summary(file)' = Summary(Fold(copy, obs))
    BY <2>1 DEF Summary
  <2>3. CASE copy = file
    <3>1. Unread = FALSE
      BY <1>5, <2>3 DEF copy
    <3>2. Store!Fold(Named(obs))
      BY <1>4, <2>2, <2>3, <3>1 DEF Store!Fold
    <3>3. QED
      BY <1>4, <2>1, <3>2 DEF Store!Next
  <2>4. CASE copy # file
    <3>1. copy = {} /\ Unread
      BY <1>1, <2>4 DEF copy
    <3>2. Named(obs) # {}
      BY <2>1, <3>1 DEF Fold, Named
    <3>3. Store!StartsOver(Named(obs))
      BY <1>4, <2>2, <3>1, <3>2, NothingCounts DEF Store!StartsOver
    <3>4. QED
      BY <1>4, <2>1, <3>3 DEF Store!Next
  <2>5. QED
    BY <2>3, <2>4
<1>8. QED
  BY <1>6, <1>7

\* A process that polls alone folds into the baseline as its store promises, each call
\* at once or not at all, however long its polls last and whatever they are answered.
THEOREM AloneFoldsAsStore ==
  ASSUME \A p, q \in Polls : p = q
  PROVE  PollSpec => StoreSpec
<1>1. PollInit => Store!Init /\ AloneInv
  <2>1. SUFFICES ASSUME PollInit PROVE Store!Init /\ AloneInv
    OBVIOUS
  <2>2. file = {} /\ \A p \in Polls : poll[p].pc = "idle" /\ poll[p].warm = {}
    BY <2>1 DEF PollInit, Idle
  <2>3. Seen({})
    <3>1. Observed({}, {}) = {}
      BY DEF Observed
    <3>2. QED
      BY <3>1 DEF Seen
  <2>4. AloneInv
    BY <2>2, <2>3, NothingCounts DEF AloneInv
  <2>5. Unread = FALSE
    BY <2>2 DEF Unread
  <2>6. QED
    BY <2>2, <2>4, <2>5, NothingCounts DEF Store!Init
<1>2. PollTypeOK /\ AloneInv /\ [PollNext]_pollVars
        => AloneInv' /\ [Store!Next]_<<Summary(file), Unread>>
  <2>1. SUFFICES ASSUME PollTypeOK, AloneInv, [PollNext]_pollVars
                 PROVE  AloneInv' /\ [Store!Next]_<<Summary(file), Unread>>
    OBVIOUS
  <2>0. poll \in [Polls -> PollType] /\ Unread \in BOOLEAN /\ Unread' \in BOOLEAN
    BY <2>1 DEF PollTypeOK, PollType, Stages, Unread
  <2>2. file' = file => Summary(file)' = Summary(file) /\ Countable(file') /\ Store!Next
    BY <2>0, <2>1 DEF Summary, AloneInv, Store!Next, Store!Reads
  <2>3. ASSUME file' = file, poll' = poll PROVE AloneInv' /\ Store!Next
    BY <2>1, <2>2, <2>3 DEF AloneInv
  <2>4. ASSUME NEW p \in Polls, NEW r, poll' = [poll EXCEPT ![p] = r], Seen(r.warm),
               Countable(file'), r.pc \in {"warming", "settling"} => r.copy \in {file', {}}
        PROVE  AloneInv'
    <3>1. \A q \in Polls : poll'[q] = r
      BY <2>0, <2>4
    <3>2. QED
      BY <2>4, <3>1 DEF AloneInv
  <2>5. ASSUME NEW p \in Polls, Fetch(p) \/ Open(p) \/ WarmFetch(p) \/ CallFails(p) \/ Score(p)
        PROVE  AloneInv' /\ Store!Next
    <3>1. file' = file
      BY <2>5 DEF Fetch, Open, WarmFetch, CallFails, Score
    <3>2. \E r : poll' = [poll EXCEPT ![p] = r] /\ r.pc \notin {"warming", "settling"} /\ Seen(r.warm)
      <4>1. Idle.pc = "idle" /\ Idle.warm = {} /\ poll[p] \in PollType /\ Seen(poll[p].warm) /\ Seen({})
        BY <2>0, <2>1, SeenIs DEF Idle, AloneInv
      <4>2. \A rows : LET r == [Idle EXCEPT !.pc = "fetched", !.at = now, !.page = rows]
                      IN  r.pc = "fetched" /\ r.warm = {}
        BY DEF Idle
      <4>3. \A s, f : LET r == [poll[p] EXCEPT !.base = f, !.pc = s]
                      IN  r.pc = s /\ r.warm = poll[p].warm
        BY <4>1 DEF PollType
      <4>4. \A s, obs : LET r == [poll[p] EXCEPT !.warm = obs, !.pc = s]
                        IN  r.pc = s /\ r.warm = obs
        BY <4>1 DEF PollType
      <4>5. \A s : LET r == [poll[p] EXCEPT !.pc = s, !.warm = {}, !.copy = {}]
                   IN  r.pc = s /\ r.warm = {}
        BY <4>1 DEF PollType
      <4>6. CASE Fetch(p)
        <5>1. PICK rows \in PageAnswers \ {{}} :
                poll' = [poll EXCEPT ![p] = [Idle EXCEPT !.pc = "fetched", !.at = now, !.page = rows]]
          BY <2>1, <4>6, StepRecord
        <5>2. QED
          BY <4>1, <4>2, <5>1
      <4>7. CASE Open(p)
        <5>1. PICK s \in {"short", "settle"}, f \in Readings :
                poll' = [poll EXCEPT ![p] = [poll[p] EXCEPT !.base = f, !.pc = s]]
          BY <2>1, <4>7, StepRecord
        <5>2. QED
          BY <4>1, <4>3, <5>1
      <4>8. CASE WarmFetch(p)
        <5>1. PICK obs \in WarmObs(poll[p].page), s \in {"settle", "warm"} :
                poll' = [poll EXCEPT ![p] = [poll[p] EXCEPT !.warm = obs, !.pc = s]]
          BY <2>1, <4>8, StepRecord
        <5>2. Seen(obs)
          BY <2>1, SeenIs
        <5> DEFINE r == [poll[p] EXCEPT !.warm = obs, !.pc = s]
        <5>3. r.pc = s /\ r.warm = obs
          BY <4>4
        <5>4. poll' = [poll EXCEPT ![p] = r]
          BY <5>1
        <5> HIDE DEF r
        <5>5. QED
          BY <5>2, <5>3, <5>4
      <4>9. CASE CallFails(p)
        <5>1. CASE poll' = [poll EXCEPT ![p] = Idle]
          BY <4>1, <5>1
        <5>2. CASE \E s \in {"settle", "score"} :
                     poll' = [poll EXCEPT ![p] = [poll[p] EXCEPT !.pc = s, !.warm = {}, !.copy = {}]]
          <6>1. PICK s \in {"settle", "score"} :
                  poll' = [poll EXCEPT ![p] = [poll[p] EXCEPT !.pc = s, !.warm = {}, !.copy = {}]]
            BY <5>2
          <6> DEFINE r == [poll[p] EXCEPT !.pc = s, !.warm = {}, !.copy = {}]
          <6>2. r.pc = s /\ r.warm = {}
            BY <4>5
          <6>3. poll' = [poll EXCEPT ![p] = r]
            BY <6>1
          <6> HIDE DEF r
          <6>4. QED
            BY <4>1, <6>2, <6>3
        <5>3. QED
          BY <2>1, <4>9, <5>1, <5>2, StepRecord
      <4>10. CASE Score(p)
        <5>1. poll' = [poll EXCEPT ![p] = Idle]
          BY <4>10 DEF Score
        <5>2. QED
          BY <4>1, <5>1
      <4>11. QED
        BY <2>5, <4>6, <4>7, <4>8, <4>9, <4>10
    <3>3. QED
      BY <2>2, <2>4, <3>1, <3>2
  <2>6. ASSUME NEW p \in Polls, CallHelper(p) PROVE AloneInv' /\ Store!Next
    <3>1. file' = file
      BY <2>6 DEF CallHelper
    <3>2. PICK s \in {"warming", "settling"}, f \in Readings :
            poll' = [poll EXCEPT ![p] = [poll[p] EXCEPT !.copy = f, !.pc = s]]
      BY <2>1, <2>6, StepRecord
    <3> DEFINE r == [poll[p] EXCEPT !.copy = f, !.pc = s]
    <3>3. r.copy \in {file', {}} /\ r.warm = poll[p].warm
      BY <2>0, <3>1 DEF PollType, Readings
    <3>4. Seen(r.warm)
      BY <2>1, <3>3 DEF AloneInv
    <3>5. QED
      BY <2>2, <2>4, <3>1, <3>2, <3>3, <3>4
  <2>7. ASSUME NEW p \in Polls, WarmFolded(p) \/ Settled(p) PROVE AloneInv' /\ Store!Next
    <3>1. \E r : /\ poll' = [poll EXCEPT ![p] = r] /\ r.pc \notin {"warming", "settling"}
                 /\ r.warm = {} \/ r.warm = poll[p].warm
      <4>1. LET r == [poll[p] EXCEPT !.pc = "settle", !.warm = {}, !.copy = {}]
            IN  r.pc = "settle" /\ r.warm = {}
        BY <2>0 DEF PollType
      <4>2. LET r == [poll[p] EXCEPT !.pc = "score", !.copy = {}, !.base = poll[p].copy]
            IN  r.pc = "score" /\ r.warm = poll[p].warm
        BY <2>0 DEF PollType
      <4>3. QED
        BY <2>1, <2>7, <4>1, <4>2, StepRecord
    <3>2. PICK r : /\ poll' = [poll EXCEPT ![p] = r] /\ r.pc \notin {"warming", "settling"}
                   /\ r.warm = {} \/ r.warm = poll[p].warm
      BY <3>1
    <3>3. Seen(r.warm)
      BY <2>1, <3>2, SeenIs DEF AloneInv
    <3>4. \A q \in Polls : q = p /\ poll'[q] = r
      BY <2>0, <3>2
    <3>5. Unread' = FALSE
      BY <3>2, <3>4 DEF Unread
    <3>6. poll[p].pc \in {"warming", "settling"} /\ (Unread <=> poll[p].copy # file)
      BY <2>7, <3>4 DEF WarmFolded, Settled, Unread
    <3>7. \E obs : Seen(obs) /\ file' = Written(poll[p].copy, obs)
      <4>1. CASE WarmFolded(p)
        BY <2>1, <4>1 DEF WarmFolded, AloneInv
      <4>2. CASE Settled(p)
        BY <2>0, <4>2 DEF Settled, Seen, PollType
      <4>3. QED
        BY <2>7, <4>1, <4>2
    <3>8. Countable(file') /\ Store!Next
      BY <2>1, <3>5, <3>6, <3>7, CallFolds
    <3>9. QED
      BY <2>4, <3>2, <3>3, <3>8
  <2>8. (file' = file /\ poll' = poll) \/ \E p \in Polls :
            \/ Fetch(p) \/ Open(p) \/ WarmFetch(p) \/ CallFails(p) \/ Score(p)
            \/ CallHelper(p) \/ WarmFolded(p) \/ Settled(p)
    BY <2>1 DEF PollNext, pollVars, Tick, Arrive
  <2>9. QED
    BY <2>3, <2>5, <2>6, <2>7, <2>8
<1>3. QED
  BY <1>1, <1>2, PollTypes, PTL DEF PollSpec, StoreSpec, Store!Spec
=============================================================================
