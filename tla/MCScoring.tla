----------------------------- MODULE MCScoring -----------------------------
(* Small cases of every kind the scoring works on. *)
EXTENDS Scoring

UpTo(n, S)    == UNION {[1 .. k -> S] : k \in 0 .. n}
InOrder(s)    == \A i \in 1 .. Len(s) - 1 : s[i] <= s[i + 1]
Growing(n, S)  == {s \in UpTo(n, S) : InOrder(s)}

MCTimes == Growing(5, {0, 1, 59, 60, 61, 119, 120})

Alert(t, r, l, tac, a) == [at |-> t, rule |-> r, level |-> l, tactics |-> tac, agent |-> a]

\* Alerts on both sides of two window edges, and phases that begin and end on them.
Bounds     == {0, 260, 300, 600}
Intervals  == {[start |-> b, end |-> e] : b \in Bounds, e \in Bounds}
Phases     == {S \in SUBSET {p \in Intervals : p.start < p.end} : Cardinality(S) <= 2}
MCCaptures ==
  {[alerts |-> [i \in DOMAIN ts |-> Alert(ts[i], 5501 + (ts[i] % 2), 3 + 7 * (ts[i] % 2), {}, 0)],
    phases |-> S, width |-> 300, most |-> m] :
     ts \in Growing(4, {250, 299, 300, 420, 601}), S \in Phases, m \in {2, 5}}

MCBursts ==
  {[window |-> w, vocab |-> <<5501>>] :
     w \in UpTo(3, {Alert(t, r, l, {}, 1) : t \in {0, 20, 60, 200}, r \in {5501, 5502}, l \in {3, 7, 10}})}

\* Three windows: an ordinary one, a busy one and an attack.
Quiet(a)   == <<Alert(0, 5, 3, {}, a), Alert(40, 5, 7, {}, a)>>
Busy(a)    == [i \in 1 .. 5 |-> Alert(10 * i, 5 + (i % 2), 9, {}, a)]
Attack(a)  == <<Alert(0, 100101, 10, {"credential access"}, a), Alert(5, 5, 3, {}, a),
                Alert(90, 100102, 12, {"persistence"}, a)>>
Windows3   == {Quiet(1), Busy(1), Attack(1)}

PerHour(n) == [h \in 0 .. 23 |-> IF h = 1 THEN n ELSE 0]
Baselines  ==
  {[windows |-> n, last |-> 300, hours |-> PerHour(2),
    rules   |-> (5 :> PerHour(r) @@ 6 :> PerHour(1) @@ 100101 :> PerHour(r) @@ 100102 :> PerHour(3)),
    samples |-> [mass |-> m, burst |-> b, distinct |-> d, prob |-> p]] :
     n \in {1, 2}, r \in {1, 4}, m \in {<<>>, <<4000, 4000, 30000>>, <<90000, 15000>>},
     b \in {<<1000, 2000>>, <<9000, 12000, 5000>>}, d \in {<<>>, <<4000, 1000, 9000>>},
     p \in {<<100, 50>>, <<700, 950>>}}
MCSeverities ==
  {[window |-> w, p |-> p, threshold |-> t, baseline |-> b, hour |-> h] :
     w \in Windows3 \cup {<<>>}, p \in {200, 900}, t \in {0, 300, 850}, b \in Baselines, h \in {1, 2}}

Warmed  == CHOOSE b \in Baselines : b.windows = 2 /\ b.samples.mass # <<>>
MCModel == [bias |-> -1, mean |-> [i \in 1 .. 11 |-> i], sd |-> [i \in 1 .. 11 |-> i % 3],
            weights |-> <<1, 0, 0, -1, 0, 2, 1, 1, 0, 1, 0>>]
MCMixed ==
  {[window |-> w, p |-> 600, threshold |-> 850, baselines |-> b, hour |-> 1, model |-> m] :
     w \in UpTo(3, {Alert(10, r[1], r[2], {}, a) :
                      r \in {<<5, 7>>, <<100101, 5>>, <<100102, 12>>}, a \in 0 .. 2}) \ {<<>>},
     b \in {[a \in 0 .. 2 |-> NoBaseline], [a \in 0 .. 2 |-> IF a = 2 THEN Warmed ELSE NoBaseline]},
     m \in {NoModel, MCModel}}

MCWalks ==
  {[eps |-> [i \in DOMAIN ws |-> [startedAt |-> i * gap, alerts |-> ws[i]]],
    labels |-> [i \in DOMAIN ws |-> ws[i] = Attack(1)],
    probs |-> [i \in DOMAIN ws |-> IF ws[i] = Attack(1) THEN 900 ELSE 100 * i],
    threshold |-> 300] :
     ws \in UpTo(5, Windows3), gap \in {300, 3600}}

MCRankings ==
  UNION {{[y |-> y, s |-> s] : y \in [1 .. n -> BOOLEAN], s \in [1 .. n -> {100, 500, 900}]} :
           n \in 1 .. 4}

\* Three networks of one to three episodes each and four of one or two, in the order of
\* time or against it.
Filed(sizes, back) ==
  LET n     == Len(sizes)
      Own(k) == [j \in 1 .. sizes[k] |-> [source |-> k, startedAt |-> 7 * j + k]]
      eps   == FoldLeft(LAMBDA s, k : s \o Own(k), <<>>, [k \in 1 .. n |-> k])
  IN  IF back THEN Reverse(eps) ELSE eps
MCDivided ==
  {[eps |-> Filed(sizes, back), share |-> f] :
     sizes \in [1 .. 3 -> 1 .. 3] \cup [1 .. 4 -> 1 .. 2], back \in BOOLEAN, f \in {20, 50, 70, 85}}

Draw(k, n, gs, r) == [kind |-> k, logons |-> n, gaps |-> gs, rest |-> r]
Draws ==
  {Draw("admin-failed-login", 5, <<>>, r) : r \in {1500, 3300}}
  \cup {Draw("admin-new-account", 0, <<>>, 1500), Draw("admin-provision", 0, <<600>>, 1500),
        Draw("bruteforce", 6, <<>>, 1500), Draw("bruteforce-persist", 14, <<150, 750>>, 1500),
        Draw("quiet-persist", 0, <<100>>, 1500)}
  \cup {Draw("admin-new-cronjob", 0, <<>>, 1500)}
MCStreams ==
  {[draws |-> ds, pace |-> p, every |-> e] :
     ds \in UpTo(3, Draws),
     p \in {[setup |-> 40, each |-> 20, trigger |-> 4, tail |-> 25, account |-> 12, accountEnd |-> 34,
             cron |-> 15, cronEnd |-> 175],
            [setup |-> 70, each |-> 36, trigger |-> 1, tail |-> 35, account |-> 3, accountEnd |-> 44,
             cron |-> 3, cronEnd |-> 195]},
     e \in {200, 600}}
=============================================================================
