-------------------------- MODULE Baseline_proofs --------------------------
(* Proofs about the baseline helper, for any helpers, agents, windows, rules *)
(* and limits.                                                               *)
EXTENDS Baseline, FiniteSetTheorems, TLAPS

----------------------------------------------------------------------------
(* The fold of one observation.                                              *)

Ordered(s) == \A i, j \in 1..Len(s) : i < j => s[i] < s[j]

\* What holds of an agent's record wherever it is kept: the samples are of
\* different windows in order, the newest of them the last, as many as windows
\* were counted up to the limit; no rule was seen after the newest window; the
\* rules remembered are no more than the limit, the newest window's among them.
Sound(a, r) ==
  /\ Ordered(r.samples)
  /\ IF r.samples = <<>> THEN r.last = 0 ELSE r.last = r.samples[Len(r.samples)]
  /\ Len(r.samples) = AtMost(SampleLimit, r.windows)
  /\ \A k \in DOMAIN r.rules : r.rules[k] <= r.last
  /\ Cardinality(DOMAIN r.rules) <= RuleLimit
  /\ r.windows > 0 /\ Cardinality(RulesIn[<<a, r.last>>]) <= RuleLimit
       => RulesIn[<<a, r.last>>] \subseteq DOMAIN r.rules

\* Evict keeps some of the rules, with their stamps.
LEMMA EvictKeeps ==
  ASSUME NEW rules \in Stamps, NEW r \in Evict(rules)
  PROVE  /\ r \in Stamps
         /\ DOMAIN r \subseteq DOMAIN rules
         /\ \A k \in DOMAIN r : r[k] = rules[k]
<1>1. PICK R \in SUBSET Rules : rules \in [R -> Epochs]
  BY DEF Stamps
<1>2. CASE r = rules
  BY <1>2
<1>3. CASE \E K \in SUBSET DOMAIN rules : r = [k \in K |-> rules[k]]
  <2>1. PICK K \in SUBSET DOMAIN rules : r = [k \in K |-> rules[k]]
    BY <1>3
  <2>2. K \subseteq Rules /\ r \in [K -> Epochs]
    BY <1>1, <2>1
  <2>3. r \in Stamps
    BY <2>2 DEF Stamps
  <2>4. QED
    BY <2>1, <2>2, <2>3
<1>4. QED
  BY <1>2, <1>3 DEF Evict

\* Stamping sets the observation's rules to its window and leaves the others.
LEMMA StampedType ==
  ASSUME NEW rules \in Stamps, NEW o \in Observations
  PROVE  /\ Stamped(rules, o) \in Stamps
         /\ DOMAIN Stamped(rules, o) = DOMAIN rules \cup RulesIn[o]
         /\ \A k \in RulesIn[o] : Stamped(rules, o)[k] = o[2]
         /\ \A k \in DOMAIN rules \ RulesIn[o] : Stamped(rules, o)[k] = rules[k]
<1>1. PICK R \in SUBSET Rules : rules \in [R -> Epochs]
  BY DEF Stamps
<1>2. RulesIn[o] \in SUBSET Rules /\ o[2] \in Epochs
  BY BaselineAssumption DEF Observations
<1>3. Stamped(rules, o) \in [R \cup RulesIn[o] -> Epochs]
  BY <1>1, <1>2 DEF Stamped
<1>4. Stamped(rules, o) \in Stamps
  BY <1>1, <1>2, <1>3 DEF Stamps
<1>5. QED
  BY <1>1, <1>4 DEF Stamped

\* Of the stamped rules no more than the limit are kept, those of the observation
\* among them unless they alone are more.
LEMMA EvictBounds ==
  ASSUME NEW rules \in Stamps, NEW o \in Observations, NEW r \in Evict(Stamped(rules, o)),
         \A k \in DOMAIN rules : rules[k] < o[2]
  PROVE  /\ Cardinality(DOMAIN r) <= RuleLimit
         /\ Cardinality(RulesIn[o]) <= RuleLimit => RulesIn[o] \subseteq DOMAIN r
<1> DEFINE st == Stamped(rules, o)
           now == RulesIn[o]
<1>1. /\ DOMAIN st = DOMAIN rules \cup now
      /\ \A k \in now : st[k] = o[2]
      /\ \A k \in DOMAIN rules \ now : st[k] < o[2]
      /\ \A k \in DOMAIN rules \ now : st[k] = rules[k]
  <2>1. /\ DOMAIN st = DOMAIN rules \cup now
        /\ \A k \in now : st[k] = o[2]
        /\ \A k \in DOMAIN rules \ now : st[k] = rules[k]
    BY StampedType
  <2>2. QED
    BY <2>1
<1>2. /\ now \subseteq Rules /\ IsFiniteSet(now) /\ Cardinality(now) \in Nat
      /\ RuleLimit \in Nat /\ o[2] \in Nat
  <2>1. now \subseteq Rules
    BY BaselineAssumption
  <2>2. o[2] \in Epochs
    BY DEF Observations
  <2>3. QED
    BY <2>1, <2>2, BaselineAssumption, FS_Subset, FS_CardinalityType
<1> HIDE DEF st, now
<1>3. CASE Cardinality(DOMAIN st) <= RuleLimit
  <2>1. r = st
    BY <1>3 DEF Evict, st
  <2>2. QED
    BY <1>1, <1>3, <2>1 DEF now
<1>4. CASE ~(Cardinality(DOMAIN st) <= RuleLimit)
  <2>1. PICK K \in SUBSET DOMAIN st :
          /\ Cardinality(K) = RuleLimit
          /\ \A k \in K, g \in DOMAIN st \ K : st[g] <= st[k]
          /\ r = [k \in K |-> st[k]]
    BY <1>4 DEF Evict, st
  <2>2. DOMAIN r = K
    BY <2>1
  <2>3. ASSUME Cardinality(now) <= RuleLimit, NEW x \in now, x \notin K PROVE FALSE
    <3>1. K \subseteq now \ {x}
      <4>1. SUFFICES ASSUME NEW k \in K, k \notin now PROVE FALSE
        BY <2>3
      <4>2. st[k] < o[2] /\ st[x] = o[2]
        BY <1>1, <2>1, <2>3, <4>1
      <4>3. st[x] <= st[k]
        BY <1>1, <2>1, <2>3, <4>1
      <4>4. k \in DOMAIN rules /\ st[k] = rules[k]
        BY <1>1, <2>1, <4>1
      <4>5. rules[k] \in Nat
        <5>1. PICK R \in SUBSET Rules : rules \in [R -> Epochs]
          BY DEF Stamps
        <5>2. QED
          BY <4>4, <5>1, BaselineAssumption
      <4>6. QED
        BY <1>2, <4>2, <4>3, <4>4, <4>5
    <3>2. Cardinality(now \ {x}) = Cardinality(now) - 1 /\ IsFiniteSet(now \ {x})
      BY <1>2, <2>3, FS_RemoveElement
    <3>3. Cardinality(K) <= Cardinality(now \ {x})
      BY <3>1, <3>2, FS_Subset
    <3>4. QED
      BY <1>2, <2>1, <2>3, <3>2, <3>3
  <2>4. Cardinality(DOMAIN r) <= RuleLimit
    BY <1>2, <2>1, <2>2
  <2>5. QED
    BY <2>2, <2>3, <2>4 DEF now
<1>5. QED
  BY <1>3, <1>4

\* The blank record is a record, and sound.
LEMMA BlankSound == Blank \in Record /\ \A a \in Agents : Sound(a, Blank)
<1>1. Blank.rules \in Stamps
  <2>1. [r \in {} |-> 0] \in [{} -> Epochs]
    OBVIOUS
  <2>2. QED
    BY <2>1 DEF Blank, Stamps
<1>2. Blank \in Record
  BY <1>1 DEF Blank, Record
<1>3. ASSUME NEW a \in Agents PROVE Sound(a, Blank)
  <2>1. /\ Blank.samples = <<>> /\ Blank.last = 0 /\ Blank.windows = 0
        /\ DOMAIN Blank.rules = {}
    BY DEF Blank
  <2>2. Ordered(Blank.samples) /\ Len(Blank.samples) = 0
    BY <2>1 DEF Ordered
  <2>3. QED
    BY <2>1, <2>2, BaselineAssumption, FS_EmptySet DEF Sound, AtMost
<1>4. QED
  BY <1>2, <1>3

\* The trimmed series of one more sample: still in order, its end the new one.
LEMMA TrimSound ==
  ASSUME NEW s \in Seq(Epochs), NEW e \in Epochs, NEW w \in Nat,
         Ordered(s),
         \A i \in 1..Len(s) : s[i] < e,
         Len(s) = AtMost(SampleLimit, w)
  PROVE  /\ Trim(Append(s, e)) \in Seq(Epochs)
         /\ Ordered(Trim(Append(s, e)))
         /\ Trim(Append(s, e)) # <<>>
         /\ Trim(Append(s, e))[Len(Trim(Append(s, e)))] = e
         /\ Len(Trim(Append(s, e))) = AtMost(SampleLimit, w + 1)
<1> DEFINE a == Append(s, e)
           t == Trim(a)
<1>0. Epochs \subseteq Nat /\ SampleLimit \in Nat \ {0}
  BY BaselineAssumption
<1>1. /\ a \in Seq(Epochs) /\ Len(a) = Len(s) + 1
      /\ a[Len(a)] = e
      /\ \A i \in 1..Len(s) : a[i] = s[i]
  OBVIOUS
<1>2. Ordered(a)
  <2>1. SUFFICES ASSUME NEW i \in 1..Len(a), NEW j \in 1..Len(a), i < j
                 PROVE  a[i] < a[j]
    BY DEF Ordered
  <2>2. i \in 1..Len(s)
    BY <1>1, <2>1
  <2>3. CASE j \in 1..Len(s)
    BY <1>1, <2>1, <2>2, <2>3 DEF Ordered
  <2>4. CASE j = Len(a)
    BY <1>1, <2>1, <2>2, <2>4
  <2>5. QED
    BY <1>1, <2>3, <2>4
<1> DEFINE Fine == /\ t \in Seq(Epochs)
                   /\ Ordered(t)
                   /\ t # <<>> /\ t[Len(t)] = e
                   /\ Len(t) = AtMost(SampleLimit, w + 1)
<1> HIDE DEF a
<1>3. ASSUME Len(a) > SampleLimit PROVE Fine
  <2>1. t = Tail(a)
    BY <1>3 DEF Trim
  <2>2. /\ t \in Seq(Epochs) /\ Len(t) = Len(a) - 1
        /\ \A i \in 1..Len(t) : t[i] = a[i + 1]
    BY <1>1, <2>1
  <2>3. Ordered(t)
    <3>1. SUFFICES ASSUME NEW i \in 1..Len(t), NEW j \in 1..Len(t), i < j
                   PROVE  t[i] < t[j]
      BY DEF Ordered
    <3>2. i + 1 \in 1..Len(a) /\ j + 1 \in 1..Len(a) /\ i + 1 < j + 1
      BY <1>1, <2>2, <3>1
    <3>3. QED
      BY <1>2, <2>2, <3>2 DEF Ordered
  <2>4. Len(s) = SampleLimit /\ Len(t) = SampleLimit /\ w >= SampleLimit
    BY <1>0, <1>1, <1>3, <2>2 DEF AtMost
  <2>5. t # <<>> /\ t[Len(t)] = e
    BY <1>0, <1>1, <2>2, <2>4
  <2>6. QED
    BY <1>0, <2>2, <2>3, <2>4, <2>5 DEF AtMost
<1>4. ASSUME ~(Len(a) > SampleLimit) PROVE Fine
  <2>1. t = a
    BY <1>4 DEF Trim
  <2>2. Len(a) = AtMost(SampleLimit, w + 1)
    BY <1>0, <1>1, <1>4 DEF AtMost
  <2>3. a # <<>>
    BY <1>1
  <2>4. QED
    BY <1>1, <1>2, <2>1, <2>2, <2>3
<1>5. Fine
  BY <1>3, <1>4
<1>6. QED
  BY <1>5 DEF a

\* A fold makes a sound record of a sound record.
LEMMA FoldSound ==
  ASSUME NEW record \in Record, NEW o \in Observations, Sound(o[1], record), NEW r \in Fold(record, o)
  PROVE  r \in Record /\ Sound(o[1], r)
<1>1. CASE Seen(record, o[2])
  BY <1>1 DEF Fold
<1>2. CASE ~Seen(record, o[2])
  <2>0. o[2] \in Epochs /\ o[2] \in Nat /\ record.last \in Nat /\ o[2] > record.last
    <3>1. o[2] \in Epochs
      BY DEF Observations
    <3>2. o[2] \in Nat
      BY <3>1, BaselineAssumption
    <3>3. record.last \in Nat
      BY DEF Record
    <3>4. QED
      BY <1>2, <3>1, <3>2, <3>3 DEF Seen
  <2>1. PICK rules \in Evict(Stamped(record.rules, o)) :
          r = [windows |-> record.windows + 1, last |-> o[2],
               samples |-> Trim(Append(record.samples, o[2])), rules |-> rules]
    BY <1>2 DEF Fold
  <2>2. record.rules \in Stamps /\ record.samples \in Seq(Epochs) /\ record.windows \in Nat
    BY DEF Record
  <2>3. rules \in Stamps
    BY <2>1, <2>2, StampedType, EvictKeeps
  <2>4. \A k \in DOMAIN rules : rules[k] <= o[2]
    <3>1. SUFFICES ASSUME NEW k \in DOMAIN rules
                   PROVE  rules[k] <= o[2]
      OBVIOUS
    <3>2. k \in DOMAIN Stamped(record.rules, o) /\ rules[k] = Stamped(record.rules, o)[k]
      BY <2>1, <2>2, StampedType, EvictKeeps
    <3>3. CASE k \in RulesIn[o]
      <4>1. rules[k] = o[2]
        BY <2>2, <3>2, <3>3, StampedType
      <4>2. QED
        BY <2>0, <4>1
    <3>4. CASE k \notin RulesIn[o]
      <4>1. k \in DOMAIN record.rules /\ rules[k] = record.rules[k]
        <5>1. DOMAIN Stamped(record.rules, o) = DOMAIN record.rules \cup RulesIn[o]
          BY <2>2, StampedType
        <5>2. k \in DOMAIN record.rules \ RulesIn[o]
          BY <3>2, <3>4, <5>1
        <5>3. Stamped(record.rules, o)[k] = record.rules[k]
          BY <2>2, <5>2, StampedType
        <5>4. QED
          BY <3>2, <5>2, <5>3
      <4>2. record.rules[k] <= record.last
        BY <4>1 DEF Sound
      <4>3. record.rules[k] \in Nat
        <5>1. PICK R \in SUBSET Rules : record.rules \in [R -> Epochs]
          BY <2>2 DEF Stamps
        <5>2. QED
          BY <4>1, <5>1, BaselineAssumption
      <4>4. QED
        BY <2>0, <4>1, <4>2, <4>3
    <3>5. QED
      BY <3>3, <3>4
  <2>5. \A i \in 1..Len(record.samples) : record.samples[i] < o[2]
    <3>1. SUFFICES ASSUME NEW i \in 1..Len(record.samples)
                   PROVE  record.samples[i] < o[2]
      OBVIOUS
    <3>2. record.samples # <<>> /\ record.last = record.samples[Len(record.samples)]
      BY <2>2, <3>1 DEF Sound
    <3>3. i = Len(record.samples) \/ record.samples[i] < record.samples[Len(record.samples)]
      BY <2>2, <3>1 DEF Sound, Ordered
    <3>4. record.samples[i] \in Nat
      <4>1. record.samples[i] \in Epochs
        BY <2>2, <3>1
      <4>2. QED
        BY <4>1, BaselineAssumption
    <3>5. QED
      BY <2>0, <3>2, <3>3, <3>4
  <2>6. /\ Ordered(record.samples)
        /\ Len(record.samples) = AtMost(SampleLimit, record.windows)
    BY DEF Sound
  <2> DEFINE t == Trim(Append(record.samples, o[2]))
  <2>7. /\ t \in Seq(Epochs)
        /\ Ordered(t)
        /\ t # <<>> /\ t[Len(t)] = o[2]
        /\ Len(t) = AtMost(SampleLimit, record.windows + 1)
    <3> DEFINE s == record.samples
               e == o[2]
               w == record.windows
    <3>1. s \in Seq(Epochs) /\ e \in Epochs /\ w \in Nat
      BY <2>0, <2>2
    <3>2. Ordered(s) /\ (\A i \in 1..Len(s) : s[i] < e) /\ Len(s) = AtMost(SampleLimit, w)
      BY <2>5, <2>6
    <3> HIDE DEF s, e, w
    <3>3. /\ Trim(Append(s, e)) \in Seq(Epochs)
          /\ Ordered(Trim(Append(s, e)))
          /\ Trim(Append(s, e)) # <<>>
          /\ Trim(Append(s, e))[Len(Trim(Append(s, e)))] = e
          /\ Len(Trim(Append(s, e))) = AtMost(SampleLimit, w + 1)
      BY <3>1, <3>2, TrimSound
    <3>4. QED
      BY <3>3 DEF s, e, w
  <2> HIDE DEF t
  <2>8. r = [windows |-> record.windows + 1, last |-> o[2], samples |-> t, rules |-> rules]
    BY <2>1 DEF t
  <2>9. r \in Record
    BY <2>0, <2>2, <2>3, <2>7, <2>8 DEF Record
  <2>12. \A k \in DOMAIN record.rules : record.rules[k] < o[2]
    <3>1. PICK R \in SUBSET Rules : record.rules \in [R -> Epochs]
      BY <2>2 DEF Stamps
    <3>2. \A k \in DOMAIN record.rules : record.rules[k] \in Nat /\ record.rules[k] <= record.last
      BY <3>1, BaselineAssumption DEF Sound
    <3>3. QED
      BY <2>0, <3>2
  <2>13. /\ Cardinality(DOMAIN rules) <= RuleLimit
         /\ Cardinality(RulesIn[o]) <= RuleLimit => RulesIn[o] \subseteq DOMAIN rules
    BY <2>1, <2>2, <2>12, EvictBounds
  <2>14. o = <<o[1], o[2]>>
    BY DEF Observations
  <2>10. Sound(o[1], r)
    BY <2>4, <2>7, <2>8, <2>13, <2>14 DEF Sound
  <2>11. QED
    BY <2>9, <2>10
<1>3. QED
  BY <1>1, <1>2
----------------------------------------------------------------------------
(* Types.                                                                    *)

LEMMA EndedType == Ended \in Processes /\ Nothing \in States
<1>1. Nothing \in States
  BY BlankSound DEF Nothing, States
<1>2. QED
  BY <1>1 DEF Ended, Processes

\* A process that has taken an observation is a process.
LEMMA TookType ==
  ASSUME NEW p \in Processes, NEW o \in Observations, NEW record \in Record
  PROVE  Took(p, o, record) \in Processes
<1>0. o[1] \in Agents /\ o[2] \in Epochs
  BY DEF Observations
<1>1. /\ p.running \in BOOLEAN /\ p.preview \in BOOLEAN /\ p.changed \in BOOLEAN
      /\ p.state \in States /\ p.todo \in SUBSET Observations
      /\ p.taken \in SUBSET Epochs /\ p.snapshots \in [Epochs -> States]
      /\ p.base \in States /\ p.asked \in SUBSET Observations
  BY DEF Processes
<1>2. [p.state EXCEPT ![o[1]] = record] \in States
  BY <1>0, <1>1 DEF States
<1>3. [p.snapshots EXCEPT ![o[2]] = p.state] \in [Epochs -> States]
  BY <1>0, <1>1
<1>4. p.todo \ {o} \in SUBSET Observations /\ p.taken \cup {o[2]} \in SUBSET Epochs
  BY <1>0, <1>1
<1>5. (p.changed \/ ~Seen(p.state[o[1]], o[2])) \in BOOLEAN
  BY <1>1
<1>6. QED
  BY <1>1, <1>2, <1>3, <1>4, <1>5 DEF Processes, Took

\* What a call makes of its process is a process.
LEMMA StartedType ==
  ASSUME NEW s \in States, NEW obs \in SUBSET Observations, NEW preview \in BOOLEAN
  PROVE  Started(s, obs, preview) \in Processes
<1>1. [e \in Epochs |-> Nothing] \in [Epochs -> States]
  BY EndedType
<1>2. QED
  BY <1>1 DEF Started, Processes

\* Soundness of every record, in the file and in the processes.
SoundInv ==
  /\ \A a \in Agents : Sound(a, file[a])
  /\ \A h \in Helpers, a \in Agents : Sound(a, proc[h].state[a])

Inv == TypeOK /\ SoundInv

LEMMA InvInit == Init => Inv
<1>1. SUFFICES ASSUME Init PROVE Inv
  OBVIOUS
<1>2. TypeOK
  BY <1>1, EndedType DEF Init, TypeOK
<1>3. \A a \in Agents : Sound(a, Nothing[a])
  BY BlankSound DEF Nothing
<1>4. Ended.state = Nothing
  BY DEF Ended
<1>5. SoundInv
  BY <1>1, <1>3, <1>4 DEF Init, SoundInv
<1>6. QED
  BY <1>2, <1>5 DEF Inv

\* What FoldNext does, spelled out for later use.
LEMMA FoldNextDoes ==
  ASSUME Inv, NEW h \in Helpers, FoldNext(h)
  PROVE  \E o \in Observations, record \in Record :
           /\ o \in proc[h].todo /\ \A p \in proc[h].todo : o[2] <= p[2]
           /\ o[1] \in Agents /\ o[2] \in Epochs
           /\ proc[h].state[o[1]] \in Record /\ Sound(o[1], proc[h].state[o[1]])
           /\ record \in Fold(proc[h].state[o[1]], o) /\ Sound(o[1], record)
           /\ proc' = [proc EXCEPT ![h] = Took(proc[h], o, record)]
<1>0. PICK o \in First(proc[h].todo) : \E record \in Fold(proc[h].state[o[1]], o) :
        proc' = [proc EXCEPT ![h] = Took(proc[h], o, record)]
  BY DEF FoldNext
<1>1. PICK record \in Fold(proc[h].state[o[1]], o) :
        proc' = [proc EXCEPT ![h] = Took(proc[h], o, record)]
  BY <1>0
<1>2. proc[h] \in Processes
  BY DEF Inv, TypeOK
<1>3. o \in proc[h].todo /\ \A p \in proc[h].todo : o[2] <= p[2]
  BY DEF First
<1>4. o \in Observations /\ o[1] \in Agents /\ o[2] \in Epochs
  BY <1>2, <1>3 DEF Processes, Observations
<1>5. proc[h].state[o[1]] \in Record /\ Sound(o[1], proc[h].state[o[1]])
  BY <1>2, <1>4 DEF Inv, SoundInv, Processes, States
<1>6. record \in Record /\ Sound(o[1], record)
  BY <1>4, <1>5, FoldSound
<1>7. QED
  BY <1>1, <1>3, <1>4, <1>5, <1>6

LEMMA InvStep == Inv /\ [Next]_vars => Inv'
<1>1. SUFFICES ASSUME Inv, [Next]_vars PROVE Inv'
  OBVIOUS
<1>0. /\ file \in States /\ proc \in [Helpers -> Processes] /\ calls \in Nat
      /\ handed \subseteq Observations
  BY <1>1 DEF Inv, TypeOK
<1>2. CASE UNCHANGED vars
  BY <1>1, <1>2 DEF vars, Inv, TypeOK, SoundInv
<1>3. ASSUME NEW h \in Helpers, NEW obs \in SUBSET Observations, NEW preview \in BOOLEAN,
             Call(h, obs, preview)
      PROVE  Inv'
  <2>0. file' = file
    BY <1>3 DEF Call
  <2>1. PICK s \in {file, Nothing} : proc' = [proc EXCEPT ![h] = Started(s, obs, preview)]
    BY <1>3 DEF Call
  <2>2. TypeOK'
    <3>1. proc' \in [Helpers -> Processes]
      BY <1>0, <2>1, StartedType, EndedType
    <3>2. calls' \in Nat /\ handed' \subseteq Observations
      BY <1>0, <1>3 DEF Call
    <3>3. QED
      BY <1>0, <2>0, <3>1, <3>2 DEF TypeOK
  <2>3. SoundInv'
    <3>1. \A a \in Agents : Sound(a, file'[a]) /\ Sound(a, s[a])
      BY <1>1, <2>0, BlankSound DEF Inv, SoundInv, Nothing
    <3>2. ASSUME NEW g \in Helpers, NEW a \in Agents PROVE Sound(a, proc'[g].state[a])
      <4>1. CASE g = h
        <5>1. proc'[g].state = s
          BY <1>0, <2>1, <4>1 DEF Started
        <5>2. QED
          BY <3>1, <5>1
      <4>2. CASE g # h
        BY <1>0, <1>1, <2>1, <4>2 DEF Inv, SoundInv
      <4>3. QED
        BY <4>1, <4>2
    <3>3. QED
      BY <3>1, <3>2 DEF SoundInv
  <2>4. QED
    BY <2>2, <2>3 DEF Inv
<1>4. ASSUME NEW h \in Helpers, FoldNext(h) PROVE Inv'
  <2>1. PICK o \in Observations, record \in Record :
           /\ o[1] \in Agents /\ Sound(o[1], record)
           /\ proc' = [proc EXCEPT ![h] = Took(proc[h], o, record)]
    BY <1>1, <1>4, FoldNextDoes
  <2>2. file' = file /\ calls' = calls /\ handed' = handed
    BY <1>4 DEF FoldNext
  <2>3. /\ Took(proc[h], o, record) \in Processes
        /\ Took(proc[h], o, record).state = [proc[h].state EXCEPT ![o[1]] = record]
    <3>1. proc[h] \in Processes
      BY <1>0
    <3>2. QED
      BY <3>1, TookType DEF Took
  <2>4. TypeOK'
    BY <1>0, <2>1, <2>2, <2>3 DEF TypeOK
  <2>5. ASSUME NEW g \in Helpers, NEW a \in Agents PROVE Sound(a, proc'[g].state[a])
    <3>1. CASE g = h
      <4>1. proc'[g].state = [proc[h].state EXCEPT ![o[1]] = record]
        BY <1>0, <2>1, <2>3, <3>1
      <4>2. proc[h].state \in [Agents -> Record]
        BY <1>0 DEF Processes, States
      <4>3. proc'[g].state[a] = IF a = o[1] THEN record ELSE proc[h].state[a]
        BY <4>1, <4>2
      <4>4. QED
        BY <1>1, <2>1, <4>3 DEF Inv, SoundInv
    <3>2. CASE g # h
      BY <1>0, <1>1, <2>1, <3>2 DEF Inv, SoundInv
    <3>3. QED
      BY <3>1, <3>2
  <2>6. SoundInv'
    BY <1>1, <2>2, <2>5 DEF Inv, SoundInv
  <2>7. QED
    BY <2>4, <2>6 DEF Inv
<1>5. ASSUME NEW h \in Helpers, Finish(h) \/ Die(h) PROVE Inv'
  <2>1. /\ proc' = [proc EXCEPT ![h] = Ended]
        /\ file' = file \/ file' = proc[h].state
        /\ calls' = calls /\ handed' = handed
    BY <1>5 DEF Finish, Die
  <2>2. proc[h].state \in States
    BY <1>0 DEF Processes
  <2>3. TypeOK'
    BY <1>0, <2>1, <2>2, EndedType DEF TypeOK
  <2>4. \A a \in Agents : Sound(a, file'[a])
    BY <1>1, <2>1 DEF Inv, SoundInv
  <2>5. ASSUME NEW g \in Helpers, NEW a \in Agents PROVE Sound(a, proc'[g].state[a])
    <3>1. CASE g = h
      <4>1. proc'[g].state[a] = Blank
        BY <1>0, <2>1, <3>1 DEF Ended, Nothing
      <4>2. QED
        BY <4>1, BlankSound
    <3>2. CASE g # h
      BY <1>0, <1>1, <2>1, <3>2 DEF Inv, SoundInv
    <3>3. QED
      BY <3>1, <3>2
  <2>6. QED
    BY <2>3, <2>4, <2>5 DEF Inv, SoundInv
<1>6. QED
  BY <1>1, <1>2, <1>3, <1>4, <1>5 DEF Next

LEMMA InvCorrect == Spec => []Inv
<1>1. Init => Inv
  BY InvInit
<1>2. Inv /\ [Next]_vars => Inv'
  BY InvStep
<1>3. QED
  BY <1>1, <1>2, PTL DEF Spec

\* The variables of the helper keep their types.
THEOREM BaselineTypes == Spec => []TypeOK
<1>1. Inv => TypeOK
  BY DEF Inv
<1>2. QED
  BY <1>1, InvCorrect, PTL

\* Each window is in the file once, in order, the newest last: whatever number
\* of calls overlap, die or repeat themselves.
THEOREM WindowsFoldedOnce == Spec => []FoldedOnce
<1>1. Inv => FoldedOnce
  BY DEF Inv, SoundInv, Sound, Ordered, FoldedOnce
<1>2. QED
  BY <1>1, InvCorrect, PTL

\* No more rules are remembered than the limit, the newest window's among them.
THEOREM NewestRulesKept == Spec => []RulesRemembered
<1>1. Inv => RulesRemembered
  BY DEF Inv, SoundInv, Sound, RulesRemembered
<1>2. QED
  BY <1>1, InvCorrect, PTL

\* The samples of an agent are as many as its windows, up to the limit.
THEOREM SamplesMatchWindows == Spec => []SamplesCounted
<1>1. Inv => SamplesCounted
  BY DEF Inv, SoundInv, Sound, SamplesCounted
<1>2. QED
  BY <1>1, InvCorrect, PTL

----------------------------------------------------------------------------
(* Previews leave nothing behind.                                            *)

\* Every sample of the state s was handed over in a call that keeps it.
OnlyHanded(s) ==
  \A a \in Agents : \A i \in 1..Len(s[a].samples) : <<a, s[a].samples[i]>> \in handed

HandedInv ==
  /\ OnlyHanded(file)
  /\ \A h \in Helpers : ~proc[h].preview =>
       OnlyHanded(proc[h].state) /\ proc[h].todo \subseteq handed

\* A folded series holds the old samples and the observation's window.
LEMMA FoldSamples ==
  ASSUME NEW record \in Record, NEW o \in Observations, NEW r \in Fold(record, o),
         NEW i \in 1..Len(r.samples)
  PROVE  r.samples[i] = o[2] \/ \E j \in 1..Len(record.samples) : r.samples[i] = record.samples[j]
<1>1. CASE Seen(record, o[2])
  BY <1>1 DEF Fold
<1>2. CASE ~Seen(record, o[2])
  <2> DEFINE s == record.samples
             e == o[2]
             a == Append(s, e)
  <2>1. s \in Seq(Epochs) /\ e \in Epochs
    BY DEF Record, Observations
  <2>2. r.samples = Trim(a)
    BY <1>2 DEF Fold
  <2> HIDE DEF s, e
  <2>3. /\ a \in Seq(Epochs) /\ Len(a) = Len(s) + 1
        /\ \A j \in 1..Len(a) : a[j] = IF j = Len(a) THEN e ELSE s[j]
    BY <2>1
  <2> HIDE DEF a
  <2>4. \E j \in 1..Len(a) : r.samples[i] = a[j]
    <3>1. CASE r.samples = a
      BY <3>1
    <3>2. CASE r.samples = Tail(a)
      <4>1. Len(a) \in Nat /\ Len(a) > 0 /\ Len(s) \in Nat
        BY <2>1, <2>3
      <4>2. Len(r.samples) = Len(a) - 1 /\ r.samples[i] = a[i + 1]
        BY <2>3, <3>2, <4>1
      <4>3. i + 1 \in 1..Len(a)
        BY <4>1, <4>2
      <4>4. QED
        BY <4>2, <4>3
    <3>3. QED
      BY <2>2, <3>1, <3>2 DEF Trim
  <2>5. PICK j \in 1..Len(a) : r.samples[i] = a[j]
    BY <2>4
  <2>6. r.samples[i] = e \/ \E k \in 1..Len(s) : r.samples[i] = s[k]
    <3>1. CASE j = Len(a)
      BY <2>3, <2>5, <3>1
    <3>2. CASE j # Len(a)
      <4>1. Len(s) \in Nat
        BY <2>1
      <4>2. j \in 1..Len(s)
        BY <2>3, <3>2, <4>1
      <4>3. QED
        BY <2>3, <2>5, <3>2, <4>2
    <3>3. QED
      BY <3>1, <3>2
  <2>7. QED
    BY <2>6 DEF s, e
<1>3. QED
  BY <1>1, <1>2

LEMMA HandedStep == Inv /\ HandedInv /\ [Next]_vars => HandedInv'
<1>1. SUFFICES ASSUME Inv, HandedInv, [Next]_vars PROVE HandedInv'
  OBVIOUS
<1>0. file \in States /\ proc \in [Helpers -> Processes]
  BY <1>1 DEF Inv, TypeOK
<1>2. CASE UNCHANGED vars
  BY <1>1, <1>2 DEF vars, HandedInv, OnlyHanded
<1>3. ASSUME NEW h \in Helpers, NEW obs \in SUBSET Observations, NEW preview \in BOOLEAN,
             Call(h, obs, preview)
      PROVE  HandedInv'
  <2>0. /\ file' = file
        /\ handed \subseteq handed' /\ (~preview => obs \subseteq handed')
    BY <1>3 DEF Call
  <2>1. PICK s \in {file, Nothing} : proc' = [proc EXCEPT ![h] = Started(s, obs, preview)]
    BY <1>3 DEF Call
  <2>2. OnlyHanded(file)' /\ \A t \in {s} : OnlyHanded(t)'
    <3>1. OnlyHanded(Nothing)
      BY DEF OnlyHanded, Nothing, Blank
    <3>2. QED
      BY <1>1, <2>0, <3>1 DEF HandedInv, OnlyHanded
  <2>3. ASSUME NEW g \in Helpers, ~proc'[g].preview
        PROVE  OnlyHanded(proc[g].state)' /\ proc'[g].todo \subseteq handed'
    <3>1. CASE g = h
      <4>1. proc'[g].state = s /\ proc'[g].todo = obs /\ ~preview
        BY <1>0, <2>1, <2>3, <3>1 DEF Started
      <4>2. QED
        BY <2>0, <2>2, <4>1 DEF OnlyHanded
    <3>2. CASE g # h
      <4>1. proc'[g] = proc[g]
        BY <1>0, <2>1, <3>2
      <4>2. QED
        BY <1>1, <2>0, <2>3, <4>1 DEF HandedInv, OnlyHanded
    <3>3. QED
      BY <3>1, <3>2
  <2>4. QED
    BY <2>2, <2>3 DEF HandedInv
<1>4. ASSUME NEW h \in Helpers, FoldNext(h) PROVE HandedInv'
  <2>1. PICK o \in Observations, record \in Record :
           /\ o \in proc[h].todo
           /\ o[1] \in Agents /\ o[2] \in Epochs
           /\ proc[h].state[o[1]] \in Record
           /\ record \in Fold(proc[h].state[o[1]], o)
           /\ proc' = [proc EXCEPT ![h] = Took(proc[h], o, record)]
    BY <1>1, <1>4, FoldNextDoes
  <2>2. file' = file /\ handed' = handed
    BY <1>4 DEF FoldNext
  <2>3. ASSUME NEW g \in Helpers, ~proc'[g].preview
        PROVE  OnlyHanded(proc[g].state)' /\ proc'[g].todo \subseteq handed'
    <3>1. CASE g = h
      <4>1. /\ proc'[h].preview = proc[h].preview
            /\ proc'[h].todo = proc[h].todo \ {o}
            /\ proc'[h].state = [proc[h].state EXCEPT ![o[1]] = record]
        BY <1>0, <2>1 DEF Took
      <4>2. OnlyHanded(proc[h].state) /\ proc[h].todo \subseteq handed
        BY <1>1, <2>3, <3>1, <4>1 DEF HandedInv
      <4>3. proc[h].state \in [Agents -> Record]
        BY <1>0 DEF Processes, States
      <4>4. <<o[1], o[2]>> \in handed
        <5>1. o \in handed
          BY <2>1, <4>2
        <5>2. o = <<o[1], o[2]>>
          BY DEF Observations
        <5>3. QED
          BY <5>1, <5>2
      <4>5. ASSUME NEW a \in Agents, NEW i \in 1..Len(proc'[h].state[a].samples)
            PROVE  <<a, proc'[h].state[a].samples[i]>> \in handed
        <5>1. CASE a = o[1]
          <6>1. proc'[h].state[a] = record
            BY <4>1, <4>3, <5>1
          <6>2. record.samples[i] = o[2]
                \/ \E j \in 1..Len(proc[h].state[o[1]].samples) :
                     record.samples[i] = proc[h].state[o[1]].samples[j]
            BY <2>1, <4>5, <6>1, FoldSamples
          <6>3. QED
            BY <2>1, <4>2, <4>4, <5>1, <6>1, <6>2 DEF OnlyHanded
        <5>2. CASE a # o[1]
          <6>1. proc'[h].state[a] = proc[h].state[a]
            BY <4>1, <4>3, <5>2
          <6>2. QED
            BY <4>2, <4>5, <6>1 DEF OnlyHanded
        <5>3. QED
          BY <5>1, <5>2
      <4>6. QED
        BY <2>2, <3>1, <4>1, <4>2, <4>5 DEF OnlyHanded
    <3>2. CASE g # h
      <4>1. proc'[g] = proc[g]
        BY <1>0, <2>1, <3>2
      <4>2. QED
        BY <1>1, <2>2, <2>3, <4>1 DEF HandedInv, OnlyHanded
    <3>3. QED
      BY <3>1, <3>2
  <2>4. QED
    BY <1>1, <2>2, <2>3 DEF HandedInv, OnlyHanded
<1>5. ASSUME NEW h \in Helpers, Finish(h) \/ Die(h) PROVE HandedInv'
  <2>1. /\ proc' = [proc EXCEPT ![h] = Ended] /\ handed' = handed
        /\ file' = file \/ (file' = proc[h].state /\ ~proc[h].preview)
    BY <1>5 DEF Finish, Die
  <2>2. OnlyHanded(file)'
    BY <1>1, <2>1 DEF HandedInv, OnlyHanded
  <2>3. ASSUME NEW g \in Helpers, ~proc'[g].preview
        PROVE  OnlyHanded(proc[g].state)' /\ proc'[g].todo \subseteq handed'
    <3>1. CASE g = h
      <4>1. proc'[g].state = Nothing /\ proc'[g].todo = {}
        BY <1>0, <2>1, <3>1 DEF Ended
      <4>2. \A a \in Agents : Nothing[a].samples = <<>>
        BY DEF Nothing, Blank
      <4>3. QED
        BY <4>1, <4>2 DEF OnlyHanded
    <3>2. CASE g # h
      <4>1. proc'[g] = proc[g]
        BY <1>0, <2>1, <3>2
      <4>2. QED
        BY <1>1, <2>1, <2>3, <4>1 DEF HandedInv, OnlyHanded
    <3>3. QED
      BY <3>1, <3>2
  <2>4. QED
    BY <2>2, <2>3 DEF HandedInv
<1>6. QED
  BY <1>1, <1>2, <1>3, <1>4, <1>5 DEF Next

\* A window that was only previewed never gets into the file, whatever other
\* calls run or die meanwhile.
THEOREM PreviewsLeaveNothing == Spec => []PreviewsNotKept
<1>1. Init => HandedInv
  <2>1. SUFFICES ASSUME Init PROVE HandedInv
    OBVIOUS
  <2>2. \A a \in Agents : Nothing[a].samples = <<>>
    BY DEF Nothing, Blank
  <2>3. file = Nothing /\ \A h \in Helpers : proc[h].state = Nothing /\ proc[h].todo = {}
    BY <2>1 DEF Init, Ended
  <2>4. QED
    BY <2>2, <2>3 DEF HandedInv, OnlyHanded
<1>2. Inv /\ HandedInv /\ [Next]_vars => HandedInv'
  BY HandedStep
<1>3. HandedInv => PreviewsNotKept
  BY DEF HandedInv, OnlyHanded, PreviewsNotKept
<1>4. QED
  BY <1>1, <1>2, <1>3, InvCorrect, PTL DEF Spec

----------------------------------------------------------------------------
(* What a call has folded so far, counted against the file it started from.  *)

\* The record r is b with the windows in new counted on top.
Counts(r, b, new) ==
  /\ r.windows = b.windows + Cardinality(new)
  /\ r.last >= b.last
  /\ \A e \in new : e <= r.last
  /\ r.last = b.last \/ r.last \in new

NewIn(b, a, obs) == Store!Newer(b.last, a, obs)

Before(obs, e) == {o \in obs : o[2] < e}

CountsOf(p) ==
  LET done == p.asked \ p.todo
  IN  /\ p.todo \subseteq p.asked /\ (p.changed => p.asked # {})
      /\ \A d \in done, t \in p.todo : d[2] <= t[2]
      /\ \A a \in Agents : Counts(p.state[a], p.base[a], NewIn(p.base[a], a, done))
      /\ \A e \in Epochs : e \in p.taken <=> p.preview /\ \E d \in done : d[2] = e
      /\ \A e \in p.taken, a \in Agents :
           Counts(p.snapshots[e][a], p.base[a], NewIn(p.base[a], a, Before(p.asked, e)))

CountsInv == \A h \in Helpers : IF proc[h].running THEN CountsOf(proc[h]) ELSE proc[h].taken = {}

LEMMA NewInFinite ==
  ASSUME NEW b, NEW a, NEW obs
  PROVE  /\ NewIn(b, a, obs) \subseteq Epochs
         /\ IsFiniteSet(NewIn(b, a, obs))
         /\ Cardinality(NewIn(b, a, obs)) \in Nat
<1>1. NewIn(b, a, obs) \subseteq Epochs
  BY DEF NewIn, Store!Newer
<1>2. QED
  BY <1>1, BaselineAssumption, FS_Subset, FS_CardinalityType

\* Folding the next observation in order counts it, if it is new.
LEMMA CountOne ==
  ASSUME NEW record \in Record, NEW b \in Record, NEW o \in Observations,
         NEW D \in SUBSET Observations, o \notin D, \A d \in D : d[2] <= o[2],
         Counts(record, b, NewIn(b, o[1], D)), NEW r \in Fold(record, o)
  PROVE  Counts(r, b, NewIn(b, o[1], D \cup {o}))
<1> DEFINE new == NewIn(b, o[1], D)
           next == NewIn(b, o[1], D \cup {o})
<1>1. /\ o = <<o[1], o[2]>> /\ o[1] \in Agents /\ o[2] \in Epochs
      /\ o[2] \in Nat /\ b.last \in Nat /\ record.last \in Nat
      /\ b.windows \in Nat /\ record.windows \in Nat
  <2>1. o = <<o[1], o[2]>> /\ o[1] \in Agents /\ o[2] \in Epochs
    BY DEF Observations
  <2>2. QED
    BY <2>1, BaselineAssumption DEF Record
<1>2. next = IF o[2] > b.last THEN new \cup {o[2]} ELSE new
  <2>1. \A e \in Epochs : <<o[1], e>> \in D \cup {o} <=> <<o[1], e>> \in D \/ e = o[2]
    BY <1>1
  <2>2. QED
    BY <1>1, <2>1 DEF NewIn, Store!Newer
<1>3. \A e \in new : e \in Nat /\ <<o[1], e>> \in D /\ e <= o[2]
  <2>1. SUFFICES ASSUME NEW e \in new PROVE e \in Nat /\ <<o[1], e>> \in D /\ e <= o[2]
    OBVIOUS
  <2>2. e \in Epochs /\ <<o[1], e>> \in D
    BY <2>1 DEF NewIn, Store!Newer
  <2>3. e \in Nat
    BY <2>2, BaselineAssumption
  <2>4. QED
    BY <2>2, <2>3
<1>7. /\ record.windows = b.windows + Cardinality(new)
      /\ record.last >= b.last
      /\ \A e \in new : e <= record.last
      /\ record.last = b.last \/ record.last \in new
  BY DEF Counts
<1>8. IsFiniteSet(new) /\ Cardinality(new) \in Nat
  BY NewInFinite
<1>9. SUFFICES Counts(r, b, next)
  OBVIOUS
<1> HIDE DEF new, next
<1>4. CASE Seen(record, o[2])
  <2>1. r = record
    BY <1>4 DEF Fold
  <2>2. ~(o[2] > b.last)
    <3>1. SUFFICES ASSUME o[2] > b.last PROVE FALSE
      OBVIOUS
    <3>2. o[2] <= record.last
      BY <1>4 DEF Seen
    <3>3. record.last \in new
      BY <1>1, <1>7, <3>1, <3>2
    <3>4. record.last = o[2]
      <4>1. record.last <= o[2]
        BY <1>3, <3>3
      <4>2. QED
        BY <1>1, <3>2, <4>1
    <3>5. o \in D
      BY <1>1, <1>3, <3>3, <3>4
    <3>6. QED
      BY <3>5
  <2>3. next = new
    BY <1>2, <2>2
  <2>4. QED
    BY <1>7, <2>1, <2>3 DEF Counts
<1>5. CASE ~Seen(record, o[2])
  <2>1. o[2] > record.last
    BY <1>1, <1>5 DEF Seen
  <2>2. r.windows = record.windows + 1 /\ r.last = o[2]
    BY <1>5 DEF Fold
  <2>3. o[2] > b.last
    BY <1>1, <1>7, <2>1
  <2>4. next = new \cup {o[2]}
    BY <1>2, <2>3
  <2>5. o[2] \notin new
    BY <1>1, <1>7, <2>1
  <2>6. Cardinality(next) = Cardinality(new) + 1
    BY <1>8, <2>4, <2>5, FS_AddElement
  <2>7. r.windows = b.windows + Cardinality(next)
    BY <1>1, <1>7, <1>8, <2>2, <2>6
  <2>8. \A e \in next : e <= r.last
    <3>1. SUFFICES ASSUME NEW e \in next PROVE e <= o[2]
      BY <2>2
    <3>2. CASE e = o[2]
      BY <1>1, <3>2
    <3>3. CASE e \in new
      BY <1>3, <3>3
    <3>4. QED
      BY <2>4, <3>2, <3>3
  <2>9. QED
    BY <1>1, <2>2, <2>3, <2>4, <2>7, <2>8 DEF Counts
<1>6. QED
  BY <1>4, <1>5

\* The other agents' counts are not touched by an observation of o[1].
LEMMA NewInOther ==
  ASSUME NEW b, NEW o \in Observations, NEW D \in SUBSET Observations, NEW a, a # o[1]
  PROVE  NewIn(b, a, D \cup {o}) = NewIn(b, a, D)
<1>1. \A e : <<a, e>> \in D \cup {o} <=> <<a, e>> \in D
  BY DEF Observations
<1>2. QED
  BY <1>1 DEF NewIn, Store!Newer

\* A call that has folded nothing yet.
LEMMA CountsStarted ==
  ASSUME NEW s \in States, NEW obs \in SUBSET Observations, NEW preview \in BOOLEAN
  PROVE  CountsOf(Started(s, obs, preview))
<1> DEFINE p == Started(s, obs, preview)
<1>1. /\ p.todo = obs /\ p.asked = obs /\ p.state = s /\ p.base = s /\ p.taken = {}
      /\ p.changed = FALSE
  BY DEF Started
<1> HIDE DEF p
<1>2. p.asked \ p.todo = {}
  BY <1>1
<1>3. ASSUME NEW a \in Agents PROVE Counts(s[a], s[a], NewIn(s[a], a, {}))
  <2>1. NewIn(s[a], a, {}) = {}
    BY DEF NewIn, Store!Newer
  <2>2. s[a].windows \in Nat /\ s[a].last \in Nat
    BY DEF States, Record
  <2>3. QED
    BY <2>1, <2>2, FS_EmptySet DEF Counts
<1>4. CountsOf(p)
  BY <1>1, <1>2, <1>3 DEF CountsOf
<1>5. QED
  BY <1>4 DEF p

\* A call that takes the next observation.
LEMMA CountsTook ==
  ASSUME NEW p \in Processes, CountsOf(p), NEW o \in Observations, NEW record \in Record,
         o \in p.todo, \A t \in p.todo : o[2] <= t[2],
         record \in Fold(p.state[o[1]], o)
  PROVE  CountsOf(Took(p, o, record))
<1> DEFINE q == Took(p, o, record)
           done == p.asked \ p.todo
<1>0. /\ o[1] \in Agents /\ o[2] \in Epochs /\ Epochs \subseteq Nat
      /\ p.state \in [Agents -> Record] /\ p.base \in [Agents -> Record]
      /\ p.snapshots \in [Epochs -> States]
      /\ p.todo \subseteq Observations /\ p.asked \subseteq Observations
      /\ p.preview \in BOOLEAN /\ p.taken \subseteq Epochs
  BY BaselineAssumption DEF Observations, Processes, States
<1>1. /\ q.todo = p.todo \ {o} /\ q.asked = p.asked /\ q.base = p.base /\ q.preview = p.preview
      /\ q.state = [p.state EXCEPT ![o[1]] = record]
      /\ q.taken = IF p.preview THEN p.taken \cup {o[2]} ELSE p.taken
      /\ q.snapshots = IF p.preview /\ o[2] \notin p.taken
                         THEN [p.snapshots EXCEPT ![o[2]] = p.state] ELSE p.snapshots
  BY DEF Took
<1>2. /\ p.todo \subseteq p.asked
      /\ \A d \in done, t \in p.todo : d[2] <= t[2]
      /\ \A a \in Agents : Counts(p.state[a], p.base[a], NewIn(p.base[a], a, done))
      /\ \A e \in Epochs : e \in p.taken <=> p.preview /\ \E d \in done : d[2] = e
      /\ \A e \in p.taken, a \in Agents :
           Counts(p.snapshots[e][a], p.base[a], NewIn(p.base[a], a, Before(p.asked, e)))
  BY DEF CountsOf
<1> HIDE DEF q
<1>3. q.asked \ q.todo = done \cup {o} /\ o \notin done /\ done \subseteq Observations
  BY <1>0, <1>1, <1>2
<1>4. \A d \in done : d[2] <= o[2]
  BY <1>2
<1> HIDE DEF done
<1>5. \A d \in q.asked \ q.todo, t \in q.todo : d[2] <= t[2]
  BY <1>1, <1>2, <1>3
<1>6. ASSUME NEW a \in Agents
      PROVE  Counts(q.state[a], q.base[a], NewIn(q.base[a], a, q.asked \ q.todo))
  <2>1. CASE a = o[1]
    <3>1. Counts(p.state[o[1]], p.base[o[1]], NewIn(p.base[o[1]], o[1], done))
      BY <1>0, <1>2
    <3>2. p.state[o[1]] \in Record /\ p.base[o[1]] \in Record
      BY <1>0
    <3>3. Counts(record, p.base[o[1]], NewIn(p.base[o[1]], o[1], done \cup {o}))
      BY <1>3, <1>4, <3>1, <3>2, CountOne
    <3>4. q.state[a] = record
      BY <1>0, <1>1, <2>1
    <3>5. QED
      BY <1>1, <1>3, <2>1, <3>3, <3>4
  <2>2. CASE a # o[1]
    <3>1. q.state[a] = p.state[a]
      BY <1>0, <1>1, <2>2
    <3>2. NewIn(p.base[a], a, done \cup {o}) = NewIn(p.base[a], a, done)
      BY <1>3, <2>2, NewInOther
    <3>3. QED
      BY <1>1, <1>2, <1>3, <3>1, <3>2
  <2>3. QED
    BY <2>1, <2>2
<1>7. ASSUME NEW e \in Epochs
      PROVE  e \in q.taken <=> q.preview /\ \E d \in q.asked \ q.todo : d[2] = e
  <2>1. (\E d \in q.asked \ q.todo : d[2] = e) <=> (\E d \in done : d[2] = e) \/ o[2] = e
    BY <1>3
  <2>2. e \in p.taken <=> p.preview /\ \E d \in done : d[2] = e
    BY <1>2
  <2>3. CASE p.preview
    <3>1. q.taken = p.taken \cup {o[2]} /\ q.preview
      BY <1>1, <2>3
    <3>2. QED
      BY <2>1, <2>2, <2>3, <3>1
  <2>4. CASE ~p.preview
    <3>1. q.taken = p.taken /\ ~q.preview
      BY <1>1, <2>4
    <3>2. QED
      BY <2>2, <2>4, <3>1
  <2>5. QED
    BY <2>3, <2>4
<1>8. ASSUME NEW e \in q.taken, NEW a \in Agents
      PROVE  Counts(q.snapshots[e][a], q.base[a], NewIn(q.base[a], a, Before(q.asked, e)))
  <2>1. CASE e \in p.taken
    <3>1. e \in Epochs
      BY <1>0, <2>1
    <3>2. q.snapshots[e] = p.snapshots[e]
      BY <1>0, <1>1, <2>1, <3>1
    <3>3. QED
      BY <1>1, <1>2, <2>1, <3>2
  <2>2. CASE e \notin p.taken
    <3>1. p.preview /\ e = o[2]
      BY <1>1, <2>2
    <3>2. q.snapshots[e] = p.state
      BY <1>0, <1>1, <2>2, <3>1
    <3>3. Before(p.asked, e) = done
      <4>1. ASSUME NEW d \in done PROVE d[2] < e
        <5>1. d[2] <= o[2] /\ d[2] \in Nat /\ o[2] \in Nat
          BY <1>0, <1>3, <1>4 DEF Observations
        <5>2. d[2] # e
          BY <1>0, <1>2, <2>2, <3>1
        <5>3. QED
          BY <3>1, <5>1, <5>2
      <4>2. ASSUME NEW d \in p.asked, d[2] < e PROVE d \in done
        <5>1. d \notin p.todo
          <6>1. d \in Observations /\ d[2] \in Nat /\ o[2] \in Nat
            BY <1>0 DEF Observations
          <6>2. SUFFICES ASSUME d \in p.todo PROVE FALSE
            OBVIOUS
          <6>3. o[2] <= d[2]
            BY <6>2
          <6>4. QED
            BY <3>1, <4>2, <6>1, <6>3
        <5>2. QED
          BY <5>1 DEF done
      <4>3. done \subseteq p.asked
        BY DEF done
      <4>4. QED
        BY <4>1, <4>2, <4>3 DEF Before
    <3>4. QED
      BY <1>1, <1>2, <3>2, <3>3
  <2>3. QED
    BY <2>1, <2>2
<1>9. q.todo \subseteq q.asked /\ q.asked # {}
  BY <1>1, <1>2
<1>10. CountsOf(q)
  BY <1>5, <1>6, <1>7, <1>8, <1>9 DEF CountsOf
<1>11. QED
  BY <1>10 DEF q

LEMMA CountsStep == Inv /\ CountsInv /\ [Next]_vars => CountsInv'
<1>1. SUFFICES ASSUME Inv, CountsInv, [Next]_vars PROVE CountsInv'
  OBVIOUS
<1>0. file \in States /\ proc \in [Helpers -> Processes]
  BY <1>1 DEF Inv, TypeOK
<1>2. CASE UNCHANGED vars
  BY <1>1, <1>2 DEF vars, CountsInv
<1>3. ASSUME NEW h \in Helpers, NEW q, q.running => CountsOf(q), ~q.running => q.taken = {},
             q.running \in BOOLEAN, proc' = [proc EXCEPT ![h] = q]
      PROVE  CountsInv'
  <2>1. ASSUME NEW g \in Helpers
        PROVE  IF proc'[g].running THEN CountsOf(proc'[g]) ELSE proc'[g].taken = {}
    <3>1. CASE g = h
      BY <1>0, <1>3, <3>1
    <3>2. CASE g # h
      BY <1>0, <1>1, <1>3, <3>2 DEF CountsInv
    <3>3. QED
      BY <3>1, <3>2
  <2>2. QED
    BY <2>1 DEF CountsInv
<1>4. ASSUME NEW h \in Helpers, NEW obs \in SUBSET Observations, NEW preview \in BOOLEAN,
             Call(h, obs, preview)
      PROVE  CountsInv'
  <2>1. PICK s \in {file, Nothing} : proc' = [proc EXCEPT ![h] = Started(s, obs, preview)]
    BY <1>4 DEF Call
  <2>2. CountsOf(Started(s, obs, preview)) /\ Started(s, obs, preview).running = TRUE
    BY <1>0, EndedType, CountsStarted DEF Started
  <2>3. QED
    BY <1>3, <2>1, <2>2
<1>5. ASSUME NEW h \in Helpers, FoldNext(h) PROVE CountsInv'
  <2>1. PICK o \in Observations, record \in Record :
           /\ o \in proc[h].todo /\ \A p \in proc[h].todo : o[2] <= p[2]
           /\ record \in Fold(proc[h].state[o[1]], o)
           /\ proc' = [proc EXCEPT ![h] = Took(proc[h], o, record)]
    BY <1>1, <1>5, FoldNextDoes
  <2>2. proc[h] \in Processes /\ proc[h].running /\ CountsOf(proc[h])
    BY <1>0, <1>1, <1>5 DEF CountsInv, FoldNext
  <2>3. CountsOf(Took(proc[h], o, record))
    BY <2>1, <2>2, CountsTook
  <2>4. Took(proc[h], o, record).running = proc[h].running
    BY DEF Took
  <2>5. proc[h].running = TRUE
    BY <2>2 DEF Processes
  <2>6. QED
    BY <1>3, <2>1, <2>3, <2>4, <2>5
<1>6. ASSUME NEW h \in Helpers, Finish(h) \/ Die(h) PROVE CountsInv'
  <2>1. proc' = [proc EXCEPT ![h] = Ended]
    BY <1>6 DEF Finish, Die
  <2>2. Ended.running = FALSE /\ Ended.taken = {}
    BY DEF Ended
  <2>3. QED
    BY <1>3, <2>1, <2>2
<1>7. QED
  BY <1>1, <1>2, <1>4, <1>5, <1>6 DEF Next

LEMMA CountsCorrect == Spec => []CountsInv
<1>1. Init => CountsInv
  BY DEF Init, CountsInv, Ended
<1>2. Inv /\ CountsInv /\ [Next]_vars => CountsInv'
  BY CountsStep
<1>3. QED
  BY <1>1, <1>2, InvCorrect, PTL DEF Spec

\* A preview's copy of the state before a window counts the earlier windows it
\* was asked about and no other, whatever the file and the other calls are.
THEOREM PreviewIsChronological == Spec => []HistoryBefore
<1>1. Inv /\ CountsInv => HistoryBefore
  <2>1. SUFFICES ASSUME Inv, CountsInv, NEW h \in Helpers, NEW e \in proc[h].taken, NEW a \in Agents
                 PROVE  proc[h].snapshots[e][a].windows = proc[h].base[a].windows
                          + Cardinality({f \in Epochs : /\ <<a, f>> \in proc[h].asked
                                                         /\ f < e /\ f > proc[h].base[a].last})
    BY DEF HistoryBefore
  <2>2. CountsOf(proc[h])
    BY <2>1 DEF CountsInv
  <2>3. Counts(proc[h].snapshots[e][a], proc[h].base[a],
               NewIn(proc[h].base[a], a, Before(proc[h].asked, e)))
    BY <2>2 DEF CountsOf
  <2>4. NewIn(proc[h].base[a], a, Before(proc[h].asked, e))
          = {f \in Epochs : <<a, f>> \in proc[h].asked /\ f < e /\ f > proc[h].base[a].last}
    BY DEF NewIn, Store!Newer, Before
  <2>5. QED
    BY <2>3, <2>4 DEF Counts
<1>2. QED
  BY <1>1, InvCorrect, CountsCorrect, PTL

----------------------------------------------------------------------------
(* Calls that do not overlap implement the store.                            *)

\* A record that counts the new windows is what the store makes of them.
LEMMA CountsFolded ==
  ASSUME NEW r \in Record, NEW b \in Record, NEW a \in Agents, NEW obs,
         Counts(r, b, NewIn(b, a, obs))
  PROVE  /\ r.windows = b.windows + Cardinality(Store!Newer(b.last, a, obs))
         /\ r.last = Store!Newest(b.last, Store!Newer(b.last, a, obs))
<1> DEFINE new == Store!Newer(b.last, a, obs)
<1>1. /\ r.windows = b.windows + Cardinality(new) /\ r.last >= b.last
      /\ \A e \in new : e <= r.last
      /\ r.last = b.last \/ r.last \in new
  BY DEF Counts, NewIn
<1>2. \A e \in new : e \in Nat /\ e > b.last
  BY BaselineAssumption DEF Store!Newer
<1>3. r.last \in Nat /\ b.last \in Nat
  BY DEF Record
<1> HIDE DEF new
<1>4. r.last = Store!Newest(b.last, new)
  <2>1. CASE new = {}
    BY <1>1, <2>1 DEF Store!Newest
  <2>2. CASE new # {}
    <3>1. r.last \in new
      BY <1>1, <1>2, <1>3, <2>2
    <3>2. \A e \in new : (\A f \in new : f <= e) => e = r.last
      BY <1>1, <1>2, <1>3, <3>1
    <3>3. \A f \in new : f <= r.last
      BY <1>1
    <3>4. QED
      BY <2>2, <3>1, <3>2, <3>3 DEF Store!Newest
  <2>3. QED
    BY <2>1, <2>2
<1>5. QED
  BY <1>1, <1>4 DEF new

\* The store counts as this module does.
LEMMA SameCardinality == ASSUME NEW S PROVE Store!Cardinality(S) = Cardinality(S)
BY DEF Store!Cardinality, Cardinality

\* A call in progress began with the file as it is, or with nothing.
AloneInv == \A h \in Helpers : proc[h].running => proc[h].base \in {file, Nothing}

\* A helper that runs alone does what the store promises: each of its calls adds
\* all its newer windows at once, or, if it is killed, none of them; it takes
\* windows back only if it could not read the file, and then begins anew.
THEOREM AloneImplementsStore ==
  ASSUME \A g, h \in Helpers : g = h
  PROVE  Spec => StoreSpec
<1>1. Init => Store!Init /\ AloneInv
  BY DEF Init, Store!Init, Store!Empty, Summary, Unread, Nothing, Blank, AloneInv, Ended
<1>2. Inv /\ AloneInv /\ [Next]_vars => AloneInv'
  <2>1. SUFFICES ASSUME Inv, AloneInv, [Next]_vars PROVE AloneInv'
    OBVIOUS
  <2>0. proc \in [Helpers -> Processes]
    BY <2>1 DEF Inv, TypeOK
  <2>2. CASE UNCHANGED vars
    BY <2>1, <2>2 DEF vars, AloneInv
  <2>3. ASSUME NEW h \in Helpers, NEW obs \in SUBSET Observations, NEW preview \in BOOLEAN,
               Call(h, obs, preview)
        PROVE  AloneInv'
    <3>0. file' = file
      BY <2>3 DEF Call
    <3>1. PICK s \in {file, Nothing} : proc' = [proc EXCEPT ![h] = Started(s, obs, preview)]
      BY <2>3 DEF Call
    <3>2. \A g \in Helpers : proc'[g] = Started(s, obs, preview)
      BY <2>0, <3>1
    <3>3. QED
      BY <3>0, <3>2 DEF AloneInv, Started
  <2>4. ASSUME NEW h \in Helpers, FoldNext(h) PROVE AloneInv'
    <3>1. PICK o, record : proc' = [proc EXCEPT ![h] = Took(proc[h], o, record)]
      BY <2>4 DEF FoldNext
    <3>2. file' = file /\ proc[h].running
      BY <2>4 DEF FoldNext
    <3>3. \A g \in Helpers : proc'[g].base = proc[g].base /\ proc'[g].running = proc[g].running
      BY <2>0, <3>1 DEF Took
    <3>4. QED
      BY <2>1, <3>2, <3>3 DEF AloneInv
  <2>5. ASSUME NEW h \in Helpers, Finish(h) \/ Die(h) PROVE AloneInv'
    <3>1. proc' = [proc EXCEPT ![h] = Ended]
      BY <2>5 DEF Finish, Die
    <3>2. \A g \in Helpers : proc'[g] = Ended
      BY <2>0, <3>1
    <3>3. QED
      BY <3>2 DEF AloneInv, Ended
  <2>6. QED
    BY <2>1, <2>2, <2>3, <2>4, <2>5 DEF Next
<1>3. Inv /\ CountsInv /\ AloneInv /\ [Next]_vars => [Store!Next]_<<Summary(file), Unread>>
  <2>1. SUFFICES ASSUME Inv, CountsInv, AloneInv, [Next]_vars PROVE Store!Next
    OBVIOUS
  <2>0. CASE file' = file
    <3>1. Summary(file)' = Summary(file) /\ Unread' \in BOOLEAN
      BY <2>0 DEF Summary, Unread
    <3>2. QED
      BY <3>1 DEF Store!Next, Store!Reads
  <2>2. CASE file' # file
    <3>1. PICK h \in Helpers : Finish(h)
      BY <2>1, <2>2 DEF Next, vars, Call, FoldNext, Die
    <3>2. proc \in [Helpers -> Processes]
      BY <2>1 DEF Inv, TypeOK
    <3>3. /\ file' = proc[h].state /\ proc[h].todo = {} /\ proc[h].running /\ proc[h].changed
          /\ proc' = [proc EXCEPT ![h] = Ended]
      BY <2>2, <3>1 DEF Finish
    <3> DEFINE obs == proc[h].asked  base == proc[h].base
    <3>4. CountsOf(proc[h]) /\ base \in {file, Nothing} /\ obs # {}
      BY <2>1, <3>3 DEF CountsInv, AloneInv, CountsOf
    <3>5. Unread' = FALSE
      BY <3>2, <3>3 DEF Unread, Ended
    <3>6. (Unread <=> base # file) /\ Unread \in BOOLEAN
      BY <3>3 DEF Unread
    <3>7. obs \in SUBSET Store!Observations
      BY <3>2 DEF Processes, Observations, Store!Observations
    <3>8. \A a \in Agents : Counts(file'[a], base[a], NewIn(base[a], a, obs))
      BY <3>3, <3>4 DEF CountsOf
    <3>9. \A a \in Agents : base[a] \in Record /\ file'[a] \in Record
      BY <3>2, <3>3 DEF Processes, States
    <3> HIDE DEF obs, base
    <3>10. \A a \in Agents :
             /\ file'[a].windows = base[a].windows + Cardinality(Store!Newer(base[a].last, a, obs))
             /\ file'[a].last = Store!Newest(base[a].last, Store!Newer(base[a].last, a, obs))
      BY <3>8, <3>9, CountsFolded
    <3>11. Summary(file)' = Store!Folded(Summary(base), obs)
      <4> DEFINE s == Summary(base)
      <4>1. \A a \in Agents : s[a].windows = base[a].windows /\ s[a].last = base[a].last
        BY DEF Summary
      <4>2. Summary(file)' = [a \in Agents |-> [windows |-> file'[a].windows, last |-> file'[a].last]]
        BY DEF Summary
      <4> HIDE DEF s
      <4>3. Store!Folded(s, obs)
              = [a \in Agents |->
                   [windows |-> s[a].windows + Cardinality(Store!Newer(s[a].last, a, obs)),
                    last |-> Store!Newest(s[a].last, Store!Newer(s[a].last, a, obs))]]
        BY SameCardinality DEF Store!Folded
      <4>4. Summary(file)' = Store!Folded(s, obs)
        BY <3>10, <4>1, <4>2, <4>3
      <4>5. QED
        BY <4>4 DEF s
    <3>12. CASE base = file
      BY <3>5, <3>6, <3>7, <3>11, <3>12 DEF Store!Next, Store!Fold
    <3>13. CASE base # file
      <4>1. base = Nothing /\ Summary(Nothing) = Store!Empty
        BY <3>4, <3>13 DEF Summary, Nothing, Blank, Store!Empty
      <4>2. QED
        BY <3>4, <3>5, <3>6, <3>7, <3>11, <3>13, <4>1 DEF Store!Next, Store!StartsOver
    <3>14. QED
      BY <3>12, <3>13
  <2>3. QED
    BY <2>0, <2>2
<1>4. QED
  BY <1>1, <1>2, <1>3, InvCorrect, CountsCorrect, PTL DEF Spec, StoreSpec, Store!Spec
=============================================================================
