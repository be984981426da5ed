-------------------------- MODULE Retention_proofs --------------------------
(* What a run of configure-retention.py says when it ends is true, for any     *)
(* indices, any number of tries, and whatever goes wrong and others do.        *)
EXTENDS Retention, TLAPS

\* What a run has read so far still holds as long as nothing went wrong and nobody
\* else changed anything.
Known ==
  ~cause =>
    /\ pc = "readback" => policy # "none"
    /\ pc \in {"before", "add", "after"} => policy = "wanted"
    /\ pc \in {"add", "after"} => Foreign = {} /\ before = Present
    /\ pc = "add" => pending = Unmanaged
    /\ pc = "after" => Unmanaged = {}

Inv == TypeOK /\ Known

USE RetentionAssumption DEF RetentionAssumption

LEMMA InitInv == Init => Inv
<1> SUFFICES ASSUME Init PROVE Inv
  OBVIOUS
<1>1. TypeOK
  <2>1. cause \in BOOLEAN
    BY DEF Init
  <2>2. 0 \in 0 .. Attempts - 1 /\ 0 \in 0 .. HealthWaits - 1 /\ 0 \in 0 .. MaxFaults
        /\ 0 \in 0 .. MaxOthers
    OBVIOUS
  <2>3. index \in [Names -> {"absent", "unmanaged", "lab", "disabled", "other"}]
    BY DEF Init
  <2>4. QED BY <2>1, <2>2, <2>3 DEF Init, TypeOK, Requests
<1>2. Known
  BY DEF Init, Known
<1>3. QED BY <1>1, <1>2 DEF Inv

\* Attaching changes nothing but that indices without a policy come under the lab's.
LEMMA Attached ==
  ASSUME TypeOK, NEW S, Attaches(S)
  PROVE  /\ index' \in [Names -> {"absent", "unmanaged", "lab", "disabled", "other"}]
         /\ policy' = policy /\ Present' = Present /\ Foreign' = Foreign
         /\ Unmanaged \subseteq S => Unmanaged' = {}
BY DEF TypeOK, Attaches, Unmanaged, Present, Foreign

\* Whether a request is done or not, the variables of the indexer keep their types.
LEMMA DoneTypes ==
  ASSUME TypeOK, Does \/ UNCHANGED indexer
  PROVE  /\ policy' \in {"none", "wanted", "different"}
         /\ index' \in [Names -> {"absent", "unmanaged", "lab", "disabled", "other"}]
BY DEF TypeOK, Does, Creates, Attaches, indexer

LEMMA AnsweredKeeps == ASSUME Inv, Answered PROVE Inv'
<1> USE DEF Inv
<1>1. CASE Ready
  BY <1>1 DEF Ready, To, Kept, Quietly, indexer, TypeOK, Known, Requests
<1>2. CASE Lookup
  BY <1>2 DEF Lookup, To, Kept, Quietly, indexer, TypeOK, Known, Requests
<1>3. CASE Create
  BY <1>3 DEF Create, Creates, To, Kept, Quietly, TypeOK, Known, Requests
<1>4. CASE ReadBack
  BY <1>4 DEF ReadBack, To, Kept, Quietly, indexer, TypeOK, Known, Requests
<1>5. CASE ReadBefore
  <2>1. TypeOK'
    BY <1>5 DEF ReadBefore, ToAttach, To, Quietly, TypeOK, Requests, Present, Unmanaged
  <2>2. Present' = Present /\ Unmanaged' = Unmanaged /\ Foreign' = Foreign
    BY <1>5 DEF ReadBefore, Present, Unmanaged, Foreign
  <2>3. Known'
    BY <1>5, <2>2 DEF ReadBefore, ToAttach, To, Quietly, Known, TypeOK
  <2>4. QED BY <2>1, <2>3
<1>6. CASE Add
  <2>1. TypeOK'
    BY <1>6, Attached DEF Add, To, Kept, Quietly, TypeOK, Requests
  <2>2. Known'
    BY <1>6, Attached DEF Add, To, Kept, Quietly, Known, TypeOK
  <2>3. QED BY <2>1, <2>2
<1>7. CASE ReadAfter
  BY <1>7 DEF ReadAfter, To, Kept, Quietly, indexer, TypeOK, Known, Requests
<1>8. QED
  BY <1>1, <1>2, <1>3, <1>4, <1>5, <1>6, <1>7 DEF Answered

LEMMA WrongKeeps == ASSUME Inv, Wrong PROVE Inv'
<1> USE DEF Inv, Fault
<1>1. CASE NoAnswer
  <2>1. TypeOK'
    <3>1. cause' \in BOOLEAN
      BY <1>1 DEF NoAnswer, TypeOK
    <3>2. attempt' \in 0 .. Attempts - 1
      BY <1>1 DEF NoAnswer, To, TypeOK
    <3>3. pc' \in Requests \cup {"ready", "failed"}
      BY <1>1 DEF NoAnswer, To, TypeOK
    <3>4. faults' \in 0 .. MaxFaults /\ others' \in 0 .. MaxOthers
      BY <1>1 DEF NoAnswer, TypeOK
    <3>5. UNCHANGED <<waits, before, pending>>
      BY <1>1 DEF NoAnswer, Kept
    <3>6. QED BY <1>1, <3>1, <3>2, <3>3, <3>4, <3>5, DoneTypes DEF NoAnswer, TypeOK
  <2>2. Known'
    <3>1. CASE cause'
      BY <3>1 DEF Known
    <3>2. CASE ~cause'
      <4>1. ~cause /\ pc # "add" /\ pc' = pc /\ before' = before /\ pending' = pending
        BY <1>1, <3>2 DEF NoAnswer, Kept, To
      <4>2. CASE pc = "create"
        BY <4>1, <4>2 DEF Known
      <4>3. CASE pc # "create"
        <5>1. UNCHANGED indexer
          BY <1>1, <4>1, <4>3 DEF NoAnswer, Does
        <5>2. QED BY <4>1, <5>1 DEF Known, indexer, Present, Unmanaged, Foreign
      <4>4. QED BY <4>2, <4>3
    <3>3. QED BY <3>1, <3>2 DEF TypeOK
  <2>3. QED BY <2>1, <2>2
<1>2. CASE BadAnswer
  <2>1. TypeOK'
    BY <1>2, DoneTypes DEF BadAnswer, To, Kept, TypeOK, Requests
  <2>2. QED BY <1>2, <2>1 DEF BadAnswer, To, Known
<1>3. CASE NotReady
  <2>1. TypeOK'
    <3>1. cause' \in BOOLEAN
      BY <1>3 DEF NotReady, TypeOK
    <3>2. waits' \in 0 .. HealthWaits - 1 /\ attempt' \in 0 .. Attempts - 1
      BY <1>3 DEF NotReady, To, TypeOK
    <3>3. faults' \in 0 .. MaxFaults /\ others' \in 0 .. MaxOthers
      BY <1>3 DEF NotReady, TypeOK
    <3>4. QED BY <1>3, <3>1, <3>2, <3>3 DEF NotReady, To, TypeOK, Requests
  <2>2. Known'
    BY <1>3 DEF NotReady, To, Known
  <2>3. QED BY <2>1, <2>2
<1>4. CASE AddsSome
  <2>1. PICK S \in SUBSET pending : Attaches(S)
    BY <1>4 DEF AddsSome
  <2>2. TypeOK'
    BY <1>4, <2>1, Attached DEF AddsSome, To, Kept, TypeOK, Requests
  <2>3. QED BY <1>4, <2>2 DEF AddsSome, Known
<1>5. QED BY <1>1, <1>2, <1>3, <1>4 DEF Wrong

LEMMA OthersKeep == ASSUME Inv, Others PROVE Inv'
<1> USE DEF Inv, Other, run
<1>1. CASE PolicyChanged
  BY <1>1 DEF PolicyChanged, TypeOK, Known
<1>2. ASSUME NEW n \in Names, NewIndex(n) \/ AttachedLater(n) \/ IndexGoes(n) \/ IndexTaken(n)
      PROVE  Inv'
  <2>1. index' \in [Names -> {"absent", "unmanaged", "lab", "disabled", "other"}]
    BY <1>2 DEF NewIndex, AttachedLater, IndexGoes, IndexTaken, TypeOK
  <2>2. Other /\ policy' = policy
    BY <1>2 DEF NewIndex, AttachedLater, IndexGoes, IndexTaken
  <2>3. TypeOK'
    BY <2>1, <2>2 DEF TypeOK
  <2>4. QED BY <2>2, <2>3 DEF Known
<1>3. QED BY <1>1, <1>2 DEF Others

LEMMA NextKeeps == ASSUME Inv, [Next]_vars PROVE Inv'
<1>1. CASE Answered
  BY <1>1, AnsweredKeeps
<1>2. CASE Wrong
  BY <1>2, WrongKeeps
<1>3. CASE Others
  BY <1>3, OthersKeep
<1>4. CASE Rerun
  <2>1. TypeOK'
    <3>1. cause' \in BOOLEAN
      BY <1>4 DEF Rerun
    <3>2. QED BY <1>4, <3>1 DEF Inv, Rerun, To, TypeOK, Requests
  <2>2. Known'
    BY <1>4 DEF Rerun, To, Known
  <2>3. QED BY <2>1, <2>2 DEF Inv
<1>5. CASE UNCHANGED vars
  BY <1>5 DEF vars, Inv, TypeOK, Known, Present, Unmanaged, Foreign
<1>6. QED BY <1>1, <1>2, <1>3, <1>4, <1>5 DEF Next

\* The variables keep their types, and what a run has read holds while nothing else
\* happens: configure-retention.py 103-162.
THEOREM RetentionTypes == Spec => []TypeOK
<1>1. Inv => TypeOK
  BY DEF Inv
<1>2. QED BY InitInv, NextKeeps, <1>1, PTL DEF Spec

\* A run that says retention is ready has just seen every alert index under the
\* lab's policy, whatever went wrong before: 153-158.
THEOREM ReadyIsTrue == Spec => ReadyIsManaged
<1>1. ASSUME Inv, [Next]_vars, pc # "ready", pc' = "ready"
      PROVE  (\A n \in Present : index[n] = "lab") /\ (policy = "wanted" \/ cause)
  <2>1. ReadAfter
    BY <1>1 DEF Next, Answered, Wrong, Others, Other, run, Ready, Lookup, Create, ReadBack,
       ReadBefore, Add, NoAnswer, BadAnswer, NotReady, AddsSome, NewIndex, AttachedLater, IndexGoes,
       IndexTaken, PolicyChanged, Rerun, To, vars, Requests
  <2>2. QED BY <1>1, <2>1 DEF ReadAfter, To, AllManaged, Inv, Known, TypeOK
<1>2. Inv /\ [Next]_vars =>
        [pc # "ready" /\ pc' = "ready" =>
           /\ \A n \in Present : index[n] = "lab"
           /\ policy = "wanted" \/ cause]_vars
  BY <1>1
<1>3. QED BY InitInv, NextKeeps, <1>2, PTL DEF Spec, ReadyIsManaged

\* A run in which nothing went wrong and nobody interfered fails only where there is
\* something to review, whatever the runs before it left behind: 123-151.
THEOREM FailuresHaveACause == Spec => FailsForCause
<1>1. ASSUME Inv, [Next]_vars, pc # "failed", pc' = "failed", ~cause'
      PROVE  policy = "different" \/ Foreign # {}
  <2>1. Answered
    BY <1>1 DEF Next, Wrong, Others, Other, run, Fault, NoAnswer, BadAnswer, NotReady,
       AddsSome, NewIndex, AttachedLater, IndexGoes, IndexTaken, PolicyChanged, Rerun, To, vars
  <2>2. ~cause
    BY <1>1, <2>1 DEF Answered, Ready, Lookup, Create, ReadBack, ReadBefore, Add, ReadAfter,
       Quietly
  <2>3. policy \in {"none", "wanted", "different"}
    BY <1>1 DEF Inv, TypeOK
  <2>4. ~Ready /\ ~Create
    BY <1>1 DEF Ready, Create, To
  <2>5. CASE Lookup
    BY <1>1, <2>3, <2>5 DEF Lookup, To
  <2>6. CASE ReadBack
    BY <1>1, <2>2, <2>3, <2>6 DEF ReadBack, To, Inv, Known
  <2>7. CASE ReadBefore
    BY <1>1, <2>7 DEF ReadBefore, To
  <2>8. CASE Add
    BY <1>1, <2>2, <2>8 DEF Add, To, Inv, Known
  <2>9. CASE ReadAfter
    <3>1. Foreign = {} /\ Unmanaged = {} /\ before = Present
      BY <2>2, <2>9, <1>1 DEF ReadAfter, Inv, Known
    <3>2. ~AllManaged
      BY <1>1, <2>9 DEF ReadAfter, To
    <3>3. QED
      BY <1>1, <3>1, <3>2 DEF AllManaged, Foreign, Unmanaged, Present, Inv, TypeOK
  <2>10. QED BY <2>1, <2>4, <2>5, <2>6, <2>7, <2>8, <2>9 DEF Answered
<1>2. Inv /\ [Next]_vars =>
        [pc # "failed" /\ pc' = "failed" =>
           cause' \/ policy = "different" \/ Foreign # {}]_vars
  BY <1>1
<1>3. QED BY InitInv, NextKeeps, <1>2, PTL DEF Spec, FailsForCause
=============================================================================
