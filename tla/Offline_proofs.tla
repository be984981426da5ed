--------------------------- MODULE Offline_proofs ---------------------------
(* No step of the programs, and no stop of one, makes a network's episodes from  *)
(* less than its whole member, or takes back what a fold has measured: for any   *)
(* archive, and however often runs are stopped and reads end early, as far as    *)
(* its members are UTF-8.                                                        *)
EXTENDS Offline, TLAPS

\* What is on disk is whole as far as it is taken for whole; a cache that is being
\* written has no names yet, and one that is being named is whole.  Only a member with
\* bytes that are no UTF-8 may be short.
CacheSound ==
  /\ \A n \in Names \ BadText : /\ npz[n] # "short" /\ data[n] # "short"
                                /\ meta[n] = "whole" => npz[n] = "whole"
  /\ pc = "save" /\ Here \notin BadText => meta[Here] # "whole" /\ read = "whole"
  /\ pc = "name" /\ Here \notin BadText => npz[Here] = "whole"

\* A run that has a network in hand is at one, and an evaluation holds at least what the
\* table on disk does.
RunSound ==
  /\ pc \in {"save", "name", "rewrite"} => at <= Len(Networks)
  /\ pc \in {"folds", "rewrite"} => \A n \in Names : table[n] \subseteq saved[n]

Inv == TypeOK /\ CacheSound /\ RunSound

USE OfflineAssumption DEF OfflineAssumption

\* A network that a run is at is one of the archive.
LEMMA HereIsOne == ASSUME TypeOK, at <= Len(Networks) PROVE Here \in Names
<1>1. Len(Networks) \in Nat
  OBVIOUS
<1>2. at \in 1 .. Len(Networks)
  BY <1>1 DEF TypeOK
<1>3. QED BY <1>2 DEF Here, Names

LEMMA InitInv == Init => Inv
<1> SUFFICES ASSUME Init PROVE Inv
  OBVIOUS
<1>1. Len(Networks) \in Nat
  OBVIOUS
<1>2. table \in [Names -> SUBSET Columns]
  BY DEF Init
<1>3. at \in 1 .. Len(Networks) + 1 /\ tries \in 0 .. 1 /\ read \in {"short", "whole"}
  BY <1>1 DEF Init
<1>4. saved \in [Names -> SUBSET Columns] /\ rows \in [Names -> SUBSET Columns]
  BY DEF Init, NoRows
<1>5. TypeOK
  BY <1>2, <1>3, <1>4 DEF Init, TypeOK
<1>6. CacheSound /\ RunSound
  BY DEF Init, CacheSound, RunSound
<1>7. QED BY <1>5, <1>6 DEF Inv

LEMMA ImportKeeps == ASSUME Inv, Import \/ ImportSteps PROVE Inv'
<1> USE DEF Inv
<1>0. Len(Networks) \in Nat
  OBVIOUS
<1>1. CASE Import
  BY <1>0, <1>1 DEF Import, Goes, disk, cache, quoted, TypeOK, CacheSound, RunSound
<1>2. CASE Cached
  BY <1>0, <1>2 DEF Cached, Goes, disk, cache, quoted, TypeOK, CacheSound, RunSound
<1>3. CASE ReadsShort
  BY <1>0, <1>3 DEF ReadsShort, Reads, Goes, disk, cache, quoted, TypeOK, CacheSound, RunSound
<1>4. CASE ReadsWhole
  <2>1. Here \in Names /\ Here' = Here
    BY <1>4, HereIsOne DEF ReadsWhole, Reads, Here
  <2>2. TypeOK'
    BY <1>4 DEF ReadsWhole, Goes, disk, cache, quoted, TypeOK
  <2>3. CacheSound'
    BY <1>4, <2>1 DEF ReadsWhole, Reads, Goes, disk, cache, CacheSound
  <2>4. RunSound'
    BY <1>4 DEF ReadsWhole, Reads, Goes, RunSound
  <2>5. QED BY <2>2, <2>3, <2>4
<1>10. CASE ShortUnseen
  <2>1. Here \in Names /\ Here' = Here
    BY <1>10, HereIsOne DEF ShortUnseen, Reads, Here
  <2>2. TypeOK'
    BY <1>10 DEF ShortUnseen, Goes, disk, cache, quoted, TypeOK
  <2>3. CacheSound'
    BY <1>10, <2>1 DEF ShortUnseen, Reads, Goes, disk, cache, CacheSound
  <2>4. RunSound'
    BY <1>10 DEF ShortUnseen, Reads, Goes, RunSound
  <2>5. QED BY <2>2, <2>3, <2>4
<1>5. CASE Saves
  <2>1. Here \in Names /\ Here' = Here
    BY <1>5, HereIsOne DEF Saves, Here, own, RunSound
  <2>2. TypeOK'
    BY <1>5, <2>1 DEF Saves, Goes, quoted, own, TypeOK
  <2>3. CacheSound'
    BY <1>5, <2>1 DEF Saves, Goes, CacheSound, TypeOK
  <2>4. RunSound'
    BY <1>5 DEF Saves, Goes, own, RunSound
  <2>5. QED BY <2>2, <2>3, <2>4
<1>6. CASE NamesSaved
  <2>1. Here \in Names
    BY <1>6, HereIsOne DEF NamesSaved, RunSound
  <2>2. TypeOK'
    BY <1>0, <1>6, <2>1 DEF NamesSaved, Goes, quoted, RunSound, TypeOK
  <2>3. CacheSound'
    BY <1>6, <2>1 DEF NamesSaved, Goes, CacheSound, TypeOK
  <2>4. RunSound'
    BY <1>6 DEF NamesSaved, Goes, RunSound
  <2>5. QED BY <2>2, <2>3, <2>4
<1>7. CASE Windows
  BY <1>7 DEF Windows, Goes, disk, cache, quoted, own, TypeOK, CacheSound, RunSound
<1>8. CASE WritesEpisodes
  BY <1>8 DEF WritesEpisodes, Goes, cache, quoted, own, TypeOK, CacheSound, RunSound
<1>9. CASE WritesVocabulary
  BY <1>9 DEF WritesVocabulary, Goes, cache, quoted, own, TypeOK, CacheSound, RunSound
<1>11. QED BY <1>1, <1>2, <1>3, <1>4, <1>5, <1>6, <1>7, <1>8, <1>9, <1>10 DEF ImportSteps

LEMMA EvaluationKeeps ==
  ASSUME Inv, (\E fresh \in BOOLEAN : Evaluate(fresh)) \/ EvaluationSteps PROVE Inv'
<1> USE DEF Inv
<1>0. Len(Networks) \in Nat
  OBVIOUS
<1>1. ASSUME NEW fresh \in BOOLEAN, Evaluate(fresh) PROVE Inv'
  <2>1. table' \in [Names -> SUBSET Columns]
    BY <1>1 DEF Evaluate, NoRows, TypeOK
  <2>2. TypeOK'
    <3>1. at' \in 1 .. Len(Networks) + 1
      BY <1>0, <1>1 DEF Evaluate
    <3>2. ragged' \subseteq {"folds", "adaptive"} /\ done' \subseteq Names
      BY <1>1 DEF Evaluate, TypeOK, Finished
    <3>3. rows' \in [Names -> SUBSET Columns]
      BY <1>1 DEF Evaluate, NoRows
    <3>4. QED BY <1>1, <2>1, <3>1, <3>2, <3>3 DEF Evaluate, Goes, cache, quoted, TypeOK
  <2>3. CacheSound'
    BY <1>1 DEF Evaluate, Goes, cache, CacheSound
  <2>4. RunSound'
    BY <1>1 DEF Evaluate, Goes, RunSound
  <2>5. QED BY <2>2, <2>3, <2>4
<1>2. CASE Elsewhere
  BY <1>0, <1>2 DEF Elsewhere, disk, cache, quoted, TypeOK, CacheSound, RunSound
<1>3. CASE TakesRow
  <2>1. Here \in Names
    BY <1>3, HereIsOne DEF TakesRow, AtFold
  <2>2. TypeOK'
    BY <1>0, <1>3, <2>1 DEF TakesRow, AtFold, Goes, disk, cache, quoted, TypeOK
  <2>3. CacheSound' /\ RunSound'
    BY <1>3 DEF TakesRow, AtFold, Goes, disk, cache, CacheSound, RunSound
  <2>4. QED BY <2>2, <2>3
<1>4. CASE Fold
  <2>1. Here \in Names
    BY <1>4, HereIsOne DEF Fold, AtFold
  <2>2. TypeOK'
    BY <1>4, <2>1 DEF Fold, Goes, disk, cache, quoted, TypeOK
  <2>3. CacheSound'
    BY <1>4 DEF Fold, Goes, disk, cache, CacheSound
  <2>4. RunSound'
    BY <1>4, <2>1 DEF Fold, AtFold, Goes, disk, RunSound, TypeOK
  <2>5. QED BY <2>2, <2>3, <2>4
<1>5. CASE Rewrites
  <2>1. Here \in Names
    BY <1>5, HereIsOne DEF Rewrites, RunSound
  <2>2. TypeOK'
    BY <1>0, <1>5, <2>1 DEF Rewrites, Written, Goes, cache, quoted, RunSound, TypeOK
  <2>3. CacheSound'
    BY <1>5 DEF Rewrites, Goes, cache, CacheSound
  <2>4. RunSound'
    BY <1>5 DEF Rewrites, Written, Goes, RunSound
  <2>5. QED BY <2>2, <2>3, <2>4
<1>6. CASE Reports
  BY <1>6 DEF Reports, Goes, disk, cache, quoted, own, TypeOK, CacheSound, RunSound
<1>7. QED BY <1>1, <1>2, <1>3, <1>4, <1>5, <1>6 DEF EvaluationSteps

LEMMA QuotingKeeps == ASSUME Inv, Adaptive \/ Export \/ QuotingSteps PROVE Inv'
<1> USE DEF Inv
<1>1. CASE Adaptive
  BY <1>1 DEF Adaptive, Goes, disk, cache, quoted, own, TypeOK, CacheSound, RunSound
<1>2. CASE Export
  BY <1>2 DEF Export, Goes, disk, cache, quoted, own, TypeOK, CacheSound, RunSound
<1>3. CASE Records
  BY <1>3 DEF Records, Sources, Goes, cache, own, TypeOK, CacheSound, RunSound
<1>4. CASE Exports
  BY <1>4 DEF Exports, Rows, Goes, cache, own, TypeOK, CacheSound, RunSound
<1>5. QED BY <1>1, <1>2, <1>3, <1>4 DEF QuotingSteps

\* The files that a stopped run may leave keep their types.
LEMMA KilledTypes == ASSUME Inv, Killed PROVE TypeOK'
<1> USE DEF Inv
<1>1. npz' \in [Names -> {"none", "cut", "short", "whole"}]
  BY DEF Killed, TypeOK
<1>2. meta' \in [Names -> {"none", "cut", "whole"}]
  BY DEF Killed, TypeOK
<1>3. data' \in [Names -> {"none", "cut", "short", "whole"}]
  <2>1. CASE pc = "write"
    <3>1. PICK k \in 0 .. Len(Networks), part \in {"none", "cut"} :
            data' = [n \in Names |->
                        IF n \in First(k) THEN npz[n]
                        ELSE IF k < Len(Networks) /\ n = Networks[k + 1] THEN part
                        ELSE "none"]
      BY <2>1 DEF Killed
    <3>2. QED BY <3>1 DEF TypeOK
  <2>2. CASE pc # "write"
    BY <2>2 DEF Killed, TypeOK
  <2>3. QED BY <2>1, <2>2
<1>4. /\ table' \in [Names -> SUBSET Columns] /\ walked' \subseteq Names
      /\ ragged' \subseteq {"folds", "adaptive"}
  <2>1. CASE UNCHANGED <<table, ragged, walked>>
    BY <2>1 DEF TypeOK
  <2>2. CASE pc = "rewrite" /\ ~UNCHANGED <<table, ragged, walked>>
    <3>1. UNCHANGED walked
      BY <2>2 DEF Killed
    <3>2. PICK left \in Prefixes(Rows(saved)) :
            /\ table' = [n \in Names |-> IF n \in left.rows THEN saved[n] ELSE {}]
            /\ ragged' = IF left.cut THEN ragged \cup {"folds"} ELSE ragged \ {"folds"}
      BY <2>2 DEF Killed
    <3>3. QED BY <3>1, <3>2 DEF TypeOK
  <2>3. CASE pc = "record" /\ ~UNCHANGED <<table, ragged, walked>>
    <3>1. UNCHANGED table
      BY <2>3 DEF Killed
    <3>2. PICK left \in Prefixes(Sources) :
            /\ walked' = left.rows
            /\ ragged' = IF left.cut THEN ragged \cup {"adaptive"} ELSE ragged \ {"adaptive"}
      BY <2>3 DEF Killed
    <3>3. left.rows \subseteq Names
      BY <3>2 DEF Prefixes, Sources
    <3>4. QED BY <3>1, <3>2, <3>3 DEF TypeOK
  <2>4. CASE pc # "rewrite" /\ pc # "record"
    <3>1. table' = table /\ ragged' = ragged /\ walked' = walked
      BY <2>4, SMTT(30) DEF Killed
    <3>2. QED BY <2>1, <3>1
  <2>5. QED BY <2>1, <2>2, <2>3, <2>4
<1>5. model' \in [file : {"none", "cut", "whole"}, folds : SUBSET Names, layer : SUBSET Names]
  BY DEF Killed, TypeOK
<1>6. QED BY <1>1, <1>2, <1>3, <1>4, <1>5 DEF Killed, Goes, own, TypeOK

LEMMA KilledKeeps == ASSUME Inv, Killed PROVE Inv'
<1> USE DEF Inv
<1>1. TypeOK'
  BY KilledTypes
<1>2. ASSUME NEW n \in Names \ BadText
      PROVE  npz'[n] # "short" /\ (meta'[n] = "whole" => npz'[n] = "whole")
  <2>1. CASE pc = "save"
    <3>1. Here \in Names /\ meta' = meta
      BY <2>1, HereIsOne DEF Killed, RunSound
    <3>2. QED BY <2>1, <3>1 DEF Killed, CacheSound, TypeOK
  <2>2. CASE pc = "name"
    <3>1. Here \in Names /\ npz' = npz
      BY <2>2, HereIsOne DEF Killed, RunSound
    <3>2. QED BY <2>2, <3>1 DEF Killed, CacheSound, TypeOK
  <2>3. CASE pc \notin {"save", "name"}
    BY <2>3 DEF Killed, CacheSound
  <2>4. QED BY <2>1, <2>2, <2>3
<1>3. ASSUME NEW n \in Names \ BadText PROVE data'[n] # "short"
  <2>1. CASE pc = "write"
    <3>1. PICK k \in 0 .. Len(Networks), part \in {"none", "cut"} :
            data' = [m \in Names |->
                        IF m \in First(k) THEN npz[m]
                        ELSE IF k < Len(Networks) /\ m = Networks[k + 1] THEN part
                        ELSE "none"]
      BY <2>1 DEF Killed
    <3>2. QED BY <3>1 DEF CacheSound
  <2>2. CASE pc # "write"
    BY <2>2 DEF Killed, CacheSound
  <2>3. QED BY <2>1, <2>2
<1>4. pc' = "idle"
  BY DEF Killed, Goes
<1>5. CacheSound' /\ RunSound'
  BY <1>2, <1>3, <1>4 DEF CacheSound, RunSound
<1>6. QED BY <1>1, <1>5

LEMMA StepKeeps == ASSUME Inv, [Next]_vars PROVE Inv'
<1>1. CASE Next
  BY <1>1, ImportKeeps, EvaluationKeeps, QuotingKeeps, KilledKeeps DEF Next
<1>2. CASE UNCHANGED vars
  BY <1>2 DEF vars, disk, cache, quoted, own, Inv, TypeOK, CacheSound, RunSound, Here
<1>3. QED BY <1>1, <1>2

THEOREM Sound == Spec => []Inv
<1>1. QED BY InitInv, StepKeeps, PTL DEF Spec

\* The files and the runs keep their types: for any archive, any columns and any bounds.
THEOREM OfflineTypes == Spec => []TypeOK
<1>1. Inv => TypeOK
  BY DEF Inv
<1>2. QED BY <1>1, Sound, PTL

\* Whatever is stopped or cut short, no episodes are made from part of a member that is
\* UTF-8, and its cache that has its names is whole: extract and stream_alerts of import-ait.py.
THEOREM WholeMembersOnly == Spec => []EpisodesFromWholeMembers
<1>1. Inv => EpisodesFromWholeMembers
  BY DEF Inv, CacheSound, EpisodesFromWholeMembers
<1>2. QED BY <1>1, Sound, PTL

\* A step that is no fresh start and no stop in the middle of a rewrite leaves in the
\* table what is in it.
LEMMA RowsStay ==
  ASSUME Inv, [Next]_vars
  PROVE  \/ \A n \in Names : table[n] \subseteq table'[n]
         \/ freshes' # freshes
         \/ pc = "rewrite" /\ kills' # kills
<1> USE DEF Inv
<1>1. CASE UNCHANGED table
  BY <1>1
<1>2. CASE Rewrites
  BY <1>2 DEF Rewrites, Written, RunSound
<1>3. ASSUME NEW fresh \in BOOLEAN, Evaluate(fresh)
      PROVE  UNCHANGED table \/ freshes' # freshes
  BY <1>3 DEF Evaluate
<1>4. CASE Killed /\ ~UNCHANGED table
  BY <1>4 DEF Killed
<1>5. CASE Next /\ ~Rewrites /\ ~Killed /\ ~\E fresh \in BOOLEAN : Evaluate(fresh)
  BY <1>1, <1>5
     DEF Next, ImportSteps, EvaluationSteps, QuotingSteps, Import, Cached, ReadsShort, ShortUnseen,
         ReadsWhole, Saves, NamesSaved, Windows, WritesEpisodes, WritesVocabulary, Elsewhere, TakesRow, Fold, Reports, Adaptive,
         Export, Records, Exports, disk
<1>6. CASE UNCHANGED vars
  BY <1>1, <1>6 DEF vars, disk
<1>7. QED BY <1>1, <1>2, <1>3, <1>4, <1>5, <1>6

\* What a fold has measured leaves the table only where it is thrown away, or where a run
\* is stopped while it rewrites the table: for any archive and any table it starts from.
THEOREM MeasuredStays == Spec => FinishedFoldsKept
<1>1. Inv /\ [Next]_vars =>
        [\/ \A n \in Names : table[n] \subseteq table'[n]
         \/ freshes' # freshes
         \/ pc = "rewrite" /\ kills' # kills]_vars
  BY RowsStay
<1>2. QED BY <1>1, Sound, PTL DEF Spec, FinishedFoldsKept
=============================================================================
