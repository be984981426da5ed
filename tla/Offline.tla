------------------------------ MODULE Offline ------------------------------
(***************************************************************************)
(* From the archive to the model: import-ait.py, evaluate.py,              *)
(* evaluate_adaptive.py and export-model.py.                               *)
(*                                                                         *)
(* They run for long, may be stopped at any step and are then run again;   *)
(* what they meet is what the stopped runs left on disk: the cache of each *)
(* network, two files; the episodes, and after them their vocabulary; the  *)
(* table of the finished folds, rewritten whenever one is added; the rows  *)
(* of the adaptive evaluation, written at its end; the model.  A file that *)
(* is being written when the run is stopped is cut off.  The evaluations   *)
(* pass over a line that is cut; the export fails on it, and a fold on a   *)
(* vocabulary that is.                                                     *)
(***************************************************************************)
EXTENDS Naturals, Sequences, FiniteSets

CONSTANTS
  Networks,   \* the networks of the archive, sorted by name
  Columns,    \* what a finished fold measures: evaluate.py's COLUMNS
  Earlier,    \* the columns that an earlier version of the file had
  BadText,    \* the networks whose members hold bytes that are no UTF-8
  AtLeast,    \* networks needed to leave one out, 3
  Splits,     \* the sets of networks whose last ones can be left to validate on
  MaxKills,   \* bound: runs that are stopped
  MaxShort,   \* bound: reads of the archive that end early
  MaxFresh    \* bound: evaluations that start over with --fresh

Names == {Networks[i] : i \in 1 .. Len(Networks)}

ASSUME OfflineAssumption ==
  /\ Networks \in Seq(Names) /\ Cardinality(Names) = Len(Networks)
  /\ Earlier \subseteq Columns /\ Columns # {} /\ BadText \subseteq Names
  /\ AtLeast \in 1 .. Len(Networks)
  /\ Splits \subseteq SUBSET Names /\ Names \in Splits

VARIABLES
  npz, meta,  \* the two files of each network's cache
  data,       \* how much of each network is in the episodes
  vocab,      \* the vocabulary beside the episodes
  table,      \* the columns of each network's row in the results, none if it has no row
  walked,     \* the networks with a row in the adaptive evaluation's results
  ragged,     \* the files of rows that end in a line that is cut
  model,      \* the model file, and the networks it quotes a fold and an adaptive row of
  pc,         \* what runs, and at which step
  at,         \* the network it is at
  tries,      \* import: reads of this network's member that ended early
  read,       \* import: what it has read of this member
  saved,      \* evaluation: the table it holds
  done,       \* evaluation: the networks whose rows it took over
  rows,       \* evaluation: the rows to report
  kills, shorts, freshes

cache  == <<npz, meta>>
quoted == <<walked, model>>
disk   == <<cache, data, vocab, table, ragged, quoted>>
own    == <<at, tries, read, saved, done, rows>>
vars   == <<disk, pc, own, kills, shorts, freshes>>

TypeOK ==
  /\ npz \in [Names -> {"none", "cut", "short", "whole"}]
  /\ meta \in [Names -> {"none", "cut", "whole"}]
  /\ data \in [Names -> {"none", "cut", "short", "whole"}]
  /\ vocab \in {"none", "cut", "whole"} /\ read \in {"short", "whole"}
  /\ table \in [Names -> SUBSET Columns] /\ saved \in [Names -> SUBSET Columns]
  /\ walked \subseteq Names /\ ragged \subseteq {"folds", "adaptive"}
  /\ model \in [file : {"none", "cut", "whole"}, folds : SUBSET Names, layer : SUBSET Names]
  /\ pc \in {"idle", "extract", "save", "name", "write", "vocab", "folds", "rewrite", "reported",
             "record", "export"}
  /\ at \in 1 .. Len(Networks) + 1 /\ tries \in 0 .. 1
  /\ done \subseteq Names /\ rows \in [Names -> SUBSET Columns]

NoRows == [n \in Names |-> {}]

Init ==
  /\ npz = [n \in Names |-> "none"] /\ meta = npz /\ data = npz /\ vocab = "none"
  /\ table \in [Names -> {{}, Earlier}]
  /\ walked = {} /\ ragged = {} /\ model = [file |-> "none", folds |-> {}, layer |-> {}]
  /\ pc = "idle" /\ at = 1 /\ tries = 0 /\ read = "whole"
  /\ saved = NoRows /\ done = {} /\ rows = NoRows
  /\ kills = 0 /\ shorts = 0 /\ freshes = 0

Goes(p)   == pc' = p
Unbounded == UNCHANGED <<kills, shorts, freshes>>
Waiting   == pc \in {"idle", "reported"}
Here      == Networks[at]

----------------------------------------------------------------------------
(* import-ait.py                                                           *)

Import ==
  /\ Waiting /\ Goes("extract")
  /\ at' = 1 /\ tries' = 0 /\ read' = "whole"
  /\ Unbounded /\ UNCHANGED <<disk, saved, done, rows>>

\* Both files are there: the network is not read again.  Names that are cut end the run.
Cached ==
  /\ pc = "extract" /\ at <= Len(Networks)
  /\ npz[Here] # "none" /\ meta[Here] # "none"
  /\ IF meta[Here] = "cut" THEN Goes("idle") /\ at' = at
     ELSE Goes("extract") /\ at' = at + 1
  /\ Unbounded /\ UNCHANGED <<disk, tries, read, saved, done, rows>>

Reads ==
  /\ pc = "extract" /\ at <= Len(Networks)
  /\ npz[Here] = "none" \/ meta[Here] = "none"

ReadsWhole ==
  /\ Reads /\ Goes("save") /\ read' = "whole"
  /\ Unbounded /\ UNCHANGED <<disk, at, tries, saved, done, rows>>

\* Slip: after the second try the run goes on with what it has.
ShortIsKept ==
  /\ Reads /\ shorts < MaxShort /\ shorts' = shorts + 1
  /\ IF tries = 0 THEN tries' = 1 /\ Goes("extract") /\ npz' = npz
     ELSE tries' = tries /\ Goes("name") /\ npz' = [npz EXCEPT ![Here] = "short"]
  /\ UNCHANGED <<meta, data, vocab, table, ragged, quoted, at, read, saved, done, rows, kills, freshes>>

\* Fewer bytes came than the archive says there are: one more try, then the run ends.
ReadsShort ==
  /\ Reads /\ shorts < MaxShort /\ shorts' = shorts + 1
  /\ IF tries = 0 THEN tries' = 1 /\ Goes("extract") ELSE tries' = tries /\ Goes("idle")
  /\ UNCHANGED <<disk, at, read, saved, done, rows, kills, freshes>>

\* The bytes are counted after decoding: one that is no UTF-8 counts for three, and may
\* make up for what did not come.
ShortUnseen ==
  /\ Reads /\ Here \in BadText /\ shorts < MaxShort /\ shorts' = shorts + 1
  /\ Goes("save") /\ read' = "short"
  /\ UNCHANGED <<disk, at, tries, saved, done, rows, kills, freshes>>

Saves ==
  /\ pc = "save" /\ Goes("name")
  /\ npz' = [npz EXCEPT ![Here] = read]
  /\ Unbounded /\ UNCHANGED <<meta, data, vocab, table, ragged, quoted, own>>

NamesSaved ==
  /\ pc = "name" /\ Goes("extract")
  /\ meta' = [meta EXCEPT ![Here] = "whole"]
  /\ at' = at + 1 /\ tries' = 0 /\ read' = "whole"
  /\ Unbounded /\ UNCHANGED <<npz, data, vocab, table, ragged, quoted, saved, done, rows>>

\* The networks are loaded and windowed; an array that is cut does not load.
Windows ==
  /\ pc = "extract" /\ at = Len(Networks) + 1
  /\ Goes(IF \E n \in Names : npz[n] = "cut" THEN "idle" ELSE "write")
  /\ Unbounded /\ UNCHANGED <<disk, own>>

WritesEpisodes ==
  /\ pc = "write" /\ Goes("vocab")
  /\ data' = npz
  /\ Unbounded /\ UNCHANGED <<cache, vocab, table, ragged, quoted, own>>

WritesVocabulary ==
  /\ pc = "vocab" /\ Goes("idle")
  /\ vocab' = "whole"
  /\ Unbounded /\ UNCHANGED <<cache, data, table, ragged, quoted, own>>

----------------------------------------------------------------------------
(* evaluate.py                                                             *)

Sources == {n \in Names : data[n] # "none"}

\* Slip: any row of the table is taken for finished.
AnyRow(t) == {n \in Names : t[n] # {}}

Finished(t) == {n \in Names : t[n] = Columns}

\* It needs a few networks.  With --fresh the table is deleted first.
Evaluate(fresh) ==
  /\ Waiting /\ Cardinality(Sources) >= AtLeast
  /\ fresh => freshes < MaxFresh
  /\ freshes' = IF fresh THEN freshes + 1 ELSE freshes
  /\ table' = IF fresh THEN NoRows ELSE table
  /\ ragged' = IF fresh THEN ragged \ {"folds"} ELSE ragged
  /\ saved' = table' /\ done' = Finished(table')
  /\ Goes("folds") /\ at' = 1 /\ rows' = NoRows
  /\ UNCHANGED <<cache, data, vocab, quoted, tries, read, kills, shorts>>

AtFold == pc = "folds" /\ at <= Len(Networks) /\ Here \in Sources

Elsewhere ==
  /\ pc = "folds" /\ at <= Len(Networks) /\ Here \notin Sources
  /\ at' = at + 1
  /\ Unbounded /\ UNCHANGED <<disk, pc, tries, read, saved, done, rows>>

\* A row that was finished is reported as it is; one without a column ends the run.
TakesRow ==
  /\ AtFold /\ Here \in done
  /\ IF saved[Here] = Columns THEN Goes("folds") /\ at' = at + 1 ELSE Goes("idle") /\ at' = at
  /\ rows' = [rows EXCEPT ![Here] = saved[Here]]
  /\ Unbounded /\ UNCHANGED <<disk, tries, read, saved, done>>

\* Only the columns that are missing are computed.  A vocabulary is not needed, but one
\* that is there is read, and one that is cut ends the run.
Fold ==
  /\ AtFold /\ Here \notin done
  /\ IF vocab = "cut" THEN Goes("idle") /\ saved' = saved
     ELSE Goes("rewrite") /\ saved' = [saved EXCEPT ![Here] = @ \cup Columns]
  /\ Unbounded /\ UNCHANGED <<disk, at, tries, read, done, rows>>

\* Slip: the rows that have been reported are written, and not all that are held.
RowsSoFar(t) == [n \in Names |-> IF n = Here \/ rows[n] # {} THEN t[n] ELSE {}]

Written(t) == t

Rewrites ==
  /\ pc = "rewrite" /\ Goes("folds")
  /\ table' = Written(saved)
  /\ ragged' = ragged \ {"folds"}
  /\ rows' = [rows EXCEPT ![Here] = saved[Here]]
  /\ at' = at + 1
  /\ Unbounded /\ UNCHANGED <<cache, data, vocab, quoted, tries, read, saved, done>>

Reports ==
  /\ pc = "folds" /\ at = Len(Networks) + 1
  /\ Goes("reported")
  /\ Unbounded /\ UNCHANGED <<disk, own>>

----------------------------------------------------------------------------
(* evaluate_adaptive.py and export-model.py                                *)

\* Every network is walked before the first row is written.
Adaptive ==
  /\ Waiting /\ Cardinality(Sources) >= AtLeast
  /\ Goes("record")
  /\ Unbounded /\ UNCHANGED <<disk, own>>

Records ==
  /\ pc = "record" /\ Goes("idle")
  /\ walked' = Sources
  /\ ragged' = ragged \ {"adaptive"}
  /\ Unbounded /\ UNCHANGED <<cache, data, vocab, table, model, own>>

Rows(t) == {n \in Names : t[n] # {}}

SomeRows == Rows(table) # {} /\ \A n \in Rows(table) : Columns \subseteq table[n]

\* What is to be quoted can be: there are folds, each with what is quoted of it, and no
\* line of either file is cut.
Quotable == SomeRows /\ ragged = {}

Export ==
  /\ Waiting /\ Sources \in Splits /\ Quotable
  /\ Goes("export")
  /\ Unbounded /\ UNCHANGED <<disk, own>>

\* The folds and rows there are, as many as they are, travel in the file.
Exports ==
  /\ pc = "export" /\ Goes("idle")
  /\ model' = [file |-> "whole", folds |-> Rows(table), layer |-> walked]
  /\ Unbounded /\ UNCHANGED <<cache, data, vocab, table, ragged, walked, own>>

----------------------------------------------------------------------------
(* A run is stopped.                                                       *)

First(k) == {Networks[i] : i \in 1 .. k}

\* What a stopped run leaves of a file of rows: the first ones, and maybe part of the next.
Prefixes(has) ==
  {[rows |-> First(k) \cap has, cut |-> c] : k \in 0 .. Len(Networks), c \in BOOLEAN}
    \ {[rows |-> has, cut |-> TRUE]}

\* The file it was writing keeps what was written of it, and of a network whose line is
\* cut the episodes before it.
Killed ==
  /\ ~Waiting /\ kills < MaxKills /\ kills' = kills + 1
  /\ Goes("idle")
  /\ npz' \in IF pc = "save" THEN {npz, [npz EXCEPT ![Here] = "cut"]} ELSE {npz}
  /\ meta' \in IF pc = "name" THEN {meta, [meta EXCEPT ![Here] = "cut"]} ELSE {meta}
  /\ data' \in IF pc = "write"
               THEN {[n \in Names |->
                        IF n \in First(k) THEN npz[n]
                        ELSE IF k < Len(Networks) /\ n = Networks[k + 1] THEN part
                        ELSE "none"] : k \in 0 .. Len(Networks), part \in {"none", "cut"}}
               ELSE {data}
  /\ vocab' \in IF pc = "vocab" THEN {vocab, "cut"} ELSE {vocab}
  /\ \/ UNCHANGED <<table, ragged, walked>>
     \/ /\ pc = "rewrite" /\ UNCHANGED walked
        /\ \E left \in Prefixes(Rows(saved)) :
             /\ table' = [n \in Names |-> IF n \in left.rows THEN saved[n] ELSE {}]
             /\ ragged' = IF left.cut THEN ragged \cup {"folds"} ELSE ragged \ {"folds"}
     \/ /\ pc = "record" /\ UNCHANGED table
        /\ \E left \in Prefixes(Sources) :
             /\ walked' = left.rows
             /\ ragged' = IF left.cut THEN ragged \cup {"adaptive"} ELSE ragged \ {"adaptive"}
  /\ model' \in IF pc = "export" THEN {model, [file |-> "cut", folds |-> {}, layer |-> {}]}
                ELSE {model}
  /\ UNCHANGED <<own, shorts, freshes>>

ImportSteps ==
  \/ Cached \/ ReadsShort \/ ShortUnseen \/ ReadsWhole \/ Saves \/ NamesSaved
  \/ Windows \/ WritesEpisodes \/ WritesVocabulary

EvaluationSteps == Elsewhere \/ TakesRow \/ Fold \/ Rewrites \/ Reports

QuotingSteps == Records \/ Exports

Next ==
  \/ Import \/ ImportSteps
  \/ (\E fresh \in BOOLEAN : Evaluate(fresh)) \/ EvaluationSteps
  \/ Adaptive \/ Export \/ QuotingSteps
  \/ Killed

\* As far as anybody can see: a read that ended early and went unseen shows nowhere.
Imported == \A n \in Names : data[n] \in {"short", "whole"}

\* A run goes on until it ends or is stopped, and the programs are run again until they
\* are through: the import while the episodes are not whole, the others then.
Fairness ==
  /\ WF_vars(ImportSteps \/ EvaluationSteps \/ QuotingSteps)
  /\ SF_vars(Import /\ ~Imported)
  /\ SF_vars(Evaluate(FALSE) /\ Imported)
  /\ SF_vars(Adaptive /\ Imported)
  /\ SF_vars(Export /\ Imported)

Spec == Init /\ [][Next]_vars /\ Fairness

----------------------------------------------------------------------------
\* No network is windowed from a member that was read short, if all its bytes are UTF-8: a
\* read that ended early twice leaves nothing behind that a later run takes for the
\* network.  stream_alerts and extract, import-ait.py 66-145.
EpisodesFromWholeMembers ==
  \A n \in Names \ BadText : data[n] # "short" /\ (meta[n] = "whole" => npz[n] = "whole")

\* What a fold has measured stays measured: a row leaves the table, or loses a column,
\* only by --fresh or when a run is stopped while it rewrites the table, evaluate.py
\* 204-211.
FinishedFoldsKept ==
  [][\/ \A n \in Names : table[n] \subseteq table'[n]
     \/ freshes' # freshes
     \/ pc = "rewrite" /\ kills' # kills]_vars

\* However often the runs are stopped, in the end every network of the archive has its
\* row with every column in one report, a table of an earlier version included, and a
\* model is exported that quotes a fold and an adaptive row of every network, unless a run
\* was stopped while it wrote a network's names, a cache that is never mended, or while it
\* wrote the vocabulary of whole episodes, which only another import would mend.
EveryFoldReported ==
  \/ /\ <>(pc = "reported" /\ \A n \in Names : rows[n] = Columns)
     /\ <>[](model = [file |-> "whole", folds |-> Names, layer |-> Names])
  \/ <>[](\E n \in Names : meta[n] = "cut")
  \/ <>[](vocab = "cut" /\ Imported)
=============================================================================
