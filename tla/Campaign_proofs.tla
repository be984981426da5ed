-------------------------- MODULE Campaign_proofs --------------------------
(* What Campaign promises, for any number of campaigns, faults and signals,  *)
(* and any length of the waits.                                              *)
EXTENDS Campaign, TLAPS

\* A body that is in an episode has a scenario to run.
InEpisode ==
  \A c \in Campaigns : pc[c] \in {"step", "held", "running", "ran", "find"} => steps[c] # <<>>

\* A body that was ever spawned was so by its start.
Spawned == \A c \in Campaigns : pc[c] # "off" => start[c] \in {"spawned", "told"}

Shape == InEpisode /\ Spawned

LEMMA KindType == \A kind \in Kinds : kind \in Seq({"S1", "S2", "S3"}) /\ kind # <<>>
<1> DEFINE Steps == Seq({"S1", "S2", "S3"})
<1>1. <<"S1">> \in Steps /\ <<"S2">> \in Steps /\ <<"S3">> \in Steps
  OBVIOUS
<1>2. <<"S2", "S3">> \in Steps /\ <<"S1", "S2", "S3">> \in Steps
  OBVIOUS
<1>3. \A kind \in Kinds : kind # <<>>
  BY DEF Kinds
<1>4. QED BY <1>1, <1>2, <1>3 DEF Kinds

LEMMA TypeKept ==
  ASSUME TypeOK, Shape, [Next]_vars
  PROVE  TypeOK' /\ Shape'
<1> USE CampaignAssumption
      DEF CampaignAssumption, TypeOK, Shape, InEpisode, Spawned, InProgress, starting,
          episode, accounts, bounds
<1>1. ASSUME NEW c \in Campaigns, StartChecks(c) PROVE TypeOK' /\ Shape'
  BY <1>1 DEF StartChecks
<1>2. ASSUME NEW c \in Campaigns, StartMakesDirectory(c) PROVE TypeOK' /\ Shape'
  BY <1>2 DEF StartMakesDirectory
<1>3. ASSUME NEW c \in Campaigns, StartSpawns(c) PROVE TypeOK' /\ Shape'
  BY <1>3 DEF StartSpawns
<1>4. ASSUME NEW c \in Campaigns, StartWritesPid(c) PROVE TypeOK' /\ Shape'
  BY <1>4 DEF StartWritesPid
<1>5. ASSUME NEW c \in Campaigns, Signal(c) PROVE TypeOK' /\ Shape'
  BY <1>5 DEF Signal
<1>6. ASSUME NEW c \in Campaigns, SetsTrap(c) PROVE TypeOK' /\ Shape'
  BY <1>6 DEF SetsTrap, Ready, Go
<1>7. ASSUME NEW c \in Campaigns, Sweeps(c) PROVE TypeOK' /\ Shape'
  BY <1>7 DEF Sweeps, Ready, Go, RemoveStaff
<1>8. ASSUME NEW c \in Campaigns, CreatesStaff(c) PROVE TypeOK' /\ Shape'
  BY <1>8 DEF CreatesStaff, Ready, Go
<1>9. ASSUME NEW c \in Campaigns, CreationFails(c) PROVE TypeOK' /\ Shape'
  BY <1>9 DEF CreationFails, Ready, Finish, Go
<1>10. ASSUME NEW c \in Campaigns, Settles(c) PROVE TypeOK' /\ Shape'
  BY <1>10 DEF Settles, Ready, Go
<1>11. ASSUME NEW c \in Campaigns, ReachesDeadline(c) PROVE TypeOK' /\ Shape'
  BY <1>11 DEF ReachesDeadline, Finish, Go
<1>12. ASSUME NEW c \in Campaigns, SeesStop(c) PROVE TypeOK' /\ Shape'
  BY <1>12 DEF SeesStop, Finish, Go
<1>13. ASSUME NEW c \in Campaigns, PicksEpisode(c) PROVE TypeOK' /\ Shape'
  <2>1. PICK kind \in Kinds : steps' = [steps EXCEPT ![c] = kind]
    BY <1>13 DEF PicksEpisode
  <2>2. kind \in Seq({"S1", "S2", "S3"}) /\ kind # <<>>
    BY KindType
  <2>3. QED BY <1>13, <2>1, <2>2 DEF PicksEpisode, Ready, Go
<1>14. ASSUME NEW c \in Campaigns, Holds(c) PROVE TypeOK' /\ Shape'
  BY <1>14 DEF Holds, Ready, Go
<1>15. ASSUME NEW c \in Campaigns, RunsScenario(c) PROVE TypeOK' /\ Shape'
  BY <1>15 DEF RunsScenario, Ready, Go
<1>16. ASSUME NEW c \in Campaigns, ScenarioEnds(c) PROVE TypeOK' /\ Shape'
  <2>1. evidence' \in BOOLEAN
    BY <1>16, Zenon DEF ScenarioEnds
  <2>2. sinceS1' \in [Campaigns -> 0..Gap]
    BY <1>16 DEF ScenarioEnds
  <2>3. QED BY <1>16, <2>1, <2>2 DEF ScenarioEnds, Go
<1>17. ASSUME NEW c \in Campaigns, NotesEnd(c) PROVE TypeOK' /\ Shape'
  BY <1>17 DEF NotesEnd, Ready, Go
<1>18. ASSUME NEW c \in Campaigns, Records(c) PROVE TypeOK' /\ Shape'
  BY <1>18 DEF Records, Ready, Go
<1>19. ASSUME NEW c \in Campaigns, FindFails(c) PROVE TypeOK' /\ Shape'
  BY <1>19 DEF FindFails, Ready, Finish, Go
<1>20. ASSUME NEW c \in Campaigns, DiesUntrapped(c) PROVE TypeOK' /\ Shape'
  BY <1>20 DEF DiesUntrapped, Die
<1>21. ASSUME NEW c \in Campaigns, IsInterrupted(c) PROVE TypeOK' /\ Shape'
  BY <1>21 DEF IsInterrupted, Finish, Go
<1>22. ASSUME NEW c \in Campaigns, FinishRemovesStaff(c) PROVE TypeOK' /\ Shape'
  BY <1>22 DEF FinishRemovesStaff, Ready, Go, RemoveStaff
<1>23. ASSUME NEW c \in Campaigns, FinishWritesState(c) PROVE TypeOK' /\ Shape'
  BY <1>23 DEF FinishWritesState, Ready, Go
<1>24. ASSUME NEW c \in Campaigns, FinishRemovesPid(c) PROVE TypeOK' /\ Shape'
  BY <1>24 DEF FinishRemovesPid, Ready, Die
<1>25. ASSUME NEW c \in Campaigns, FinishIsCut(c) PROVE TypeOK' /\ Shape'
  BY <1>25 DEF FinishIsCut, Die
<1>26. CASE Stop
  BY <1>26 DEF Stop, Answers
<1>27. CASE PowerCut
  BY <1>27 DEF PowerCut, Die, InProgress, Alive
<1>28. CASE Tick
  BY <1>28 DEF Tick, Older, Alive
<1>29. CASE UNCHANGED vars
  BY <1>29 DEF vars
<1>30. QED
  BY <1>1, <1>2, <1>3, <1>4, <1>5, <1>6, <1>7, <1>8, <1>9, <1>10, <1>11, <1>12, <1>13, <1>14,
     <1>15, <1>16, <1>17, <1>18, <1>19, <1>20, <1>21, <1>22, <1>23, <1>24, <1>25, <1>26, <1>27,
     <1>28, <1>29 DEF Next, Start, Body

LEMMA TypesAndShape == Spec => [](TypeOK /\ Shape)
<1>1. ASSUME Init PROVE TypeOK /\ Shape
  <2>1. evidence \in BOOLEAN /\ orphaned \in BOOLEAN
    BY <1>1, Zenon DEF Init
  <2>2. steps \in [Campaigns -> Seq({"S1", "S2", "S3"})]
    BY <1>1 DEF Init
  <2>3. Shape
    BY <1>1 DEF Init, Shape, InEpisode, Spawned
  <2>4. QED BY <1>1, <2>1, <2>2, <2>3, CampaignAssumption DEF CampaignAssumption, Init, TypeOK
<1>2. TypeOK /\ Shape /\ [Next]_vars => TypeOK' /\ Shape'
  BY TypeKept
<1>3. QED BY <1>1, <1>2, PTL DEF Spec

\* In every reachable state the variables have their types.
THEOREM CampaignTypes == Spec => []TypeOK
<1>1. Spec => [](TypeOK /\ Shape)
  BY TypesAndShape
<1>2. QED BY <1>1, PTL

LEMMA StaffKept ==
  ASSUME TypeOK, Shape, StaffComeOut, [Next]_vars
  PROVE  StaffComeOut'
<1> USE CampaignAssumption
      DEF CampaignAssumption, TypeOK, Shape, Spawned, StaffComeOut, Recording, starting,
          episode, accounts, bounds
<1>1. ASSUME NEW c \in Campaigns, StartChecks(c) PROVE StaffComeOut'
  BY <1>1 DEF StartChecks
<1>2. ASSUME NEW c \in Campaigns, StartMakesDirectory(c) PROVE StaffComeOut'
  BY <1>2 DEF StartMakesDirectory
<1>3. ASSUME NEW c \in Campaigns, StartSpawns(c) PROVE StaffComeOut'
  BY <1>3 DEF StartSpawns
<1>4. ASSUME NEW c \in Campaigns, StartWritesPid(c) PROVE StaffComeOut'
  BY <1>4 DEF StartWritesPid
<1>5. ASSUME NEW c \in Campaigns, Signal(c) PROVE StaffComeOut'
  BY <1>5 DEF Signal
<1>6. ASSUME NEW c \in Campaigns, SetsTrap(c) PROVE StaffComeOut'
  BY <1>6 DEF SetsTrap, Ready, Go
<1>7. ASSUME NEW c \in Campaigns, Sweeps(c) PROVE StaffComeOut'
  BY <1>7 DEF Sweeps, Ready, Go, RemoveStaff
<1>8. ASSUME NEW c \in Campaigns, CreatesStaff(c) PROVE StaffComeOut'
  BY <1>8 DEF CreatesStaff, Ready, Go
<1>9. ASSUME NEW c \in Campaigns, CreationFails(c) PROVE StaffComeOut'
  BY <1>9 DEF CreationFails, Ready, Finish, Go
<1>10. ASSUME NEW c \in Campaigns, Settles(c) PROVE StaffComeOut'
  BY <1>10 DEF Settles, Ready, Go
<1>11. ASSUME NEW c \in Campaigns, ReachesDeadline(c) PROVE StaffComeOut'
  BY <1>11 DEF ReachesDeadline, Finish, Go
<1>12. ASSUME NEW c \in Campaigns, SeesStop(c) PROVE StaffComeOut'
  BY <1>12 DEF SeesStop, Finish, Go
<1>13. ASSUME NEW c \in Campaigns, PicksEpisode(c) PROVE StaffComeOut'
  BY <1>13 DEF PicksEpisode, Ready, Go, Kinds
<1>14. ASSUME NEW c \in Campaigns, Holds(c) PROVE StaffComeOut'
  BY <1>14 DEF Holds, Ready, Go
<1>15. ASSUME NEW c \in Campaigns, RunsScenario(c) PROVE StaffComeOut'
  BY <1>15 DEF RunsScenario, Ready, Go
<1>16. ASSUME NEW c \in Campaigns, ScenarioEnds(c) PROVE StaffComeOut'
  BY <1>16 DEF ScenarioEnds, Go
<1>17. ASSUME NEW c \in Campaigns, NotesEnd(c) PROVE StaffComeOut'
  BY <1>17 DEF NotesEnd, Ready, Go
<1>18. ASSUME NEW c \in Campaigns, Records(c) PROVE StaffComeOut'
  BY <1>18 DEF Records, Ready, Go
<1>19. ASSUME NEW c \in Campaigns, FindFails(c) PROVE StaffComeOut'
  BY <1>19 DEF FindFails, Ready, Finish, Go
<1>20. ASSUME NEW c \in Campaigns, DiesUntrapped(c) PROVE StaffComeOut'
  BY <1>20 DEF DiesUntrapped, Die
<1>21. ASSUME NEW c \in Campaigns, IsInterrupted(c) PROVE StaffComeOut'
  BY <1>21 DEF IsInterrupted, Finish, Go
<1>22. ASSUME NEW c \in Campaigns, FinishRemovesStaff(c) PROVE StaffComeOut'
  BY <1>22 DEF FinishRemovesStaff, Ready, Go, RemoveStaff
<1>23. ASSUME NEW c \in Campaigns, FinishWritesState(c) PROVE StaffComeOut'
  BY <1>23 DEF FinishWritesState, Ready, Go
<1>24. ASSUME NEW c \in Campaigns, FinishRemovesPid(c) PROVE StaffComeOut'
  BY <1>24 DEF FinishRemovesPid, Ready, Die
<1>25. ASSUME NEW c \in Campaigns, FinishIsCut(c) PROVE StaffComeOut'
  BY <1>25 DEF FinishIsCut, Die
<1>26. CASE Stop
  BY <1>26 DEF Stop, Answers
<1>27. CASE PowerCut
  BY <1>27 DEF PowerCut, Die, InProgress, Alive
<1>28. CASE Tick
  BY <1>28 DEF Tick, Older, Alive
<1>29. CASE UNCHANGED vars
  BY <1>29 DEF vars
<1>30. QED
  BY <1>1, <1>2, <1>3, <1>4, <1>5, <1>6, <1>7, <1>8, <1>9, <1>10, <1>11, <1>12, <1>13, <1>14,
     <1>15, <1>16, <1>17, <1>18, <1>19, <1>20, <1>21, <1>22, <1>23, <1>24, <1>25, <1>26, <1>27,
     <1>28, <1>29 DEF Next, Start, Body

\* For any campaigns, signals and faults the standing accounts come out, however a campaign ends.
THEOREM StaffAlwaysComeOut == Spec => []StaffComeOut
<1>1. Init => StaffComeOut
  BY DEF Init, StaffComeOut
<1>2. TypeOK /\ Shape /\ StaffComeOut /\ [Next]_vars => StaffComeOut'
  BY StaffKept
<1>3. QED BY <1>1, <1>2, TypesAndShape, PTL DEF Spec

\* Who is alive is known: it has its pid file, or its start is the only one in progress.
Known ==
  /\ \A c, d \in Campaigns : InProgress(c) /\ InProgress(d) => c = d
  /\ \A c \in Campaigns : Alive(c) /\ start[c] = "told" => c \in pidfile
  /\ \A c, d \in Campaigns : InProgress(c) /\ Alive(d) => c = d

LEMMA OneKept ==
  ASSUME Alone, TypeOK, Shape, Known, OneCampaign, [Next]_vars
  PROVE  Known' /\ OneCampaign'
<1> USE CampaignAssumption
      DEF CampaignAssumption, TypeOK, Shape, Spawned, Known, OneCampaign, InProgress, Alive,
          starting, episode, accounts, bounds
<1>1. ASSUME NEW c \in Campaigns, StartChecks(c) PROVE Known' /\ OneCampaign'
  BY <1>1 DEF StartChecks, Answers
<1>2. ASSUME NEW c \in Campaigns, StartMakesDirectory(c) PROVE Known' /\ OneCampaign'
  BY <1>2 DEF StartMakesDirectory
<1>3. ASSUME NEW c \in Campaigns, StartSpawns(c) PROVE Known' /\ OneCampaign'
  BY <1>3 DEF StartSpawns
<1>4. ASSUME NEW c \in Campaigns, StartWritesPid(c) PROVE Known' /\ OneCampaign'
  BY <1>4 DEF StartWritesPid
<1>5. ASSUME NEW c \in Campaigns, Signal(c) PROVE Known' /\ OneCampaign'
  BY <1>5 DEF Signal
<1>6. ASSUME NEW c \in Campaigns, SetsTrap(c) PROVE Known' /\ OneCampaign'
  BY <1>6 DEF SetsTrap, Ready, Go
<1>7. ASSUME NEW c \in Campaigns, Sweeps(c) PROVE Known' /\ OneCampaign'
  BY <1>7 DEF Sweeps, Ready, Go, RemoveStaff
<1>8. ASSUME NEW c \in Campaigns, CreatesStaff(c) PROVE Known' /\ OneCampaign'
  BY <1>8 DEF CreatesStaff, Ready, Go
<1>9. ASSUME NEW c \in Campaigns, CreationFails(c) PROVE Known' /\ OneCampaign'
  BY <1>9 DEF CreationFails, Ready, Finish, Go
<1>10. ASSUME NEW c \in Campaigns, Settles(c) PROVE Known' /\ OneCampaign'
  BY <1>10 DEF Settles, Ready, Go
<1>11. ASSUME NEW c \in Campaigns, ReachesDeadline(c) PROVE Known' /\ OneCampaign'
  BY <1>11 DEF ReachesDeadline, Finish, Go
<1>12. ASSUME NEW c \in Campaigns, SeesStop(c) PROVE Known' /\ OneCampaign'
  BY <1>12 DEF SeesStop, Finish, Go
<1>13. ASSUME NEW c \in Campaigns, PicksEpisode(c) PROVE Known' /\ OneCampaign'
  BY <1>13 DEF PicksEpisode, Ready, Go, Kinds
<1>14. ASSUME NEW c \in Campaigns, Holds(c) PROVE Known' /\ OneCampaign'
  BY <1>14 DEF Holds, Ready, Go
<1>15. ASSUME NEW c \in Campaigns, RunsScenario(c) PROVE Known' /\ OneCampaign'
  BY <1>15 DEF RunsScenario, Ready, Go
<1>16. ASSUME NEW c \in Campaigns, ScenarioEnds(c) PROVE Known' /\ OneCampaign'
  BY <1>16 DEF ScenarioEnds, Go
<1>17. ASSUME NEW c \in Campaigns, NotesEnd(c) PROVE Known' /\ OneCampaign'
  BY <1>17 DEF NotesEnd, Ready, Go
<1>18. ASSUME NEW c \in Campaigns, Records(c) PROVE Known' /\ OneCampaign'
  BY <1>18 DEF Records, Ready, Go
<1>19. ASSUME NEW c \in Campaigns, FindFails(c) PROVE Known' /\ OneCampaign'
  BY <1>19 DEF FindFails, Ready, Finish, Go
<1>20. ASSUME NEW c \in Campaigns, DiesUntrapped(c) PROVE Known' /\ OneCampaign'
  BY <1>20 DEF DiesUntrapped, Die
<1>21. ASSUME NEW c \in Campaigns, IsInterrupted(c) PROVE Known' /\ OneCampaign'
  BY <1>21 DEF IsInterrupted, Finish, Go
<1>22. ASSUME NEW c \in Campaigns, FinishRemovesStaff(c) PROVE Known' /\ OneCampaign'
  BY <1>22 DEF FinishRemovesStaff, Ready, Go, RemoveStaff
<1>23. ASSUME NEW c \in Campaigns, FinishWritesState(c) PROVE Known' /\ OneCampaign'
  BY <1>23 DEF FinishWritesState, Ready, Go
<1>24. ASSUME NEW c \in Campaigns, FinishRemovesPid(c) PROVE Known' /\ OneCampaign'
  BY <1>24 DEF FinishRemovesPid, Ready, Die
<1>25. ASSUME NEW c \in Campaigns, FinishIsCut(c) PROVE Known' /\ OneCampaign'
  BY <1>25 DEF FinishIsCut, Die
<1>26. CASE Stop
  BY <1>26 DEF Stop, Answers
<1>27. CASE PowerCut
  BY <1>27 DEF PowerCut, Die, InProgress, Alive
<1>28. CASE Tick
  BY <1>28 DEF Tick, Older, Alive
<1>29. CASE UNCHANGED vars
  BY <1>29 DEF vars
<1>30. QED
  BY <1>1, <1>2, <1>3, <1>4, <1>5, <1>6, <1>7, <1>8, <1>9, <1>10, <1>11, <1>12, <1>13, <1>14,
     <1>15, <1>16, <1>17, <1>18, <1>19, <1>20, <1>21, <1>22, <1>23, <1>24, <1>25, <1>26, <1>27,
     <1>28, <1>29 DEF Next, Start, Body

\* Where starts are typed one after the other, no two campaigns ever run together.
THEOREM OneAtATime == ASSUME Alone PROVE Spec => []OneCampaign
<1>1. Init => Known /\ OneCampaign
  BY DEF Init, Known, OneCampaign, InProgress, Alive
<1>2. TypeOK /\ Shape /\ Known /\ OneCampaign /\ [Next]_vars => Known' /\ OneCampaign'
  BY OneKept
<1>3. QED BY <1>1, <1>2, TypesAndShape, PTL DEF Spec

\* The wait after the creation of the accounts is never cut short.
Settling ==
  \A c \in Campaigns : pc[c] = "settle" => timer[c] + settled >= Settle

LEMMA SettledKept ==
  ASSUME TypeOK, OneCampaign, Settling, SetupOutside, [Next]_vars
  PROVE  Settling' /\ SetupOutside'
<1> USE CampaignAssumption
      DEF CampaignAssumption, TypeOK, OneCampaign, Settling, SetupOutside, Recording, Alive,
          starting, episode, accounts, bounds
<1>1. ASSUME NEW c \in Campaigns, StartChecks(c) PROVE Settling' /\ SetupOutside'
  BY <1>1 DEF StartChecks
<1>2. ASSUME NEW c \in Campaigns, StartMakesDirectory(c) PROVE Settling' /\ SetupOutside'
  BY <1>2 DEF StartMakesDirectory
<1>3. ASSUME NEW c \in Campaigns, StartSpawns(c) PROVE Settling' /\ SetupOutside'
  BY <1>3 DEF StartSpawns
<1>4. ASSUME NEW c \in Campaigns, StartWritesPid(c) PROVE Settling' /\ SetupOutside'
  BY <1>4 DEF StartWritesPid
<1>5. ASSUME NEW c \in Campaigns, Signal(c) PROVE Settling' /\ SetupOutside'
  BY <1>5 DEF Signal
<1>6. ASSUME NEW c \in Campaigns, SetsTrap(c) PROVE Settling' /\ SetupOutside'
  BY <1>6 DEF SetsTrap, Ready, Go
<1>7. ASSUME NEW c \in Campaigns, Sweeps(c) PROVE Settling' /\ SetupOutside'
  BY <1>7 DEF Sweeps, Ready, Go, RemoveStaff
<1>8. ASSUME NEW c \in Campaigns, CreatesStaff(c) PROVE Settling' /\ SetupOutside'
  <2>1. \A d \in Campaigns \ {c} : pc[d] \in {"off", "gone"}
    BY <1>8 DEF CreatesStaff, Ready
  <2>2. /\ pc' = [pc EXCEPT ![c] = "settle"]
        /\ timer' = [timer EXCEPT ![c] = Settle]
        /\ settled' = 0
    BY <1>8 DEF CreatesStaff, Go
  <2>3. \A d \in Campaigns : pc'[d] \notin {"loop", "step", "held", "running", "ran", "find"}
    BY <2>1, <2>2
  <2>4. SetupOutside'
    BY <2>3
  <2>5. ASSUME NEW d \in Campaigns, pc'[d] = "settle"
        PROVE  timer'[d] + settled' >= Settle
    <3>1. d = c
      BY <2>1, <2>2, <2>5
    <3>2. timer'[d] = Settle /\ settled' = 0
      BY <3>1, <2>2
    <3>3. QED BY <3>2
  <2>6. QED BY <2>4, <2>5
<1>9. ASSUME NEW c \in Campaigns, CreationFails(c) PROVE Settling' /\ SetupOutside'
  BY <1>9 DEF CreationFails, Ready, Finish, Go
<1>10. ASSUME NEW c \in Campaigns, Settles(c) PROVE Settling' /\ SetupOutside'
  BY <1>10 DEF Settles, Ready, Go
<1>11. ASSUME NEW c \in Campaigns, ReachesDeadline(c) PROVE Settling' /\ SetupOutside'
  BY <1>11 DEF ReachesDeadline, Finish, Go
<1>12. ASSUME NEW c \in Campaigns, SeesStop(c) PROVE Settling' /\ SetupOutside'
  BY <1>12 DEF SeesStop, Finish, Go
<1>13. ASSUME NEW c \in Campaigns, PicksEpisode(c) PROVE Settling' /\ SetupOutside'
  BY <1>13 DEF PicksEpisode, Ready, Go, Kinds
<1>14. ASSUME NEW c \in Campaigns, Holds(c) PROVE Settling' /\ SetupOutside'
  BY <1>14 DEF Holds, Ready, Go
<1>15. ASSUME NEW c \in Campaigns, RunsScenario(c) PROVE Settling' /\ SetupOutside'
  BY <1>15 DEF RunsScenario, Ready, Go
<1>16. ASSUME NEW c \in Campaigns, ScenarioEnds(c) PROVE Settling' /\ SetupOutside'
  BY <1>16 DEF ScenarioEnds, Go
<1>17. ASSUME NEW c \in Campaigns, NotesEnd(c) PROVE Settling' /\ SetupOutside'
  BY <1>17 DEF NotesEnd, Ready, Go
<1>18. ASSUME NEW c \in Campaigns, Records(c) PROVE Settling' /\ SetupOutside'
  BY <1>18 DEF Records, Ready, Go
<1>19. ASSUME NEW c \in Campaigns, FindFails(c) PROVE Settling' /\ SetupOutside'
  BY <1>19 DEF FindFails, Ready, Finish, Go
<1>20. ASSUME NEW c \in Campaigns, DiesUntrapped(c) PROVE Settling' /\ SetupOutside'
  BY <1>20 DEF DiesUntrapped, Die
<1>21. ASSUME NEW c \in Campaigns, IsInterrupted(c) PROVE Settling' /\ SetupOutside'
  BY <1>21 DEF IsInterrupted, Finish, Go
<1>22. ASSUME NEW c \in Campaigns, FinishRemovesStaff(c) PROVE Settling' /\ SetupOutside'
  BY <1>22 DEF FinishRemovesStaff, Ready, Go, RemoveStaff
<1>23. ASSUME NEW c \in Campaigns, FinishWritesState(c) PROVE Settling' /\ SetupOutside'
  BY <1>23 DEF FinishWritesState, Ready, Go
<1>24. ASSUME NEW c \in Campaigns, FinishRemovesPid(c) PROVE Settling' /\ SetupOutside'
  BY <1>24 DEF FinishRemovesPid, Ready, Die
<1>25. ASSUME NEW c \in Campaigns, FinishIsCut(c) PROVE Settling' /\ SetupOutside'
  BY <1>25 DEF FinishIsCut, Die
<1>26. CASE Stop
  BY <1>26 DEF Stop, Answers
<1>27. CASE PowerCut
  BY <1>27 DEF PowerCut, Die, InProgress, Alive
<1>28. CASE Tick
  BY <1>28 DEF Tick, Older, Alive
<1>29. CASE UNCHANGED vars
  BY <1>29 DEF vars
<1>30. QED
  BY <1>1, <1>2, <1>3, <1>4, <1>5, <1>6, <1>7, <1>8, <1>9, <1>10, <1>11, <1>12, <1>13, <1>14,
     <1>15, <1>16, <1>17, <1>18, <1>19, <1>20, <1>21, <1>22, <1>23, <1>24, <1>25, <1>26, <1>27,
     <1>28, <1>29 DEF Next, Start, Body

\* Where starts are typed one after the other, nothing is recorded before the alerts of the
\* accounts' creation have passed.
THEOREM SetupStaysOutside == ASSUME Alone PROVE Spec => []SetupOutside
<1>1. Init => Settling /\ SetupOutside
  BY DEF Init, Settling, SetupOutside, Recording
<1>2. TypeOK /\ OneCampaign /\ Settling /\ SetupOutside /\ [Next]_vars => Settling' /\ SetupOutside'
  BY SettledKept
<1>3. QED BY <1>1, <1>2, TypesAndShape, OneAtATime, PTL DEF Spec

\* Until finish, what the body knows of its last S1 run is no older than the run, but for the
\* moment between its end and the note of it; and a hold is long enough.
Noted ==
  /\ \A c \in Campaigns :
       /\ pc[c] \notin {"finish", "ending", "ended", "gone"}
       /\ ~(pc[c] = "ran" /\ IsS1(c))
       => last[c] <= sinceS1[c]
  /\ \A c \in Campaigns : pc[c] = "held" /\ IsS1(c) => last[c] + timer[c] >= Gap

LEMMA NotedKept ==
  ASSUME TypeOK, Shape, Noted, [Next]_vars
  PROVE  Noted'
<1> USE CampaignAssumption
      DEF CampaignAssumption, TypeOK, Shape, Spawned, Noted, IsS1, starting, episode,
          accounts, bounds
<1>1. ASSUME NEW c \in Campaigns, StartChecks(c) PROVE Noted'
  BY <1>1 DEF StartChecks
<1>2. ASSUME NEW c \in Campaigns, StartMakesDirectory(c) PROVE Noted'
  BY <1>2 DEF StartMakesDirectory
<1>3. ASSUME NEW c \in Campaigns, StartSpawns(c) PROVE Noted'
  BY <1>3 DEF StartSpawns
<1>4. ASSUME NEW c \in Campaigns, StartWritesPid(c) PROVE Noted'
  BY <1>4 DEF StartWritesPid
<1>5. ASSUME NEW c \in Campaigns, Signal(c) PROVE Noted'
  BY <1>5 DEF Signal
<1>6. ASSUME NEW c \in Campaigns, SetsTrap(c) PROVE Noted'
  BY <1>6 DEF SetsTrap, Ready, Go
<1>7. ASSUME NEW c \in Campaigns, Sweeps(c) PROVE Noted'
  BY <1>7 DEF Sweeps, Ready, Go, RemoveStaff
<1>8. ASSUME NEW c \in Campaigns, CreatesStaff(c) PROVE Noted'
  BY <1>8 DEF CreatesStaff, Ready, Go
<1>9. ASSUME NEW c \in Campaigns, CreationFails(c) PROVE Noted'
  BY <1>9 DEF CreationFails, Ready, Finish, Go
<1>10. ASSUME NEW c \in Campaigns, Settles(c) PROVE Noted'
  BY <1>10 DEF Settles, Ready, Go
<1>11. ASSUME NEW c \in Campaigns, ReachesDeadline(c) PROVE Noted'
  BY <1>11 DEF ReachesDeadline, Finish, Go
<1>12. ASSUME NEW c \in Campaigns, SeesStop(c) PROVE Noted'
  BY <1>12 DEF SeesStop, Finish, Go
<1>13. ASSUME NEW c \in Campaigns, PicksEpisode(c) PROVE Noted'
  BY <1>13 DEF PicksEpisode, Ready, Go, Kinds
<1>14. ASSUME NEW c \in Campaigns, Holds(c) PROVE Noted'
  BY <1>14 DEF Holds, Ready, Go
<1>15. ASSUME NEW c \in Campaigns, RunsScenario(c) PROVE Noted'
  BY <1>15 DEF RunsScenario, Ready, Go
<1>16. ASSUME NEW c \in Campaigns, ScenarioEnds(c) PROVE Noted'
  BY <1>16 DEF ScenarioEnds, Go
<1>17. ASSUME NEW c \in Campaigns, NotesEnd(c) PROVE Noted'
  BY <1>17 DEF NotesEnd, Ready, Go
<1>18. ASSUME NEW c \in Campaigns, Records(c) PROVE Noted'
  BY <1>18 DEF Records, Ready, Go
<1>19. ASSUME NEW c \in Campaigns, FindFails(c) PROVE Noted'
  BY <1>19 DEF FindFails, Ready, Finish, Go
<1>20. ASSUME NEW c \in Campaigns, DiesUntrapped(c) PROVE Noted'
  BY <1>20 DEF DiesUntrapped, Die
<1>21. ASSUME NEW c \in Campaigns, IsInterrupted(c) PROVE Noted'
  BY <1>21 DEF IsInterrupted, Finish, Go
<1>22. ASSUME NEW c \in Campaigns, FinishRemovesStaff(c) PROVE Noted'
  BY <1>22 DEF FinishRemovesStaff, Ready, Go, RemoveStaff
<1>23. ASSUME NEW c \in Campaigns, FinishWritesState(c) PROVE Noted'
  BY <1>23 DEF FinishWritesState, Ready, Go
<1>24. ASSUME NEW c \in Campaigns, FinishRemovesPid(c) PROVE Noted'
  BY <1>24 DEF FinishRemovesPid, Ready, Die
<1>25. ASSUME NEW c \in Campaigns, FinishIsCut(c) PROVE Noted'
  BY <1>25 DEF FinishIsCut, Die
<1>26. CASE Stop
  BY <1>26 DEF Stop, Answers
<1>27. CASE PowerCut
  BY <1>27 DEF PowerCut, Die, InProgress, Alive
<1>28. CASE Tick
  BY <1>28 DEF Tick, Older, Alive
<1>29. CASE UNCHANGED vars
  BY <1>29 DEF vars
<1>30. QED
  BY <1>1, <1>2, <1>3, <1>4, <1>5, <1>6, <1>7, <1>8, <1>9, <1>10, <1>11, <1>12, <1>13, <1>14,
     <1>15, <1>16, <1>17, <1>18, <1>19, <1>20, <1>21, <1>22, <1>23, <1>24, <1>25, <1>26, <1>27,
     <1>28, <1>29 DEF Next, Start, Body

\* A run that was held begins when its wait is over.
HeldOut == \A d \in Campaigns : pc[d] = "held" /\ pc'[d] = "running" => timer[d] = 0

LEMMA HoldsToTheEnd ==
  ASSUME TypeOK, [Next]_vars
  PROVE  HeldOut
<1> USE CampaignAssumption
      DEF CampaignAssumption, TypeOK, HeldOut, starting, episode, accounts, bounds
<1>1. ASSUME NEW c \in Campaigns, StartChecks(c) PROVE HeldOut
  BY <1>1 DEF StartChecks
<1>2. ASSUME NEW c \in Campaigns, StartMakesDirectory(c) PROVE HeldOut
  BY <1>2 DEF StartMakesDirectory
<1>3. ASSUME NEW c \in Campaigns, StartSpawns(c) PROVE HeldOut
  BY <1>3 DEF StartSpawns
<1>4. ASSUME NEW c \in Campaigns, StartWritesPid(c) PROVE HeldOut
  BY <1>4 DEF StartWritesPid
<1>5. ASSUME NEW c \in Campaigns, Signal(c) PROVE HeldOut
  BY <1>5 DEF Signal
<1>6. ASSUME NEW c \in Campaigns, SetsTrap(c) PROVE HeldOut
  BY <1>6 DEF SetsTrap, Ready, Go
<1>7. ASSUME NEW c \in Campaigns, Sweeps(c) PROVE HeldOut
  BY <1>7 DEF Sweeps, Ready, Go, RemoveStaff
<1>8. ASSUME NEW c \in Campaigns, CreatesStaff(c) PROVE HeldOut
  BY <1>8 DEF CreatesStaff, Ready, Go
<1>9. ASSUME NEW c \in Campaigns, CreationFails(c) PROVE HeldOut
  BY <1>9 DEF CreationFails, Ready, Finish, Go
<1>10. ASSUME NEW c \in Campaigns, Settles(c) PROVE HeldOut
  BY <1>10 DEF Settles, Ready, Go
<1>11. ASSUME NEW c \in Campaigns, ReachesDeadline(c) PROVE HeldOut
  BY <1>11 DEF ReachesDeadline, Finish, Go
<1>12. ASSUME NEW c \in Campaigns, SeesStop(c) PROVE HeldOut
  BY <1>12 DEF SeesStop, Finish, Go
<1>13. ASSUME NEW c \in Campaigns, PicksEpisode(c) PROVE HeldOut
  BY <1>13 DEF PicksEpisode, Ready, Go, Kinds
<1>14. ASSUME NEW c \in Campaigns, Holds(c) PROVE HeldOut
  BY <1>14 DEF Holds, Ready, Go
<1>15. ASSUME NEW c \in Campaigns, RunsScenario(c) PROVE HeldOut
  BY <1>15 DEF RunsScenario, Ready, Go
<1>16. ASSUME NEW c \in Campaigns, ScenarioEnds(c) PROVE HeldOut
  BY <1>16 DEF ScenarioEnds, Go
<1>17. ASSUME NEW c \in Campaigns, NotesEnd(c) PROVE HeldOut
  BY <1>17 DEF NotesEnd, Ready, Go
<1>18. ASSUME NEW c \in Campaigns, Records(c) PROVE HeldOut
  BY <1>18 DEF Records, Ready, Go
<1>19. ASSUME NEW c \in Campaigns, FindFails(c) PROVE HeldOut
  BY <1>19 DEF FindFails, Ready, Finish, Go
<1>20. ASSUME NEW c \in Campaigns, DiesUntrapped(c) PROVE HeldOut
  BY <1>20 DEF DiesUntrapped, Die
<1>21. ASSUME NEW c \in Campaigns, IsInterrupted(c) PROVE HeldOut
  BY <1>21 DEF IsInterrupted, Finish, Go
<1>22. ASSUME NEW c \in Campaigns, FinishRemovesStaff(c) PROVE HeldOut
  BY <1>22 DEF FinishRemovesStaff, Ready, Go, RemoveStaff
<1>23. ASSUME NEW c \in Campaigns, FinishWritesState(c) PROVE HeldOut
  BY <1>23 DEF FinishWritesState, Ready, Go
<1>24. ASSUME NEW c \in Campaigns, FinishRemovesPid(c) PROVE HeldOut
  BY <1>24 DEF FinishRemovesPid, Ready, Die
<1>25. ASSUME NEW c \in Campaigns, FinishIsCut(c) PROVE HeldOut
  BY <1>25 DEF FinishIsCut, Die
<1>26. CASE Stop
  BY <1>26 DEF Stop, Answers
<1>27. CASE PowerCut
  BY <1>27 DEF PowerCut, Die, InProgress, Alive
<1>28. CASE Tick
  BY <1>28 DEF Tick, Older, Alive
<1>29. CASE UNCHANGED vars
  BY <1>29 DEF vars
<1>30. QED
  BY <1>1, <1>2, <1>3, <1>4, <1>5, <1>6, <1>7, <1>8, <1>9, <1>10, <1>11, <1>12, <1>13, <1>14,
     <1>15, <1>16, <1>17, <1>18, <1>19, <1>20, <1>21, <1>22, <1>23, <1>24, <1>25, <1>26, <1>27,
     <1>28, <1>29 DEF Next, Start, Body

\* For any waits and episodes two S1 runs of a campaign never come closer than the gap.
THEOREM S1RunsKeepApart == Spec => S1KeepApart
<1>1. Init => Noted
  BY CampaignAssumption DEF CampaignAssumption, Init, Noted
<1>2. TypeOK /\ Shape /\ Noted /\ [Next]_vars => Noted'
  BY NotedKept
<1>3. TypeOK /\ Shape /\ Noted /\ [Next]_vars =>
      [\A c \in Campaigns : pc[c] = "held" /\ pc'[c] = "running" /\ IsS1(c) => sinceS1[c] = Gap]_vars
  <2>1. ASSUME TypeOK, Noted, [Next]_vars, NEW c \in Campaigns,
               pc[c] = "held", pc'[c] = "running", IsS1(c)
        PROVE  sinceS1[c] = Gap
    <3>1. timer[c] = 0
      BY <2>1, HoldsToTheEnd DEF HeldOut
    <3>2. last[c] <= sinceS1[c] /\ last[c] + timer[c] >= Gap
      BY <2>1 DEF Noted
    <3>3. last[c] \in 0..Gap /\ sinceS1[c] \in 0..Gap
      BY <2>1 DEF TypeOK
    <3>4. QED BY <3>1, <3>2, <3>3, CampaignAssumption DEF CampaignAssumption
  <2>2. QED BY <2>1
<1>4. QED BY <1>1, <1>2, <1>3, TypesAndShape, PTL DEF Spec, S1KeepApart
=============================================================================
