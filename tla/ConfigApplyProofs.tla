------------------------- MODULE ConfigApplyProofs --------------------------
(***************************************************************************)
(* Proofs about ConfigApply for every set of configurations and any number *)
(* of deliveries and cuts.                                                 *)
(***************************************************************************)
EXTENDS ConfigApply, TLAPS

-----------------------------------------------------------------------------
(* The applier's control.                                                  *)

During == {"site", "coll", "kismet", "collector", "verify"}

\* What a run can be doing at each place, and with which outcome.
Shape ==
  \/ job.doing = "none" /\ job.outcome = "none" /\ job.at \in {"idle", "off", "start"}
  \/ /\ job.doing = "apply" /\ job.sha \in Configs
     /\ \/ job.outcome = "none" /\ job.at \in During \cup
             {"checked", "keepSite", "keepColl", "attempt", "announce", "pause"}
        \/ job.outcome = "rejected" /\ job.at \in {"refuse", "report"}
        \/ job.outcome = "applied" /\ job.at \in {"applied", "keepSite", "keepColl", "clear", "report", "resume"}
  \/ /\ job.doing = "rollback" /\ job.sha \in Configs
     /\ \/ job.outcome = "none" /\ job.at \in During \cup {"refuse", "resume"}
        \/ job.outcome \in {"rolled_back", "failed"} /\ job.at \in {"clear", "report", "resume"}
  \/ /\ job.doing = "recover" /\ job.sha \in Configs
     /\ \/ job.outcome = "rolled_back" /\ job.at \in {"site", "coll", "refuse", "clear", "report", "start"}
        \/ job.outcome = "failed" /\ job.at \in {"report", "start"}

\* The control part of the invariant: it does not mention the files.
Control ==
  /\ job \in Jobs /\ Shape
  /\ trig \in BOOLEAN /\ (trig => desired \in [sha: Configs, retry: BOOLEAN])
  /\ desired \in {None} \cup [sha: Configs, retry: BOOLEAN]
  /\ attempt \in Configs \cup {None}

LEMMA IdleJob ==
  /\ Idle \in Jobs /\ Idle.at = "idle" /\ Idle.doing = "none" /\ Idle.outcome = "none"
  /\ Off \in Jobs /\ Off.at = "off" /\ Off.doing = "none" /\ Off.outcome = "none"
BY DEF Idle, Off, Jobs, Places

LEMMA InitControl == Init => Control
<1> SUFFICES ASSUME Init PROVE Control
  OBVIOUS
<1>1. job \in Jobs /\ Shape
  BY IdleJob DEF Init, Shape
<1>2. QED
  BY <1>1 DEF Init, Control

LEMMA Delivered ==
  ASSUME Control, trig
  PROVE  desired.sha \in Configs /\ desired.retry \in BOOLEAN
BY DEF Control

LEMMA StepControl == Control /\ [Next]_vars => Control'
<1> SUFFICES ASSUME Control, [Next]_vars PROVE Control'
  OBVIOUS
<1> USE DEF Control
<1>1. CASE \E c \in Configs, r \in BOOLEAN : Deliver(c, r)
  <2>1. PICK c \in Configs, r \in BOOLEAN : Deliver(c, r)
    BY <1>1
  <2>2. desired' \in [sha: Configs, retry: BOOLEAN]
    BY <2>1 DEF Deliver
  <2>3. trig' \in BOOLEAN
    BY <2>1 DEF Deliver
  <2>4. UNCHANGED <<job, attempt>>
    BY <2>1 DEF Deliver
  <2>5. QED
    BY <2>2, <2>3, <2>4 DEF Shape
<1>2. CASE NothingToDo
  BY <1>2 DEF NothingToDo, Shape
<1>3. CASE Begin
  <2>1. /\ job' \in Jobs /\ job'.at = "checked" /\ job'.doing = "apply"
        /\ job'.sha \in Configs /\ job'.outcome = "none"
    <3>1. desired.sha \in Configs
      BY <1>3, Delivered DEF Begin
    <3>2. job' = [at |-> "checked", doing |-> "apply", sha |-> desired.sha, repoll |-> FALSE, outcome |-> "none"]
      BY <1>3 DEF Begin, Idle
    <3>3. QED
      BY <3>1, <3>2 DEF Jobs, Places
  <2>2. QED
    BY <1>3, <2>1 DEF Begin, Shape
<1>4. CASE Reject
  BY <1>4 DEF Reject, Shape, Jobs, Places, Results, During
<1>5. CASE Accept
  BY <1>5 DEF Accept, Shape, Jobs, Places, During
<1>6. CASE WriteAttempt
  BY <1>6 DEF WriteAttempt, Go, Shape, Jobs, Places, During
<1>7. CASE Announce
  BY <1>7 DEF Announce, Go, Shape, Jobs, Places, During
<1>8. CASE PauseGuard
  BY <1>8 DEF PauseGuard, Go, Shape, Jobs, Places, During
<1>9. CASE WriteSite
  BY <1>9 DEF WriteSite, Go, Shape, Jobs, Places, During
<1>10. CASE WriteColl
  BY <1>10 DEF WriteColl, Go, Shape, Jobs, Places, During
<1>11. CASE RestartKismet
  BY <1>11 DEF RestartKismet, Go, Shape, Jobs, Places, During
<1>12. CASE RestartCollector
  BY <1>12 DEF RestartCollector, Go, Shape, Jobs, Places, During
<1>13. CASE ApplyVerified
  BY <1>13 DEF ApplyVerified, Shape, Jobs, Places, Results, During
<1>14. CASE RollbackVerified
  BY <1>14 DEF RollbackVerified, Shape, Jobs, Places, Results, During
<1>15. CASE ApplyFails
  BY <1>15 DEF ApplyFails, Shape, Jobs, Places, During
<1>16. CASE RollbackFails
  BY <1>16 DEF RollbackFails, Shape, Jobs, Places, Results, During
<1>17. CASE RecordApplied
  BY <1>17 DEF RecordApplied, Go, Shape, Jobs, Places, During
<1>18. CASE KeepSite
  BY <1>18 DEF KeepSite, Go, Shape, Jobs, Places, During
<1>19. CASE KeepColl
  BY <1>19 DEF KeepColl, Go, Shape, Jobs, Places, During
<1>20. CASE Refuse
  BY <1>20 DEF Refuse, Go, Shape, Jobs, Places, During
<1>21. CASE ClearAttempt
  BY <1>21 DEF ClearAttempt, Go, Shape, Jobs, Places, During
<1>22. CASE Report
  BY <1>22 DEF Report, Shape, Idle, Jobs, Places, During
<1>23. CASE ResumeGuard
  BY <1>23 DEF ResumeGuard, Shape, Idle, Jobs, Places
<1>24. CASE Recover
  <2>1. CASE attempt = None
    <3>1. /\ job' \in Jobs /\ job'.at = "start" /\ job'.doing = "none" /\ job'.outcome = "none"
      BY <1>24, <2>1 DEF Recover, Off, Idle, Jobs, Places
    <3>2. QED
      BY <1>24, <3>1 DEF Recover, Shape
  <2>2. CASE attempt # None
    <3>1. /\ job' \in Jobs /\ job'.at = "site" /\ job'.doing = "recover"
          /\ job'.sha \in Configs /\ job'.outcome = "rolled_back"
      BY <1>24, <2>2 DEF Recover, Jobs, Places, Results
    <3>2. QED
      BY <1>24, <3>1 DEF Recover, Shape
  <2>3. QED
    BY <2>1, <2>2
<1>25. CASE RecoverFails
  BY <1>25 DEF RecoverFails, Shape, Jobs, Places, Results, During
<1>26. CASE RecoverRaises
  BY <1>26 DEF RecoverRaises, Go, Shape, Jobs, Places, During
<1>27. CASE Start
  BY <1>27 DEF Start, Shape, Idle, Jobs, Places
<1>28. CASE Killed
  BY <1>28 DEF Killed, Shape, Idle, Jobs, Places
<1>29. CASE Raises
  BY <1>29 DEF Raises, Shape, Jobs, Places, During
<1>30. CASE Reboot
  BY <1>30 DEF Reboot, Shape, Off, Idle, Jobs, Places
<1>31. CASE Respawn
  BY <1>31 DEF Respawn, Shape
<1>32. CASE UNCHANGED vars
  BY <1>32 DEF vars, Shape
<1>33. QED
  BY <1>1, <1>2, <1>3, <1>4, <1>5, <1>6, <1>7, <1>8, <1>9, <1>10, <1>11, <1>12, <1>13, <1>14, <1>15,
     <1>16, <1>17, <1>18, <1>19, <1>20, <1>21, <1>22, <1>23, <1>24, <1>25, <1>26, <1>27, <1>28, <1>29,
     <1>30, <1>31, <1>32 DEF Next, ApplySteps, BootSteps
-----------------------------------------------------------------------------
(* Types.                                                                  *)

\* The last good files have been read when the second one is written.
Sound ==
  /\ TypeOK
  /\ job.at = "coll" /\ job.doing # "apply" => good \in [Files -> Configs]

LEMMA InitSound == Init => Sound
<1> SUFFICES ASSUME Init PROVE Sound
  OBVIOUS
<1> USE ConfigsAssumption, BoundsAssumption
<1>1. /\ live \in [Files -> Configs] /\ good \in [Files -> Configs \cup {None}]
      /\ verified \subseteq [Files -> Configs]
  BY DEF Init, Both
<1>2. Control
  BY InitControl
<1>3. kismet \in {ListOf[c] : c \in Configs} /\ collector \in {PollOf[c] : c \in Configs}
  BY DEF Init
<1>4. job.at = "idle"
  BY IdleJob DEF Init
<1>5. deliveries \in 0 .. MaxDeliveries /\ cuts \in 0 .. MaxCuts
  BY DEF Init
<1>6. QED
  BY <1>1, <1>2, <1>3, <1>4, <1>5 DEF Init, Sound, TypeOK, Control

LEMMA Counting ==
  ASSUME deliveries \in 0 .. MaxDeliveries, cuts \in 0 .. MaxCuts, [Next]_vars
  PROVE  deliveries' \in 0 .. MaxDeliveries /\ cuts' \in 0 .. MaxCuts
<1> USE BoundsAssumption DEF counts
<1>1. CASE \E c \in Configs, r \in BOOLEAN : Deliver(c, r)
  BY <1>1 DEF Deliver
<1>2. CASE NothingToDo
  BY <1>2 DEF NothingToDo
<1>3. CASE Begin
  BY <1>3 DEF Begin
<1>4. CASE Reject
  BY <1>4 DEF Reject
<1>5. CASE Accept
  BY <1>5 DEF Accept
<1>6. CASE WriteAttempt
  BY <1>6 DEF WriteAttempt
<1>7. CASE Announce
  BY <1>7 DEF Announce
<1>8. CASE PauseGuard
  BY <1>8 DEF PauseGuard
<1>9. CASE WriteSite
  BY <1>9 DEF WriteSite
<1>10. CASE WriteColl
  BY <1>10 DEF WriteColl
<1>11. CASE RestartKismet
  BY <1>11 DEF RestartKismet
<1>12. CASE RestartCollector
  BY <1>12 DEF RestartCollector
<1>13. CASE ApplyVerified
  BY <1>13 DEF ApplyVerified
<1>14. CASE RollbackVerified
  BY <1>14 DEF RollbackVerified
<1>15. CASE ApplyFails
  BY <1>15 DEF ApplyFails
<1>16. CASE RollbackFails
  BY <1>16 DEF RollbackFails, Cut
<1>17. CASE RecordApplied
  BY <1>17 DEF RecordApplied
<1>18. CASE KeepSite
  BY <1>18 DEF KeepSite
<1>19. CASE KeepColl
  BY <1>19 DEF KeepColl
<1>20. CASE Refuse
  BY <1>20 DEF Refuse
<1>21. CASE ClearAttempt
  BY <1>21 DEF ClearAttempt
<1>22. CASE Report
  BY <1>22 DEF Report
<1>23. CASE ResumeGuard
  BY <1>23 DEF ResumeGuard
<1>24. CASE Recover
  BY <1>24 DEF Recover
<1>25. CASE RecoverFails
  BY <1>25 DEF RecoverFails, Cut
<1>26. CASE RecoverRaises
  BY <1>26 DEF RecoverRaises, Cut
<1>27. CASE Start
  BY <1>27 DEF Start
<1>28. CASE Killed
  BY <1>28 DEF Killed, Cut
<1>29. CASE Raises
  BY <1>29 DEF Raises, Cut
<1>30. CASE Reboot
  BY <1>30 DEF Reboot, Cut
<1>31. CASE Respawn
  BY <1>31 DEF Respawn
<1>32. CASE UNCHANGED vars
  BY <1>32 DEF vars
<1>33. QED
  BY <1>1, <1>2, <1>3, <1>4, <1>5, <1>6, <1>7, <1>8, <1>9, <1>10, <1>11, <1>12, <1>13, <1>14, <1>15,
     <1>16, <1>17, <1>18, <1>19, <1>20, <1>21, <1>22, <1>23, <1>24, <1>25, <1>26, <1>27, <1>28,
     <1>29, <1>30, <1>31, <1>32 DEF Next, ApplySteps, BootSteps

LEMMA FileTypes ==
  ASSUME Control, Sound, [Next]_vars
  PROVE  /\ live' \in [Files -> Configs] /\ good' \in [Files -> Configs \cup {None}]
         /\ verified' \subseteq [Files -> Configs]
         /\ job'.at = "coll" /\ job'.doing # "apply" => good' \in [Files -> Configs]
<1> USE DEF Control, Sound, TypeOK, settled
<1>1. CASE \E c \in Configs, r \in BOOLEAN : Deliver(c, r)
  BY <1>1 DEF Deliver, Go, Shape, Jobs, During
<1>2. CASE NothingToDo
  BY <1>2 DEF NothingToDo, Go, Shape, Jobs, During
<1>3. CASE Begin
  BY <1>3 DEF Begin, Idle, Go, Shape, Jobs, During
<1>4. CASE Reject
  BY <1>4 DEF Reject, Go, Shape, Jobs, During
<1>5. CASE Accept
  BY <1>5 DEF Accept, Go, Shape, Jobs, During
<1>6. CASE WriteAttempt
  BY <1>6 DEF WriteAttempt, Go, Shape, Jobs, During
<1>7. CASE Announce
  BY <1>7 DEF Announce, Go, Shape, Jobs, During
<1>8. CASE PauseGuard
  BY <1>8 DEF PauseGuard, Go, Shape, Jobs, During
<1>9. CASE WriteSite
  BY <1>9 DEF WriteSite, Source, Readable, Files, Go, Shape, Jobs, During
<1>10. CASE WriteColl
  BY <1>10 DEF WriteColl, Source, Files, Go, Shape, Jobs, During
<1>11. CASE RestartKismet
  BY <1>11 DEF RestartKismet, Go, Shape, Jobs, During
<1>12. CASE RestartCollector
  BY <1>12 DEF RestartCollector, Go, Shape, Jobs, During
<1>13. CASE ApplyVerified
  BY <1>13 DEF ApplyVerified, Go, Shape, Jobs, During
<1>14. CASE RollbackVerified
  BY <1>14 DEF RollbackVerified, Go, Shape, Jobs, During
<1>15. CASE ApplyFails
  BY <1>15 DEF ApplyFails, Go, Shape, Jobs, During
<1>16. CASE RollbackFails
  BY <1>16 DEF RollbackFails, Go, Shape, Jobs, During
<1>17. CASE RecordApplied
  BY <1>17 DEF RecordApplied, Go, Shape, Jobs, During
<1>18. CASE KeepSite
  BY <1>18 DEF KeepSite, Files, Go, Shape, Jobs, During
<1>19. CASE KeepColl
  BY <1>19 DEF KeepColl, Files, Go, Shape, Jobs, During
<1>20. CASE Refuse
  BY <1>20 DEF Refuse, Go, Shape, Jobs, During
<1>21. CASE ClearAttempt
  BY <1>21 DEF ClearAttempt, Go, Shape, Jobs, During
<1>22. CASE Report
  BY <1>22 DEF Report, Idle, Go, Shape, Jobs, During
<1>23. CASE ResumeGuard
  BY <1>23 DEF ResumeGuard, Idle, Go, Shape, Jobs, During
<1>24. CASE Recover
  BY <1>24 DEF Recover, Off, Idle, Go, Shape, Jobs, During
<1>25. CASE RecoverFails
  BY <1>25 DEF RecoverFails, Go, Shape, Jobs, During
<1>26. CASE RecoverRaises
  BY <1>26 DEF RecoverRaises, Go, Shape, Jobs, During
<1>27. CASE Start
  BY <1>27 DEF Start, Idle, Go, Shape, Jobs, During
<1>28. CASE Killed
  BY <1>28 DEF Killed, Idle, Go, Shape, Jobs, During
<1>29. CASE Raises
  BY <1>29 DEF Raises, Go, Shape, Jobs, During
<1>30. CASE Reboot
  BY <1>30 DEF Reboot, Off, Idle, Go, Shape, Jobs, During
<1>31. CASE Respawn
  BY <1>31 DEF Respawn, Go, Shape, Jobs, During
<1>32. CASE UNCHANGED vars
  BY <1>32 DEF vars, Go, Shape, Jobs, During
<1>33. QED
  BY <1>1, <1>2, <1>3, <1>4, <1>5, <1>6, <1>7, <1>8, <1>9, <1>10, <1>11, <1>12, <1>13, <1>14, <1>15,
     <1>16, <1>17, <1>18, <1>19, <1>20, <1>21, <1>22, <1>23, <1>24, <1>25, <1>26, <1>27, <1>28,
     <1>29, <1>30, <1>31, <1>32 DEF Next, ApplySteps, BootSteps

LEMMA RecordTypes ==
  ASSUME Control, Sound, [Next]_vars
  PROVE  /\ applied' \in Configs \cup {None}
         /\ result' \in {None} \cup [sha: Configs, is: Results]
         /\ refused' \subseteq Configs /\ tried' \subseteq Configs
<1> USE DEF Control, Sound, TypeOK, settled
<1>1. CASE \E c \in Configs, r \in BOOLEAN : Deliver(c, r)
  BY <1>1 DEF Deliver
<1>2. CASE NothingToDo
  BY <1>2 DEF NothingToDo
<1>3. CASE Begin
  BY <1>3 DEF Begin, Idle
<1>4. CASE Reject
  BY <1>4 DEF Reject, Shape
<1>5. CASE Accept
  BY <1>5 DEF Accept
<1>6. CASE WriteAttempt
  BY <1>6 DEF WriteAttempt, Go, Shape
<1>7. CASE Announce
  BY <1>7 DEF Announce, Go, Shape, Results
<1>8. CASE PauseGuard
  BY <1>8 DEF PauseGuard
<1>9. CASE WriteSite
  BY <1>9 DEF WriteSite
<1>10. CASE WriteColl
  BY <1>10 DEF WriteColl
<1>11. CASE RestartKismet
  BY <1>11 DEF RestartKismet
<1>12. CASE RestartCollector
  BY <1>12 DEF RestartCollector
<1>13. CASE ApplyVerified
  BY <1>13 DEF ApplyVerified, Shape
<1>14. CASE RollbackVerified
  BY <1>14 DEF RollbackVerified
<1>15. CASE ApplyFails
  BY <1>15 DEF ApplyFails
<1>16. CASE RollbackFails
  BY <1>16 DEF RollbackFails
<1>17. CASE RecordApplied
  BY <1>17 DEF RecordApplied, Go, Shape
<1>18. CASE KeepSite
  BY <1>18 DEF KeepSite
<1>19. CASE KeepColl
  BY <1>19 DEF KeepColl
<1>20. CASE Refuse
  BY <1>20 DEF Refuse, Go, Shape
<1>21. CASE ClearAttempt
  BY <1>21 DEF ClearAttempt
<1>22. CASE Report
  BY <1>22 DEF Report, Shape, During, Results
<1>23. CASE ResumeGuard
  BY <1>23 DEF ResumeGuard
<1>24. CASE Recover
  BY <1>24 DEF Recover
<1>25. CASE RecoverFails
  BY <1>25 DEF RecoverFails
<1>26. CASE RecoverRaises
  BY <1>26 DEF RecoverRaises
<1>27. CASE Start
  BY <1>27 DEF Start
<1>28. CASE Killed
  BY <1>28 DEF Killed
<1>29. CASE Raises
  BY <1>29 DEF Raises
<1>30. CASE Reboot
  BY <1>30 DEF Reboot
<1>31. CASE Respawn
  BY <1>31 DEF Respawn
<1>32. CASE UNCHANGED vars
  BY <1>32 DEF vars
<1>33. QED
  BY <1>1, <1>2, <1>3, <1>4, <1>5, <1>6, <1>7, <1>8, <1>9, <1>10, <1>11, <1>12, <1>13, <1>14, <1>15,
     <1>16, <1>17, <1>18, <1>19, <1>20, <1>21, <1>22, <1>23, <1>24, <1>25, <1>26, <1>27, <1>28,
     <1>29, <1>30, <1>31, <1>32 DEF Next, ApplySteps, BootSteps

LEMMA RunningTypes ==
  ASSUME Control, Sound, [Next]_vars
  PROVE  /\ kismet' \in {ListOf[c] : c \in Configs} /\ collector' \in {PollOf[c] : c \in Configs}
         /\ guard' \in BOOLEAN
<1> USE DEF Sound, TypeOK, running, Files
<1>1. CASE \E c \in Configs, r \in BOOLEAN : Deliver(c, r)
  BY <1>1 DEF Deliver
<1>2. CASE NothingToDo
  BY <1>2 DEF NothingToDo
<1>3. CASE Begin
  BY <1>3 DEF Begin
<1>4. CASE Reject
  BY <1>4 DEF Reject
<1>5. CASE Accept
  BY <1>5 DEF Accept
<1>6. CASE WriteAttempt
  BY <1>6 DEF WriteAttempt
<1>7. CASE Announce
  BY <1>7 DEF Announce
<1>8. CASE PauseGuard
  BY <1>8 DEF PauseGuard
<1>9. CASE WriteSite
  BY <1>9 DEF WriteSite
<1>10. CASE WriteColl
  BY <1>10 DEF WriteColl
<1>11. CASE RestartKismet
  BY <1>11 DEF RestartKismet
<1>12. CASE RestartCollector
  BY <1>12 DEF RestartCollector
<1>13. CASE ApplyVerified
  BY <1>13 DEF ApplyVerified
<1>14. CASE RollbackVerified
  BY <1>14 DEF RollbackVerified
<1>15. CASE ApplyFails
  BY <1>15 DEF ApplyFails
<1>16. CASE RollbackFails
  BY <1>16 DEF RollbackFails
<1>17. CASE RecordApplied
  BY <1>17 DEF RecordApplied
<1>18. CASE KeepSite
  BY <1>18 DEF KeepSite
<1>19. CASE KeepColl
  BY <1>19 DEF KeepColl
<1>20. CASE Refuse
  BY <1>20 DEF Refuse
<1>21. CASE ClearAttempt
  BY <1>21 DEF ClearAttempt
<1>22. CASE Report
  BY <1>22 DEF Report
<1>23. CASE ResumeGuard
  BY <1>23 DEF ResumeGuard
<1>24. CASE Recover
  BY <1>24 DEF Recover
<1>25. CASE RecoverFails
  BY <1>25 DEF RecoverFails
<1>26. CASE RecoverRaises
  BY <1>26 DEF RecoverRaises
<1>27. CASE Start
  BY <1>27 DEF Start
<1>28. CASE Killed
  BY <1>28 DEF Killed
<1>29. CASE Raises
  BY <1>29 DEF Raises
<1>30. CASE Reboot
  BY <1>30 DEF Reboot
<1>31. CASE Respawn
  BY <1>31 DEF Respawn
<1>32. CASE UNCHANGED vars
  BY <1>32 DEF vars
<1>33. QED
  BY <1>1, <1>2, <1>3, <1>4, <1>5, <1>6, <1>7, <1>8, <1>9, <1>10, <1>11, <1>12, <1>13, <1>14, <1>15,
     <1>16, <1>17, <1>18, <1>19, <1>20, <1>21, <1>22, <1>23, <1>24, <1>25, <1>26, <1>27, <1>28,
     <1>29, <1>30, <1>31, <1>32 DEF Next, ApplySteps, BootSteps

LEMMA TornTypes ==
  ASSUME Control, Sound, [Next]_vars
  PROVE  torn' \subseteq {"keepSite", "keepColl", "clear", "report", "unrestored", "stranded"} /\ torn \subseteq torn'
<1> USE DEF Sound, TypeOK
<1>1. CASE \E c \in Configs, r \in BOOLEAN : Deliver(c, r)
  BY <1>1 DEF Deliver
<1>2. CASE NothingToDo
  BY <1>2 DEF NothingToDo
<1>3. CASE Begin
  BY <1>3 DEF Begin
<1>4. CASE Reject
  BY <1>4 DEF Reject
<1>5. CASE Accept
  BY <1>5 DEF Accept
<1>6. CASE WriteAttempt
  BY <1>6 DEF WriteAttempt
<1>7. CASE Announce
  BY <1>7 DEF Announce
<1>8. CASE PauseGuard
  BY <1>8 DEF PauseGuard
<1>9. CASE WriteSite
  BY <1>9 DEF WriteSite
<1>10. CASE WriteColl
  BY <1>10 DEF WriteColl
<1>11. CASE RestartKismet
  BY <1>11 DEF RestartKismet
<1>12. CASE RestartCollector
  BY <1>12 DEF RestartCollector
<1>13. CASE ApplyVerified
  BY <1>13 DEF ApplyVerified
<1>14. CASE RollbackVerified
  BY <1>14 DEF RollbackVerified
<1>15. CASE ApplyFails
  BY <1>15 DEF ApplyFails
<1>16. CASE RollbackFails
  BY <1>16 DEF RollbackFails
<1>17. CASE RecordApplied
  BY <1>17 DEF RecordApplied
<1>18. CASE KeepSite
  BY <1>18 DEF KeepSite
<1>19. CASE KeepColl
  BY <1>19 DEF KeepColl
<1>20. CASE Refuse
  BY <1>20 DEF Refuse
<1>21. CASE ClearAttempt
  BY <1>21 DEF ClearAttempt
<1>22. CASE Report
  BY <1>22 DEF Report
<1>23. CASE ResumeGuard
  BY <1>23 DEF ResumeGuard
<1>24. CASE Recover
  BY <1>24 DEF Recover
<1>25. CASE RecoverFails
  BY <1>25 DEF RecoverFails
<1>26. CASE RecoverRaises
  BY <1>26 DEF RecoverRaises, Delicate, Stranded
<1>27. CASE Start
  BY <1>27 DEF Start
<1>28. CASE Killed
  BY <1>28 DEF Killed, Delicate, Stranded
<1>29. CASE Raises
  BY <1>29 DEF Raises, Delicate, Stranded
<1>30. CASE Reboot
  BY <1>30 DEF Reboot, Delicate
<1>31. CASE Respawn
  BY <1>31 DEF Respawn
<1>32. CASE UNCHANGED vars
  BY <1>32 DEF vars
<1>33. QED
  BY <1>1, <1>2, <1>3, <1>4, <1>5, <1>6, <1>7, <1>8, <1>9, <1>10, <1>11, <1>12, <1>13, <1>14, <1>15,
     <1>16, <1>17, <1>18, <1>19, <1>20, <1>21, <1>22, <1>23, <1>24, <1>25, <1>26, <1>27, <1>28,
     <1>29, <1>30, <1>31, <1>32 DEF Next, ApplySteps, BootSteps

LEMMA StepSound ==
  ASSUME Control, Sound, [Next]_vars
  PROVE  Sound'
<1>1. Control'
  BY StepControl
<1>2. deliveries' \in 0 .. MaxDeliveries /\ cuts' \in 0 .. MaxCuts
  BY Counting DEF Sound, TypeOK
<1>3. QED
  BY <1>1, <1>2, FileTypes, RecordTypes, RunningTypes, TornTypes DEF Sound, TypeOK, Control

(***************************************************************************)
(* Every variable of the applier, the recover unit and the files keeps its *)
(* type, for every set of configurations (TypeOK of the run config_apply). *)
(***************************************************************************)
THEOREM ApplyTypeCorrect == Spec => []TypeOK
<1>1. Init => Control /\ Sound
  BY InitControl, InitSound
<1>2. Control /\ Sound /\ [Next]_vars => (Control /\ Sound)'
  BY StepControl, StepSound
<1>3. Sound => TypeOK
  BY DEF Sound
<1>4. QED
  BY <1>1, <1>2, <1>3, PTL DEF Spec

-----------------------------------------------------------------------------
(* The attempt on record is the run's, from its first write to its last.   *)

OnRecord ==
  \/ job.doing = "apply" /\ job.outcome = "none" /\ job.at \in During \cup {"announce", "pause"}
  \/ job.outcome = "applied" /\ job.at \in {"applied", "keepSite", "keepColl", "clear"}
  \/ job.doing = "rollback" /\ job.at \in During \cup {"refuse", "clear"}
  \/ job.doing = "recover" /\ job.at \in {"site", "coll", "refuse", "clear"}

Recorded == OnRecord => attempt = job.sha

LEMMA InitRecorded == Init => Recorded
BY IdleJob DEF Init, Recorded, OnRecord, During

LEMMA StepRecorded ==
  ASSUME Control, Recorded, [Next]_vars
  PROVE  Recorded'
<1> USE DEF Control, Recorded, OnRecord, During
<1>1. CASE \E c \in Configs, r \in BOOLEAN : Deliver(c, r)
  BY <1>1 DEF Deliver, Go, Shape, Jobs
<1>2. CASE NothingToDo
  BY <1>2 DEF NothingToDo, Go, Shape, Jobs
<1>3. CASE Begin
  BY <1>3 DEF Begin, Idle, Go, Shape, Jobs
<1>4. CASE Reject
  BY <1>4 DEF Reject, Go, Shape, Jobs
<1>5. CASE Accept
  BY <1>5 DEF Accept, Go, Shape, Jobs
<1>6. CASE WriteAttempt
  BY <1>6 DEF WriteAttempt, Go, Shape, Jobs
<1>7. CASE Announce
  BY <1>7 DEF Announce, Go, Shape, Jobs
<1>8. CASE PauseGuard
  BY <1>8 DEF PauseGuard, Go, Shape, Jobs
<1>9. CASE WriteSite
  BY <1>9 DEF WriteSite, Go, Shape, Jobs
<1>10. CASE WriteColl
  BY <1>10 DEF WriteColl, Go, Shape, Jobs
<1>11. CASE RestartKismet
  BY <1>11 DEF RestartKismet, Go, Shape, Jobs
<1>12. CASE RestartCollector
  BY <1>12 DEF RestartCollector, Go, Shape, Jobs
<1>13. CASE ApplyVerified
  BY <1>13 DEF ApplyVerified, Go, Shape, Jobs
<1>14. CASE RollbackVerified
  BY <1>14 DEF RollbackVerified, Go, Shape, Jobs
<1>15. CASE ApplyFails
  BY <1>15 DEF ApplyFails, Go, Shape, Jobs
<1>16. CASE RollbackFails
  BY <1>16 DEF RollbackFails, Go, Shape, Jobs
<1>17. CASE RecordApplied
  BY <1>17 DEF RecordApplied, Go, Shape, Jobs
<1>18. CASE KeepSite
  BY <1>18 DEF KeepSite, Go, Shape, Jobs
<1>19. CASE KeepColl
  BY <1>19 DEF KeepColl, Go, Shape, Jobs
<1>20. CASE Refuse
  BY <1>20 DEF Refuse, Go, Shape, Jobs
<1>21. CASE ClearAttempt
  BY <1>21 DEF ClearAttempt, Go, Shape, Jobs
<1>22. CASE Report
  BY <1>22 DEF Report, Idle, Go, Shape, Jobs
<1>23. CASE ResumeGuard
  BY <1>23 DEF ResumeGuard, Idle, Go, Shape, Jobs
<1>24. CASE Recover
  BY <1>24 DEF Recover, Off, Idle, Go, Shape, Jobs
<1>25. CASE RecoverFails
  BY <1>25 DEF RecoverFails, Go, Shape, Jobs
<1>26. CASE RecoverRaises
  BY <1>26 DEF RecoverRaises, Go, Shape, Jobs
<1>27. CASE Start
  BY <1>27 DEF Start, Idle, Go, Shape, Jobs
<1>28. CASE Killed
  BY <1>28 DEF Killed, Idle, Go, Shape, Jobs
<1>29. CASE Raises
  BY <1>29 DEF Raises, Go, Shape, Jobs
<1>30. CASE Reboot
  BY <1>30 DEF Reboot, Off, Idle, Go, Shape, Jobs
<1>31. CASE Respawn
  BY <1>31 DEF Respawn, Go, Shape, Jobs
<1>32. CASE UNCHANGED vars
  BY <1>32 DEF vars, Go, Shape, Jobs
<1>33. QED
  BY <1>1, <1>2, <1>3, <1>4, <1>5, <1>6, <1>7, <1>8, <1>9, <1>10, <1>11, <1>12, <1>13, <1>14, <1>15,
     <1>16, <1>17, <1>18, <1>19, <1>20, <1>21, <1>22, <1>23, <1>24, <1>25, <1>26, <1>27, <1>28,
     <1>29, <1>30, <1>31, <1>32 DEF Next, ApplySteps, BootSteps

-----------------------------------------------------------------------------
(* Past their writes, a rollback and a boot have the last good files in    *)
(* place, or they could not be written.                                    *)

Restored ==
  /\ job.doing = "recover" /\ job.outcome = "failed" => "unrestored" \in torn
  /\ job.doing # "apply" /\ job.at = "coll" => live["site"] = good["site"]
  /\ \/ job.doing = "rollback" /\ job.at \in {"kismet", "collector", "verify"}
     \/ job.doing = "rollback" /\ job.at = "clear" /\ "unrestored" \notin torn
     \/ job.doing = "rollback" /\ job.outcome = "rolled_back" /\ job.at \in {"clear", "report"}
     \/ job.doing = "recover" /\ job.at \in {"refuse", "clear"}
     \/ job.doing = "recover" /\ job.outcome = "rolled_back" /\ job.at = "report"
     => live = good

LEMMA InitRestored == Init => Restored
BY IdleJob DEF Init, Restored

LEMMA SameFiles ==
  ASSUME NEW S, NEW T, NEW p \in [Files -> S], NEW q \in [Files -> T],
         p["site"] = q["site"], p["coll"] = q["coll"]
  PROVE  p = q
BY DEF Files

LEMMA StepRestored ==
  ASSUME Control, Sound, Restored, [Next]_vars
  PROVE  Restored'
<1> USE DEF Control, Restored, During
<1> live \in [Files -> Configs] /\ good \in [Files -> Configs \cup {None}]
  BY DEF Sound, TypeOK
<1> torn \subseteq torn'
  BY TornTypes
<1>1. CASE \E c \in Configs, r \in BOOLEAN : Deliver(c, r)
  BY <1>1 DEF Deliver, Go, Shape, Jobs, settled
<1>2. CASE NothingToDo
  BY <1>2 DEF NothingToDo, Go, Shape, Jobs, settled
<1>3. CASE Begin
  BY <1>3 DEF Begin, Idle, Go, Shape, Jobs, settled
<1>4. CASE Reject
  BY <1>4 DEF Reject, Go, Shape, Jobs, settled
<1>5. CASE Accept
  BY <1>5 DEF Accept, Go, Shape, Jobs, settled
<1>6. CASE WriteAttempt
  BY <1>6 DEF WriteAttempt, Go, Shape, Jobs, settled
<1>7. CASE Announce
  BY <1>7 DEF Announce, Go, Shape, Jobs, settled
<1>8. CASE PauseGuard
  BY <1>8 DEF PauseGuard, Go, Shape, Jobs, settled
<1>9. CASE WriteSite
  BY <1>9 DEF WriteSite, Source, Files, Go, Shape, Jobs, settled
<1>10. CASE WriteColl
  <2>1. CASE job.doing # "apply"
    <3>1. live'["site"] = good'["site"] /\ live'["coll"] = good'["coll"]
      BY <1>10, <2>1 DEF WriteColl, Go, Source, Files
    <3>2. live' \in [Files -> Configs] /\ good' \in [Files -> Configs \cup {None}]
      BY FileTypes
    <3>3. live' = good'
      BY <3>1, <3>2, SameFiles
    <3>4. QED
      BY <1>10, <2>1, <3>3 DEF WriteColl, Go, Shape, Jobs
  <2>2. CASE job.doing = "apply"
    BY <1>10, <2>2 DEF WriteColl, Go, Shape, Jobs
  <2>3. QED
    BY <2>1, <2>2
<1>11. CASE RestartKismet
  BY <1>11 DEF RestartKismet, Go, Shape, Jobs, settled
<1>12. CASE RestartCollector
  BY <1>12 DEF RestartCollector, Go, Shape, Jobs, settled
<1>13. CASE ApplyVerified
  BY <1>13 DEF ApplyVerified, Go, Shape, Jobs, settled
<1>14. CASE RollbackVerified
  BY <1>14 DEF RollbackVerified, Go, Shape, Jobs, settled
<1>15. CASE ApplyFails
  BY <1>15 DEF ApplyFails, Go, Shape, Jobs, settled
<1>16. CASE RollbackFails
  BY <1>16 DEF RollbackFails, Go, Shape, Jobs, settled
<1>17. CASE RecordApplied
  BY <1>17 DEF RecordApplied, Go, Shape, Jobs, settled
<1>18. CASE KeepSite
  BY <1>18 DEF KeepSite, Go, Shape, Jobs, settled
<1>19. CASE KeepColl
  BY <1>19 DEF KeepColl, Go, Shape, Jobs, settled
<1>20. CASE Refuse
  BY <1>20 DEF Refuse, Go, Shape, Jobs, settled
<1>21. CASE ClearAttempt
  BY <1>21 DEF ClearAttempt, Go, Shape, Jobs, settled
<1>22. CASE Report
  BY <1>22 DEF Report, Idle, Go, Shape, Jobs, settled
<1>23. CASE ResumeGuard
  BY <1>23 DEF ResumeGuard, Idle, Go, Shape, Jobs, settled
<1>24. CASE Recover
  BY <1>24 DEF Recover, Off, Idle, Go, Shape, Jobs, settled
<1>25. CASE RecoverFails
  BY <1>25 DEF RecoverFails, Go, Shape, Jobs, settled
<1>26. CASE RecoverRaises
  BY <1>26 DEF RecoverRaises, Go, Shape, Jobs, settled
<1>27. CASE Start
  BY <1>27 DEF Start, Idle, Go, Shape, Jobs, settled
<1>28. CASE Killed
  BY <1>28 DEF Killed, Idle, Go, Shape, Jobs, settled
<1>29. CASE Raises
  BY <1>29 DEF Raises, Go, Shape, Jobs, settled
<1>30. CASE Reboot
  BY <1>30 DEF Reboot, Off, Idle, Go, Shape, Jobs, settled
<1>31. CASE Respawn
  BY <1>31 DEF Respawn, Go, Shape, Jobs, settled
<1>32. CASE UNCHANGED vars
  BY <1>32 DEF vars, Go, Shape, Jobs, settled
<1>33. QED
  BY <1>1, <1>2, <1>3, <1>4, <1>5, <1>6, <1>7, <1>8, <1>9, <1>10, <1>11, <1>12, <1>13, <1>14, <1>15,
     <1>16, <1>17, <1>18, <1>19, <1>20, <1>21, <1>22, <1>23, <1>24, <1>25, <1>26, <1>27, <1>28,
     <1>29, <1>30, <1>31, <1>32 DEF Next, ApplySteps, BootSteps

-----------------------------------------------------------------------------
(* What a boot would start on.                                             *)

Whole == "keepColl" \notin torn /\ "unrestored" \notin torn

\* The last good pair is whole and verified but between its two writes, and it
\* exists before an attempt goes on record; with no attempt on record the
\* files themselves have verified.
BootInv ==
  Whole =>
    /\ attempt = None => live \in verified
    /\ attempt # None \/ job.at \in {"attempt", "keepColl"} => good["site"] # None
    /\ good["site"] # None /\ job.at # "keepColl" => good \in verified
    /\ job.at = "keepSite" /\ job.outcome = "none" => good["site"] = None
    /\ job.at = "keepColl" => good["site"] = live["site"] /\ live \in verified
    /\ job.outcome = "applied" /\ job.at \in {"applied", "keepSite", "clear"} => live \in verified
    /\ job.doing = "recover" /\ job.at = "report" => live \in verified
    /\ job.at = "start" => live \in verified

LEMMA InitBoot == Init => BootInv
<1> SUFFICES ASSUME Init PROVE BootInv
  OBVIOUS
<1>1. live \in verified /\ good["site"] = None /\ attempt = None
  BY DEF Init, Both, Files
<1>2. job.at = "idle" /\ job.doing = "none"
  BY IdleJob DEF Init
<1>3. QED
  BY <1>1, <1>2 DEF BootInv

LEMMA StepBoot ==
  ASSUME Control, Sound, Recorded, Restored, BootInv, [Next]_vars
  PROVE  BootInv'
<1> USE DEF Control, BootInv, Whole, During
<1> live \in [Files -> Configs] /\ good \in [Files -> Configs \cup {None}]
  BY DEF Sound, TypeOK
<1> torn \subseteq torn'
  BY TornTypes
<1> None \notin Configs
  BY ConfigsAssumption
<1>1. CASE \E c \in Configs, r \in BOOLEAN : Deliver(c, r)
  BY <1>1 DEF Deliver, Go, Shape, Jobs, settled
<1>2. CASE NothingToDo
  BY <1>2 DEF NothingToDo, Go, Shape, Jobs, settled
<1>3. CASE Begin
  BY <1>3 DEF Begin, Idle, Go, Shape, Jobs, settled
<1>4. CASE Reject
  BY <1>4 DEF Reject, Go, Shape, Jobs, settled
<1>5. CASE Accept
  BY <1>5 DEF Accept, Go, Shape, Jobs, settled
<1>6. CASE WriteAttempt
  BY <1>6 DEF WriteAttempt, Files, Restored, OnRecord, Recorded, Go, Shape, Jobs, settled
<1>7. CASE Announce
  BY <1>7 DEF Announce, Go, Shape, Jobs, settled
<1>8. CASE PauseGuard
  BY <1>8 DEF PauseGuard, Go, Shape, Jobs, settled
<1>9. CASE WriteSite
  BY <1>9 DEF WriteSite, Files, Restored, OnRecord, Recorded, Go, Shape, Jobs, settled
<1>10. CASE WriteColl
  BY <1>10 DEF WriteColl, Files, Restored, OnRecord, Recorded, Go, Shape, Jobs, settled
<1>11. CASE RestartKismet
  BY <1>11 DEF RestartKismet, Go, Shape, Jobs, settled
<1>12. CASE RestartCollector
  BY <1>12 DEF RestartCollector, Go, Shape, Jobs, settled
<1>13. CASE ApplyVerified
  BY <1>13 DEF ApplyVerified, Go, Shape, Jobs, settled
<1>14. CASE RollbackVerified
  BY <1>14 DEF RollbackVerified, Go, Shape, Jobs, settled
<1>15. CASE ApplyFails
  BY <1>15 DEF ApplyFails, Go, Shape, Jobs, settled
<1>16. CASE RollbackFails
  BY <1>16 DEF RollbackFails, Files, Restored, OnRecord, Recorded, Go, Shape, Jobs, settled
<1>17. CASE RecordApplied
  BY <1>17 DEF RecordApplied, Go, Shape, Jobs, settled
<1>18. CASE KeepSite
  BY <1>18 DEF KeepSite, Files, Restored, OnRecord, Recorded, Go, Shape, Jobs, settled
<1>19. CASE KeepColl
  <2>1. CASE Whole
    <3>1. good'["site"] = live["site"] /\ good'["coll"] = live["coll"]
      BY <1>19, <2>1 DEF KeepColl, Go, Files
    <3>2. good' \in [Files -> Configs \cup {None}]
      BY FileTypes
    <3>3. good' = live /\ live["site"] \in Configs
      BY <3>1, <3>2, SameFiles DEF Files
    <3>4. QED
      BY <1>19, <2>1, <3>3 DEF KeepColl, Go, Shape, Jobs
  <2>2. CASE ~Whole
    BY <1>19, <2>2 DEF KeepColl
  <2>3. QED
    BY <2>1, <2>2
<1>20. CASE Refuse
  BY <1>20 DEF Refuse, Go, Shape, Jobs, settled
<1>21. CASE ClearAttempt
  BY <1>21 DEF ClearAttempt, Files, Restored, OnRecord, Recorded, Go, Shape, Jobs, settled
<1>22. CASE Report
  BY <1>22 DEF Report, Idle, Restored, Go, Shape, Jobs, settled
<1>23. CASE ResumeGuard
  BY <1>23 DEF ResumeGuard, Idle, Go, Shape, Jobs, settled
<1>24. CASE Recover
  BY <1>24 DEF Recover, Off, Idle, Go, Shape, Jobs, settled
<1>25. CASE RecoverFails
  BY <1>25 DEF RecoverFails, Files, Restored, OnRecord, Recorded, Go, Shape, Jobs, settled
<1>26. CASE RecoverRaises
  BY <1>26 DEF RecoverRaises, Delicate, Restored, OnRecord, Recorded, Go, Shape, Jobs, settled
<1>27. CASE Start
  BY <1>27 DEF Start, Idle, Go, Shape, Jobs, settled
<1>28. CASE Killed
  BY <1>28 DEF Killed, Idle, Delicate, Go, Shape, Jobs, settled
<1>29. CASE Raises
  BY <1>29 DEF Raises, Delicate, Go, Shape, Jobs, settled
<1>30. CASE Reboot
  BY <1>30 DEF Reboot, Off, Idle, Delicate, Go, Shape, Jobs, settled
<1>31. CASE Respawn
  BY <1>31 DEF Respawn, Go, Shape, Jobs, settled
<1>32. CASE UNCHANGED vars
  BY <1>32 DEF vars, Go, Shape, Jobs, settled
<1>33. QED
  BY <1>1, <1>2, <1>3, <1>4, <1>5, <1>6, <1>7, <1>8, <1>9, <1>10, <1>11, <1>12, <1>13, <1>14, <1>15,
     <1>16, <1>17, <1>18, <1>19, <1>20, <1>21, <1>22, <1>23, <1>24, <1>25, <1>26, <1>27, <1>28,
     <1>29, <1>30, <1>31, <1>32 DEF Next, ApplySteps, BootSteps

(***************************************************************************)
(* Wherever the power fails, the sensor comes up on a verified pair of     *)
(* files - unless a run was cut short inside keep_last_good(), or could    *)
(* not write the last good files back (SafeToBoot of config_apply).        *)
(***************************************************************************)
THEOREM BootsSafely == Spec => []SafeToBoot
<1> DEFINE IInv == Control /\ Sound /\ Recorded /\ Restored /\ BootInv
<1>1. Init => IInv
  BY InitControl, InitSound, InitRecorded, InitRestored, InitBoot
<1>2. IInv /\ [Next]_vars => IInv'
  BY StepControl, StepSound, StepRecorded, StepRestored, StepBoot
<1>3. IInv => SafeToBoot
  BY DEF SafeToBoot, BootInv, Whole, BootPair
<1>4. QED
  BY <1>1, <1>2, <1>3, PTL DEF Spec

-----------------------------------------------------------------------------
(* What was tried.                                                         *)

Kept == "stranded" \notin torn /\ "unrestored" \notin torn

\* A run that verified its candidate, or refused it, has left its trace before
\* the attempt is cleared; the machine is up without a run only when no
\* attempt is on record.
TryInv ==
  /\ job.outcome = "applied" /\ job.at \in {"applied", "keepSite", "keepColl", "clear"} => job.sha \notin tried
  /\ job.doing = "rollback" /\ job.at \in During \cup {"clear"} => job.sha \in refused
  /\ job.doing = "recover" /\ job.at = "clear" => job.sha \in refused
  /\ Kept => /\ tried \subseteq refused \cup {attempt}
             /\ ~OnRecord /\ job.at # "off" => attempt = None

LEMMA InitTry == Init => TryInv
BY IdleJob DEF Init, TryInv

LEMMA StepTry ==
  ASSUME Control, Sound, Recorded, Restored, TryInv, [Next]_vars
  PROVE  TryInv'
<1> USE DEF Control, TryInv, Kept, During, OnRecord, Recorded
<1> torn \subseteq torn'
  BY TornTypes
<1> None \notin Configs
  BY ConfigsAssumption
<1>1. CASE \E c \in Configs, r \in BOOLEAN : Deliver(c, r)
  BY <1>1 DEF Deliver, Go, Shape, Jobs
<1>2. CASE NothingToDo
  BY <1>2 DEF NothingToDo, Go, Shape, Jobs
<1>3. CASE Begin
  <2>1. /\ job'.at = "checked" /\ job'.doing = "apply" /\ job'.outcome = "none"
        /\ job.at = "idle" /\ job.doing = "none"
    BY <1>3, IdleJob DEF Begin, Idle
  <2>2. tried \subseteq refused \cup {attempt} => tried' \subseteq refused' \cup {attempt'}
    BY <1>3 DEF Begin
  <2>3. QED
    BY <1>3, <2>1, <2>2 DEF Begin
<1>4. CASE Reject
  BY <1>4 DEF Reject, Go, Shape, Jobs
<1>5. CASE Accept
  BY <1>5 DEF Accept, Go, Shape, Jobs
<1>6. CASE WriteAttempt
  <2>1. /\ job.at = "attempt" /\ job'.at = "announce" /\ job'.doing = "apply" /\ job'.outcome = "none"
        /\ attempt' = job'.sha
    BY <1>6 DEF WriteAttempt, Go, Shape, Jobs
  <2>2. tried \subseteq Configs
    BY DEF Sound, TypeOK
  <2>3. Kept => tried \subseteq refused
    BY <2>1, <2>2
  <2>4. Kept => tried' \subseteq refused' \cup {attempt'}
    BY <1>6, <2>3 DEF WriteAttempt, Go
  <2>5. QED
    BY <1>6, <2>1, <2>4 DEF WriteAttempt
<1>7. CASE Announce
  BY <1>7 DEF Announce, Go, Shape, Jobs
<1>8. CASE PauseGuard
  BY <1>8 DEF PauseGuard, Go, Shape, Jobs
<1>9. CASE WriteSite
  BY <1>9 DEF WriteSite, Go, Shape, Jobs
<1>10. CASE WriteColl
  BY <1>10 DEF WriteColl, Go, Shape, Jobs
<1>11. CASE RestartKismet
  BY <1>11 DEF RestartKismet, Go, Shape, Jobs
<1>12. CASE RestartCollector
  BY <1>12 DEF RestartCollector, Go, Shape, Jobs
<1>13. CASE ApplyVerified
  BY <1>13 DEF ApplyVerified, Go, Shape, Jobs
<1>14. CASE RollbackVerified
  BY <1>14 DEF RollbackVerified, Go, Shape, Jobs
<1>15. CASE ApplyFails
  BY <1>15 DEF ApplyFails, Go, Shape, Jobs
<1>16. CASE RollbackFails
  BY <1>16 DEF RollbackFails, Go, Shape, Jobs
<1>17. CASE RecordApplied
  BY <1>17 DEF RecordApplied, Go, Shape, Jobs
<1>18. CASE KeepSite
  BY <1>18 DEF KeepSite, Go, Shape, Jobs
<1>19. CASE KeepColl
  BY <1>19 DEF KeepColl, Go, Shape, Jobs
<1>20. CASE Refuse
  BY <1>20 DEF Refuse, Go, Shape, Jobs
<1>21. CASE ClearAttempt
  BY <1>21 DEF ClearAttempt, Go, Shape, Jobs
<1>22. CASE Report
  BY <1>22 DEF Report, Idle, Restored, Go, Shape, Jobs
<1>23. CASE ResumeGuard
  BY <1>23 DEF ResumeGuard, Idle, Go, Shape, Jobs
<1>24. CASE Recover
  BY <1>24 DEF Recover, Off, Idle, Go, Shape, Jobs
<1>25. CASE RecoverFails
  BY <1>25 DEF RecoverFails, Go, Shape, Jobs
<1>26. CASE RecoverRaises
  BY <1>26 DEF RecoverRaises, Stranded, Go, Shape, Jobs
<1>27. CASE Start
  BY <1>27 DEF Start, Idle, Go, Shape, Jobs
<1>28. CASE Killed
  BY <1>28 DEF Killed, Idle, Stranded, Go, Shape, Jobs
<1>29. CASE Raises
  BY <1>29 DEF Raises, Stranded, Go, Shape, Jobs
<1>30. CASE Reboot
  BY <1>30 DEF Reboot, Off, Idle, Go, Shape, Jobs
<1>31. CASE Respawn
  BY <1>31 DEF Respawn, Go, Shape, Jobs
<1>32. CASE UNCHANGED vars
  BY <1>32 DEF vars, Go, Shape, Jobs
<1>33. QED
  BY <1>1, <1>2, <1>3, <1>4, <1>5, <1>6, <1>7, <1>8, <1>9, <1>10, <1>11, <1>12, <1>13, <1>14, <1>15,
     <1>16, <1>17, <1>18, <1>19, <1>20, <1>21, <1>22, <1>23, <1>24, <1>25, <1>26, <1>27, <1>28,
     <1>29, <1>30, <1>31, <1>32 DEF Next, ApplySteps, BootSteps

(***************************************************************************)
(* A configuration that was tried and did not verify is refused or still   *)
(* on record, unless an apply was killed or the last good files could not  *)
(* be written back (NoTryForgotten of config_apply).                       *)
(***************************************************************************)
THEOREM TriesAreKept == Spec => []NoTryForgotten
<1> DEFINE IInv == Control /\ Sound /\ Recorded /\ Restored /\ TryInv
<1>1. Init => IInv
  BY InitControl, InitSound, InitRecorded, InitRestored, InitTry
<1>2. IInv /\ [Next]_vars => IInv'
  BY StepControl, StepSound, StepRecorded, StepRestored, StepTry
<1>3. IInv => NoTryForgotten
  BY DEF NoTryForgotten, TryInv, Kept
<1>4. QED
  BY <1>1, <1>2, <1>3, PTL DEF Spec

-----------------------------------------------------------------------------
(* What applied.json names.                                                *)

Named == "keepSite" \notin torn /\ "keepColl" \notin torn /\ "unrestored" \notin torn

\* The files an apply verifies are its candidate's; the last good pair is that
\* of the configuration on record, but between the two records.
NameInv ==
  /\ job.doing = "apply" /\ job.outcome = "none" =>
       /\ job.at = "coll" => live["site"] = job.sha
       /\ job.at \in {"kismet", "collector", "verify"} => live = Both(job.sha)
  /\ job.outcome = "applied" /\ job.at \in {"applied", "keepSite", "keepColl", "clear"} =>
       /\ live = Both(job.sha)
       /\ job.at # "applied" => applied = job.sha
  /\ Named /\ job.outcome = "none" /\ job.at \in {"keepSite", "keepColl"} => applied = None
  /\ Named /\ applied # None =>
       /\ ~(job.outcome = "applied" /\ job.at \in {"keepSite", "keepColl"}) => good = Both(applied)
       /\ attempt = None => live = Both(applied)
       /\ job.at = "start" \/ (job.doing = "recover" /\ job.at = "report") => live = Both(applied)

LEMMA InitName == Init => NameInv
BY IdleJob DEF Init, NameInv

LEMMA BothFiles ==
  ASSUME NEW c \in Configs, NEW p \in [Files -> Configs], p["site"] = c, p["coll"] = c
  PROVE  p = Both(c)
BY SameFiles DEF Both, Files

LEMMA StepName ==
  ASSUME Control, Sound, Recorded, Restored, BootInv, NameInv, [Next]_vars
  PROVE  NameInv'
<1> USE DEF Control, NameInv, Named, During
<1> live \in [Files -> Configs] /\ good \in [Files -> Configs \cup {None}] /\ applied \in Configs \cup {None}
  BY DEF Sound, TypeOK
<1> torn \subseteq torn'
  BY TornTypes
<1> None \notin Configs
  BY ConfigsAssumption
<1>1. CASE \E c \in Configs, r \in BOOLEAN : Deliver(c, r)
  BY <1>1 DEF Deliver, Go, Shape, Jobs, settled
<1>2. CASE NothingToDo
  BY <1>2 DEF NothingToDo, Go, Shape, Jobs, settled
<1>3. CASE Begin
  BY <1>3 DEF Begin, Idle, Go, Shape, Jobs, settled
<1>4. CASE Reject
  BY <1>4 DEF Reject, Go, Shape, Jobs, settled
<1>5. CASE Accept
  <2>1. Named /\ good["site"] = None => applied = None
    BY <1>5 DEF Accept, Both, Files
  <2>2. QED
    BY <1>5, <2>1 DEF Accept, Shape, Jobs, settled
<1>6. CASE WriteAttempt
  BY <1>6 DEF WriteAttempt, Restored, OnRecord, Recorded, Go, Shape, Jobs, settled
<1>7. CASE Announce
  BY <1>7 DEF Announce, Go, Shape, Jobs, settled
<1>8. CASE PauseGuard
  BY <1>8 DEF PauseGuard, Go, Shape, Jobs, settled
<1>9. CASE WriteSite
  BY <1>9 DEF WriteSite, Source, Files, OnRecord, Recorded, Go, Shape, Jobs, settled
<1>10. CASE WriteColl
  <2>1. CASE job.doing = "apply"
    <3>1. live'["site"] = job.sha /\ live'["coll"] = job.sha
      BY <1>10, <2>1 DEF WriteColl, Go, Source, Files, Shape
    <3>2. live' = Both(job.sha)
      BY <2>1, <3>1, BothFiles, FileTypes DEF Shape
    <3>3. QED
      BY <1>10, <2>1, <3>2 DEF WriteColl, Go, Shape, Jobs, OnRecord, Recorded
  <2>2. CASE job.doing # "apply"
    BY <1>10, <2>2 DEF WriteColl, Go, Shape, Jobs, OnRecord, Recorded
  <2>3. QED
    BY <2>1, <2>2
<1>11. CASE RestartKismet
  BY <1>11 DEF RestartKismet, Go, Shape, Jobs, settled
<1>12. CASE RestartCollector
  BY <1>12 DEF RestartCollector, Go, Shape, Jobs, settled
<1>13. CASE ApplyVerified
  BY <1>13 DEF ApplyVerified, Restored, OnRecord, Recorded, Go, Shape, Jobs, settled
<1>14. CASE RollbackVerified
  BY <1>14 DEF RollbackVerified, Go, Shape, Jobs, settled
<1>15. CASE ApplyFails
  BY <1>15 DEF ApplyFails, Go, Shape, Jobs, settled
<1>16. CASE RollbackFails
  BY <1>16 DEF RollbackFails, Restored, OnRecord, Recorded, Go, Shape, Jobs, settled
<1>17. CASE RecordApplied
  BY <1>17 DEF RecordApplied, Restored, OnRecord, Recorded, Go, Shape, Jobs, settled
<1>18. CASE KeepSite
  BY <1>18 DEF KeepSite, Go, Shape, Jobs, settled
<1>19. CASE KeepColl
  <2>1. CASE Named
    <3>1. good'["site"] = live["site"] /\ good'["coll"] = live["coll"]
      BY <1>19, <2>1 DEF KeepColl, Go, Files, BootInv, Whole
    <3>2. good' \in [Files -> Configs \cup {None}]
      BY FileTypes
    <3>3. good' = live
      BY <3>1, <3>2, SameFiles
    <3>4. CASE job.outcome = "applied"
      BY <1>19, <2>1, <3>3, <3>4 DEF KeepColl, Go, Shape, Jobs
    <3>5. CASE job.outcome # "applied"
      BY <1>19, <2>1, <3>5 DEF KeepColl, Go, Shape, Jobs
    <3>6. QED
      BY <3>4, <3>5
  <2>2. CASE ~Named
    BY <1>19, <2>2 DEF KeepColl, Go, Shape, Jobs
  <2>3. QED
    BY <2>1, <2>2
<1>20. CASE Refuse
  BY <1>20 DEF Refuse, Go, Shape, Jobs, settled
<1>21. CASE ClearAttempt
  BY <1>21 DEF ClearAttempt, Restored, OnRecord, Recorded, Go, Shape, Jobs, settled
<1>22. CASE Report
  BY <1>22 DEF Report, Idle, Restored, Go, Shape, Jobs, settled
<1>23. CASE ResumeGuard
  BY <1>23 DEF ResumeGuard, Idle, Go, Shape, Jobs, settled
<1>24. CASE Recover
  BY <1>24 DEF Recover, Off, Idle, Go, Shape, Jobs, settled
<1>25. CASE RecoverFails
  BY <1>25 DEF RecoverFails, Restored, OnRecord, Recorded, Go, Shape, Jobs, settled
<1>26. CASE RecoverRaises
  BY <1>26 DEF RecoverRaises, Delicate, Restored, OnRecord, Recorded, Go, Shape, Jobs, settled
<1>27. CASE Start
  BY <1>27 DEF Start, Idle, Go, Shape, Jobs, settled
<1>28. CASE Killed
  BY <1>28 DEF Killed, Idle, Delicate, Go, Shape, Jobs, settled
<1>29. CASE Raises
  BY <1>29 DEF Raises, Delicate, Go, Shape, Jobs, settled
<1>30. CASE Reboot
  BY <1>30 DEF Reboot, Off, Idle, Delicate, Go, Shape, Jobs, settled
<1>31. CASE Respawn
  BY <1>31 DEF Respawn, Go, Shape, Jobs, settled
<1>32. CASE UNCHANGED vars
  BY <1>32 DEF vars, Go, Shape, Jobs, settled
<1>33. QED
  BY <1>1, <1>2, <1>3, <1>4, <1>5, <1>6, <1>7, <1>8, <1>9, <1>10, <1>11, <1>12, <1>13, <1>14, <1>15,
     <1>16, <1>17, <1>18, <1>19, <1>20, <1>21, <1>22, <1>23, <1>24, <1>25, <1>26, <1>27, <1>28,
     <1>29, <1>30, <1>31, <1>32 DEF Next, ApplySteps, BootSteps

(***************************************************************************)
(* A boot starts on the configuration applied.json names, unless a run was *)
(* cut short between applied.json and the last good copies, or could not   *)
(* write the last good files back (AppliedIsRunning of config_apply).      *)
(***************************************************************************)
THEOREM AppliedIsNamed == Spec => []AppliedIsRunning
<1> DEFINE IInv == Control /\ Sound /\ Recorded /\ Restored /\ BootInv /\ NameInv
<1>1. Init => IInv
  BY InitControl, InitSound, InitRecorded, InitRestored, InitBoot, InitName
<1>2. IInv /\ [Next]_vars => IInv'
  BY StepControl, StepSound, StepRecorded, StepRestored, StepBoot, StepName
<1>3. IInv => AppliedIsRunning
  BY DEF AppliedIsRunning, NameInv, Named
<1>4. QED
  BY <1>1, <1>2, <1>3, PTL DEF Spec

-----------------------------------------------------------------------------
(* What is reported.                                                       *)

Told == torn \cap {"keepSite", "keepColl", "clear", "report"} = {}

\* The run has announced itself and not reported yet.
Announced ==
  \/ job.doing = "apply" /\ job.outcome = "none" /\ job.at \in During \cup {"pause"}
  \/ job.outcome = "applied" /\ job.at \in {"applied", "keepSite", "keepColl", "clear", "report"}
  \/ job.doing = "rollback" /\ job.at \in During \cup {"refuse", "clear", "report"}

\* Between applied.json and the end of the attempt.
Committing == job.outcome = "applied" /\ job.at \in {"keepSite", "keepColl", "clear"}

TellInv ==
  /\ job.at = "keepColl" => good["site"] = live["site"]
  /\ job.outcome = "applied" /\ job.at \in {"clear", "report"} =>
       live = Both(job.sha) /\ good = live /\ applied = job.sha
  /\ Told =>
    /\ Announced => result = [sha |-> job.sha, is |-> "applying"]
    /\ job.doing = "apply" /\ job.outcome = "none" => applied # job.sha
    /\ job.doing \in {"rollback", "recover"} => applied # job.sha
    /\ attempt # None /\ ~Committing => applied # attempt
    /\ job.at \in {"keepSite", "keepColl"} /\ job.outcome = "none" /\ result # None =>
         result.is # "applied" /\ (result.is = "rolled_back" => attempt # None)
    /\ result # None =>
         /\ result.is = "applied" =>
              applied = result.sha /\ good = Both(result.sha) /\ (attempt = None => live = good)
         /\ result.is = "rolled_back" => applied # result.sha /\ (attempt = None => live = good)
         /\ result.is = "applying" /\ attempt = None => job.at = "report" /\ job.outcome # "rejected"

LEMMA InitTell == Init => TellInv
BY IdleJob DEF Init, TellInv, Announced, During

LEMMA StepTell ==
  ASSUME Control, Sound, Recorded, Restored, NameInv, TellInv, [Next]_vars
  PROVE  TellInv'
<1> USE DEF Control, TellInv, Told, During, Announced, Committing
<1> live \in [Files -> Configs] /\ good \in [Files -> Configs \cup {None}] /\ applied \in Configs \cup {None}
  BY DEF Sound, TypeOK
<1> result \in {None} \cup [sha: Configs, is: Results]
  BY DEF Sound, TypeOK
<1> torn \subseteq torn'
  BY TornTypes
<1> None \notin Configs
  BY ConfigsAssumption
<1>1. CASE \E c \in Configs, r \in BOOLEAN : Deliver(c, r)
  BY <1>1 DEF Deliver, Go, Shape, Jobs, settled
<1>2. CASE NothingToDo
  BY <1>2 DEF NothingToDo, Go, Shape, Jobs, settled
<1>3. CASE Begin
  BY <1>3 DEF Begin, Idle, Settled, Go, Shape, Jobs, settled
<1>4. CASE Reject
  BY <1>4 DEF Reject, Go, Shape, Jobs, settled
<1>5. CASE Accept
  <2>1. Told /\ good["site"] = None /\ result # None =>
          result.is # "applied" /\ (result.is = "rolled_back" => attempt # None)
    BY <1>5 DEF Accept, Both, Files
  <2>2. QED
    BY <1>5, <2>1 DEF Accept, Shape, Jobs, settled
<1>6. CASE WriteAttempt
  BY <1>6 DEF WriteAttempt, Restored, OnRecord, Recorded, Go, Shape, Jobs, settled
<1>7. CASE Announce
  BY <1>7 DEF Announce, Restored, OnRecord, Recorded, Go, Shape, Jobs, settled
<1>8. CASE PauseGuard
  BY <1>8 DEF PauseGuard, Go, Shape, Jobs, settled
<1>9. CASE WriteSite
  BY <1>9 DEF WriteSite, Restored, OnRecord, Recorded, Go, Shape, Jobs, settled
<1>10. CASE WriteColl
  BY <1>10 DEF WriteColl, Restored, OnRecord, Recorded, Go, Shape, Jobs, settled
<1>11. CASE RestartKismet
  BY <1>11 DEF RestartKismet, Go, Shape, Jobs, settled
<1>12. CASE RestartCollector
  BY <1>12 DEF RestartCollector, Go, Shape, Jobs, settled
<1>13. CASE ApplyVerified
  BY <1>13 DEF ApplyVerified, Restored, OnRecord, Recorded, Go, Shape, Jobs, settled
<1>14. CASE RollbackVerified
  BY <1>14 DEF RollbackVerified, Go, Shape, Jobs, settled
<1>15. CASE ApplyFails
  BY <1>15 DEF ApplyFails, Go, Shape, Jobs, settled
<1>16. CASE RollbackFails
  BY <1>16 DEF RollbackFails, Restored, OnRecord, Recorded, Go, Shape, Jobs, settled
<1>17. CASE RecordApplied
  BY <1>17 DEF RecordApplied, Restored, OnRecord, Recorded, Go, Shape, Jobs, settled
<1>18. CASE KeepSite
  BY <1>18 DEF KeepSite, Files, Go, Shape, Jobs
<1>19. CASE KeepColl
  <2>1. good'["site"] = live["site"] /\ good'["coll"] = live["coll"]
    BY <1>19 DEF KeepColl, Go, Files
  <2>2. good' \in [Files -> Configs \cup {None}]
    BY FileTypes
  <2>3. good' = live
    BY ONLY <2>1, <2>2, SameFiles, live \in [Files -> Configs]
  <2>4. QED
    BY <1>19, <2>3 DEF KeepColl, NameInv, Go, Shape, Jobs
<1>20. CASE Refuse
  BY <1>20 DEF Refuse, Go, Shape, Jobs, settled
<1>21. CASE ClearAttempt
  BY <1>21 DEF ClearAttempt, NameInv, Restored, OnRecord, Recorded, Idle, Go, Shape, Jobs, settled
<1>22. CASE Report
  BY <1>22 DEF Report, NameInv, Restored, OnRecord, Recorded, Idle, Go, Shape, Jobs, settled
<1>23. CASE ResumeGuard
  BY <1>23 DEF ResumeGuard, Idle, Go, Shape, Jobs, settled
<1>24. CASE Recover
  BY <1>24 DEF Recover, Off, Idle, Go, Shape, Jobs, settled
<1>25. CASE RecoverFails
  BY <1>25 DEF RecoverFails, Restored, OnRecord, Recorded, Go, Shape, Jobs, settled
<1>26. CASE RecoverRaises
  BY <1>26 DEF RecoverRaises, Delicate, Go, Shape, Jobs, settled
<1>27. CASE Start
  BY <1>27 DEF Start, Idle, Go, Shape, Jobs, settled
<1>28. CASE Killed
  BY <1>28 DEF Killed, Idle, Delicate, Go, Shape, Jobs, settled
<1>29. CASE Raises
  BY <1>29 DEF Raises, Delicate, Go, Shape, Jobs, settled
<1>30. CASE Reboot
  BY <1>30 DEF Reboot, Off, Idle, Delicate, Go, Shape, Jobs, settled
<1>31. CASE Respawn
  BY <1>31 DEF Respawn, Go, Shape, Jobs, settled
<1>32. CASE UNCHANGED vars
  BY <1>32 DEF vars, Go, Shape, Jobs, settled
<1>33. QED
  BY <1>1, <1>2, <1>3, <1>4, <1>5, <1>6, <1>7, <1>8, <1>9, <1>10, <1>11, <1>12, <1>13, <1>14, <1>15,
     <1>16, <1>17, <1>18, <1>19, <1>20, <1>21, <1>22, <1>23, <1>24, <1>25, <1>26, <1>27, <1>28,
     <1>29, <1>30, <1>31, <1>32 DEF Next, ApplySteps, BootSteps

(***************************************************************************)
(* What the uploader reads in result.json is true of the files while       *)
(* nothing is under way, unless a run was cut short after its verdict      *)
(* (ReportIsTrue of config_apply).                                         *)
(***************************************************************************)
THEOREM ReportsAreTrue == Spec => []ReportIsTrue
<1> DEFINE IInv == Control /\ Sound /\ Recorded /\ Restored /\ NameInv /\ BootInv /\ TellInv
<1>1. Init => IInv
  BY InitControl, InitSound, InitRecorded, InitRestored, InitName, InitBoot, InitTell
<1>2. IInv /\ [Next]_vars => IInv'
  BY StepControl, StepSound, StepRecorded, StepRestored, StepName, StepBoot, StepTell
<1>3. IInv => ReportIsTrue
  <2> SUFFICES ASSUME IInv, Told, job = Idle, result # None
               PROVE  /\ result.is = "applied" =>
                           applied = result.sha /\ good = Both(result.sha) /\ (attempt = None => live = good)
                      /\ result.is = "rolled_back" => applied # result.sha /\ (attempt = None => live = good)
                      /\ result.is = "applying" => attempt # None
    BY DEF ReportIsTrue, Told
  <2>1. job.at = "idle"
    BY IdleJob
  <2>2. QED
    BY <2>1 DEF TellInv
<1>4. QED
  BY <1>1, <1>2, <1>3, PTL DEF Spec
=============================================================================
