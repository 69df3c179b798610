-------------------------- MODULE MCClarification ---------------------------
(***************************************************************************)
(* LoopController with a history of what the user has answered.            *)
(***************************************************************************)
EXTENDS MCLoopController

VARIABLE crsAnswered  \* tasks whose missing CRS the user was asked for and gave

WatchedInit == Init /\ crsAnswered = {}

WatchedNext ==
  /\ Next
  /\ crsAnswered' = IF human.aboutCrs /\ human' = NoQuestion
                    THEN crsAnswered \cup {human.task} ELSE crsAnswered

WatchedSpec == WatchedInit /\ [][WatchedNext]_<<vars, crsAnswered>>

\* A user who gave the CRS a task was missing is not asked for it again by a
\* profile that can replan (ResumeService.answer, _enforce_recovery_route).
AnsweredCrsIsNotAskedAgain ==
  (Structural /\ human.aboutCrs) => human.task \notin crsAnswered
=============================================================================
