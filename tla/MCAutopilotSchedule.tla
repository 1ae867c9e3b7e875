------------------------- MODULE MCAutopilotSchedule -------------------------
(* Small instances of AutopilotSchedule for TLC.                           *)
EXTENDS AutopilotSchedule
=============================================================================
