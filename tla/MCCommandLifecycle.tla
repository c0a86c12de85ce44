------------------------ MODULE MCCommandLifecycle ------------------------
(* Small instances of CommandLifecycle for TLC: one command, either of an  *)
(* enrolled device or of a legacy one.  Deadlines are in ticks of a clock  *)
(* that stops at MaxTime; every deadline that can be stored falls before   *)
(* it.                                                                     *)
EXTENDS CommandLifecycle, TLC

CONSTANTS enrolled, legacy

\* No second command is created; nothing else of a behaviour is held back.
OneCommand == \A c, d \in Command : c # d => "ABSENT" \in {commands[c].state, commands[d].state}

OneSpec == Init /\ [][Next /\ OneCommand']_vars /\ Fairness
=============================================================================
