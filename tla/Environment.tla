---------------------------- MODULE Environment ----------------------------
(***************************************************************************)
(* What a database asks of its environment: open tables and their blocks   *)
(* (TableCache), locks and background work (PosixEnv), files to write      *)
(* (PosixWritableFile), a log (LogFile), and a directory that can be       *)
(* repaired (Repair).  They share no variable in the code either: the      *)
(* limiters belong to the first, the table of locks and the queue to the   *)
(* second, a writable file and a log to the thread that writes them, and   *)
(* RepairDB runs alone.  A behaviour therefore exercises one of them,      *)
(* chosen at the beginning, and the others rest.                           *)
(***************************************************************************)
EXTENDS TableCache, PosixEnv, PosixWritableFile, LogFile, Repair

VARIABLE exercised

envvars == <<tcvars, pevars, wfvars, lgvars, rpvars, exercised>>

EnvInit ==
  /\ exercised \in {"tables", "locks", "file", "log", "repair"}
  /\ TCInit /\ PEInit /\ WFInit /\ LGInit /\ RPInit
  /\ (exercised # "tables" => using_direct_io = CHOOSE b \in DirectIO : TRUE)
  /\ (exercised # "file" => is_manifest_ = CHOOSE b \in Manifest : TRUE)

EnvNext ==
  \/ exercised = "tables" /\ TCNext /\ UNCHANGED <<pevars, wfvars, lgvars, rpvars, exercised>>
  \/ exercised = "locks"  /\ PENext /\ UNCHANGED <<tcvars, wfvars, lgvars, rpvars, exercised>>
  \/ exercised = "file"   /\ WFNext /\ UNCHANGED <<tcvars, pevars, lgvars, rpvars, exercised>>
  \/ exercised = "log"    /\ LGNext /\ UNCHANGED <<tcvars, pevars, wfvars, rpvars, exercised>>
  \/ exercised = "repair" /\ RPNext /\ UNCHANGED <<tcvars, pevars, wfvars, lgvars, exercised>>

EnvSpec == EnvInit /\ [][EnvNext]_envvars /\ PEFairness

=============================================================================
