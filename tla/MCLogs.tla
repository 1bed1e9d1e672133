------------------------------- MODULE MCLogs -------------------------------
(* The two logs share nothing: a behaviour is one of either.               *)
EXTENDS RunLog, RamLog, TLC

Threads == Permutations(Writers)

VARIABLE which
EitherInit ==
  /\ which \in {"run", "ram"} /\ Init /\ RamInit
  /\ which = "ram" => format = "txt"
EitherNext ==
  \/ which = "run" /\ Next /\ UNCHANGED <<which, ramlog>>
  \/ which = "ram" /\ RamNext /\ UNCHANGED <<which, vars>>
EitherSpec == EitherInit /\ [][EitherNext]_<<which, vars, ramlog>>
=============================================================================
