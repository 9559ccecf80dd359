------------------------------- MODULE MCCron -------------------------------
(***************************************************************************)
(* The two calls Work makes for the next firing, Parse and Next, each on   *)
(* inputs of its own: a pattern is parsed, or a schedule is searched.      *)
(***************************************************************************)
EXTENDS MCCronParser, MCCronNext

\* An unknown descriptor, already refused.
NothingToParse ==
    /\ input = [kind |-> "descriptor", name |-> "other"]
    /\ fields = <<>> /\ at = <<1, 1>> /\ bits = [f \in Fields |-> {}] /\ delay = 0
    /\ stage = "error"

\* Every second, already found.
NothingToSearch ==
    /\ s = [second |-> 0..(Seconds - 1), minute |-> 0..(Minutes - 1), hour |-> 0..(Hours - 1),
            month |-> 1..Months, dom |-> Star(1..3), dow |-> Star(0..2)]
    /\ now = 0 /\ t = 1 /\ added = FALSE /\ pc = "done"

CronInit ==
    \/ ParseInit /\ NothingToSearch
    \/ NothingToParse /\ Init

CronStep ==
    \/ ParseNext /\ UNCHANGED vars
    \/ Next /\ UNCHANGED parseVars

CronSpec == CronInit /\ [][CronStep]_<<vars, parseVars>> /\ WF_vars(Next)
=============================================================================
