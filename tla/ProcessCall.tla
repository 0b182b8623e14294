---------------------------- MODULE ProcessCall ----------------------------
(***************************************************************************)
(* What one call of RunProcess promises: the program runs once, ends by    *)
(* itself or is killed because the time is up or the user interrupted, and *)
(* the call then returns with the status the program really ended with     *)
(* and leaves no process behind.  A program that cannot be started gives   *)
(* the status 127.                                                         *)
(*                                                                         *)
(* RunProcess implements this module; TestRunner uses Results, the set of  *)
(* results a call may give.                                                *)
(***************************************************************************)
EXTENDS Integers

CONSTANT OwnStatus   \* the statuses a program may end with by itself

NotStarted == 127    \* also what _exit(127) gives between fork and exec
SIGKILL == 9
ByKill == 128 + SIGKILL

Result == [status : OwnStatus \cup {NotStarted, ByKill}, timedOut : BOOLEAN]

Running == -1

\* The results a call may give when the time is up (late) or not, and the user
\* has interrupted (stopped) or not: a program may end by itself just
\* after the time was up, and is killed only for one of the two reasons.
Results(late, stopped) ==
    {r \in Result : /\ r.timedOut => late
                    /\ r.status = ByKill /\ ByKill \notin OwnStatus =>
                         r.timedOut \/ stopped}

VARIABLES
    phase,        \* "called", "running", "returned"
    ended,        \* the status the program ended with, Running if it has not
    expired,      \* the time is up
    interrupted,  \* the user pressed Ctrl-C
    result        \* what the call returned

callVars == <<phase, ended, expired, interrupted, result>>

Init ==
    /\ phase = "called"
    /\ ended = Running
    /\ expired = FALSE
    /\ interrupted = FALSE
    /\ result = [status |-> NotStarted, timedOut |-> FALSE]

Start ==
    /\ phase = "called"
    /\ phase' = "running"
    /\ UNCHANGED <<ended, expired, interrupted, result>>

\* Nothing could be started.
Refuse ==
    /\ phase = "called"
    /\ phase' = "returned"
    /\ UNCHANGED <<ended, expired, interrupted, result>>

\* The program ends by itself, or fails to become the program.
End ==
    /\ phase = "running"
    /\ ended = Running
    /\ ended' \in OwnStatus \cup {NotStarted}
    /\ UNCHANGED <<phase, expired, interrupted, result>>

Kill ==
    /\ phase = "running"
    /\ ended = Running
    /\ expired \/ interrupted
    /\ ended' = ByKill
    /\ UNCHANGED <<phase, expired, interrupted, result>>

\* The call says how the program ended.
Return ==
    /\ phase = "running"
    /\ ended # Running
    /\ phase' = "returned"
    /\ result' \in {r \in Results(expired, interrupted) : r.status = ended}
    /\ UNCHANGED <<ended, expired, interrupted>>

Disturb ==
    /\ \/ expired' = TRUE /\ UNCHANGED interrupted
       \/ interrupted' = TRUE /\ UNCHANGED expired
    /\ UNCHANGED <<phase, ended, result>>

Next == Start \/ Refuse \/ End \/ Kill \/ Return \/ Disturb

Spec == Init /\ [][Next]_callVars
=============================================================================
