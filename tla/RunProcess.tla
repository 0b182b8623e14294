----------------------------- MODULE RunProcess -----------------------------
(***************************************************************************)
(* One call of RunProcess (src/tooling/TestRunner.cpp, POSIX): the thread  *)
(* that calls it, the child it forks, a helper the program may start, and  *)
(* the kernel between them: the pipe, the process group, the zombie.       *)
(*                                                                         *)
(* Every system call is a step, so that the child and the caller meet in   *)
(* every order.  The pipe is the sequence of everything written to it: the *)
(* part captured, then the part nobody has read; what is read and dropped  *)
(* because the capture is full is taken out, so that a program may write   *)
(* for ever.                                                               *)
(***************************************************************************)
EXTENDS Integers, Sequences, SequencesExt

CONSTANTS
    OwnStatus,    \* the statuses a program may end with by itself
    MaxCaptured,  \* MaxCapturedBytes, in chunks
    BufSize,      \* the chunks one read takes at most
    PipeSize      \* the chunks a pipe holds (the kernel's limit)

ASSUME SizesAssumption == {MaxCaptured, BufSize, PipeSize} \subseteq Nat \ {0}
ASSUME StatusAssumption == OwnStatus \subseteq Nat

VARIABLES
    pc,           \* where the calling thread is
    killed,       \* Killed: the group was sent SIGKILL once
    timedOut,     \* R.TimedOut
    eof,          \* Eof
    output,       \* R.Output
    waitStatus,   \* what waitpid stored
    leader,       \* the child: none, forked, grouped (its own setpgid is
                  \* done), running (the program), zombie, gone (reaped)
    ownGroup,     \* the child is in the process group Pid
    ended,        \* the status the child ended with, Running if it has not
    helper,       \* a process the program started: none, running, gone
    sibling,      \* the child of another thread's call holds the write end
    sent,         \* what was written to the pipe, less what was dropped
    expired,      \* TimeoutSec seconds have passed (every caller gives a limit)
    interrupted   \* g_Interrupted

callerVars == <<pc, killed, timedOut, eof, output, waitStatus>>
childVars == <<leader, ownGroup, ended, helper, sent>>
vars == <<callerVars, childVars, sibling, expired, interrupted>>

NotStarted == 127
SIGKILL == 9
ByKill == 128 + SIGKILL
Running == -1

Process == {"leader", "helper"}
Position == {"pipe", "fork", "setpgid", "close", "loop", "drain", "wait",
             "last", "kill", "done"}

TypeOK ==
    /\ pc \in Position
    /\ {killed, timedOut, eof, ownGroup, sibling, expired, interrupted}
         \subseteq BOOLEAN
    /\ output \in Seq(Process)
    /\ {waitStatus, ended} \subseteq OwnStatus \cup {NotStarted, ByKill, Running}
    /\ leader \in {"none", "forked", "grouped", "running", "zombie", "gone"}
    /\ helper \in {"none", "running", "gone"}
    /\ sent \in Seq(Process)
    /\ Len(output) <= Len(sent)

Init ==
    /\ pc = "pipe"
    /\ killed = FALSE /\ timedOut = FALSE /\ eof = FALSE
    /\ output = <<>> /\ waitStatus = Running
    /\ leader = "none" /\ ownGroup = FALSE /\ ended = Running
    /\ helper = "none" /\ sibling = FALSE
    /\ sent = <<>>
    /\ expired = FALSE /\ interrupted = FALSE

(***************************************************************************)
(* The kernel                                                              *)
(***************************************************************************)
\* The child between fork and its end.
Alive == leader \in {"forked", "grouped", "running"}

\* The chunks the caller has not read: the output is the read part of sent.
Unread == Len(sent) - Len(output)

\* The caller's own write end, then everyone who inherited it.
WriterLeft ==
    \/ pc \in {"fork", "setpgid", "close"}
    \/ Alive \/ helper = "running" \/ sibling

\* killpg(Pid, SIGKILL): everyone in the group dies; nobody else does.  The
\* helper inherited the group of the program that started it.
KillGroup ==
    /\ leader' = IF ownGroup /\ Alive THEN "zombie" ELSE leader
    /\ ended' = IF ownGroup /\ Alive THEN ByKill ELSE ended
    /\ helper' = IF ownGroup /\ helper = "running" THEN "gone" ELSE helper
    /\ UNCHANGED <<ownGroup, sent>>

(***************************************************************************)
(* The caller                                                              *)
(***************************************************************************)
CreatePipe ==
    /\ pc = "pipe"
    /\ \/ pc' = "fork" /\ UNCHANGED waitStatus
       \/ pc' = "done" /\ waitStatus' = NotStarted    \* no pipe
    /\ UNCHANGED <<killed, timedOut, eof, output, childVars, sibling,
                   expired, interrupted>>

Fork ==
    /\ pc = "fork"
    /\ \/ /\ pc' = "setpgid"
          /\ leader' = "forked"
          /\ UNCHANGED waitStatus
       \/ /\ pc' = "done"                             \* no process
          /\ waitStatus' = NotStarted
          /\ UNCHANGED leader
    /\ UNCHANGED <<killed, timedOut, eof, output, ownGroup, ended, helper,
                   sent, sibling, expired, interrupted>>

\* setpgid(Pid, Pid), which the kernel refuses once the child has become the
\* program.
SetGroup ==
    /\ pc = "setpgid"
    /\ pc' = "close"
    /\ ownGroup' = (ownGroup \/ leader \in {"forked", "grouped"})
    /\ UNCHANGED <<killed, timedOut, eof, output, waitStatus, leader, ended,
                   helper, sent, sibling, expired, interrupted>>

CloseWriteEnd ==
    /\ pc = "close"
    /\ pc' = "loop"
    /\ UNCHANGED <<killed, timedOut, eof, output, waitStatus, childVars,
                   sibling, expired, interrupted>>

\* Mutant: whatever the reason for the kill, the time is said to be up.
CheckTimeBlamesClock ==
    /\ pc = "loop"
    /\ pc' = IF eof THEN "wait" ELSE "drain"
    /\ IF ~killed /\ (expired \/ interrupted)
         THEN killed' = TRUE /\ timedOut' = TRUE /\ KillGroup
         ELSE UNCHANGED <<killed, timedOut, childVars>>
    /\ UNCHANGED <<eof, output, waitStatus, sibling, expired, interrupted>>

\* The head of the loop: the time and the flag are looked at once, together.
CheckTime ==
    /\ pc = "loop"
    /\ pc' = IF eof THEN "wait" ELSE "drain"
    /\ IF ~killed /\ (expired \/ interrupted)
         THEN killed' = TRUE /\ timedOut' = expired /\ KillGroup
         ELSE UNCHANGED <<killed, timedOut, childVars>>
    /\ UNCHANGED <<eof, output, waitStatus, sibling, expired, interrupted>>

\* One read of Drain, in the loop and after it.  What does not fit is read
\* all the same, and dropped, so that the program is never left waiting.
Read ==
    LET taken == IF Unread < BufSize THEN Unread ELSE BufSize
        nextPc == IF pc = "drain" THEN "wait" ELSE "kill"
    IN /\ pc \in {"drain", "last"}
       /\ IF Len(output) < MaxCaptured
            THEN /\ output' = SubSeq(sent, 1, Len(output) + taken)
                 /\ UNCHANGED sent
            ELSE /\ sent' = output \o SubSeq(sent, Len(output) + taken + 1, Len(sent))
                 /\ UNCHANGED output
       /\ eof' = (eof \/ (taken = 0 /\ ~WriterLeft))
       /\ pc' = IF taken > 0 THEN pc ELSE nextPc
       /\ UNCHANGED <<killed, timedOut, waitStatus, leader, ownGroup, ended,
                      helper, sibling, expired, interrupted>>

\* Mutant: nothing is read after waitpid.
WaitThenKill ==
    /\ pc = "wait"
    /\ IF leader = "zombie"
         THEN pc' = "kill" /\ leader' = "gone" /\ waitStatus' = ended
         ELSE pc' = "loop" /\ UNCHANGED <<leader, waitStatus>>
    /\ UNCHANGED <<killed, timedOut, eof, output, ownGroup, ended, helper,
                   sent, sibling, expired, interrupted>>

\* Mutant: the child is waited for at the end of the output only.
WaitAtEof ==
    /\ pc = "wait"
    /\ IF eof /\ leader = "zombie"
         THEN pc' = "last" /\ leader' = "gone" /\ waitStatus' = ended
         ELSE pc' = "loop" /\ UNCHANGED <<leader, waitStatus>>
    /\ UNCHANGED <<killed, timedOut, eof, output, ownGroup, ended, helper,
                   sent, sibling, expired, interrupted>>

\* waitpid(Pid, ..., WNOHANG)
Wait ==
    /\ pc = "wait"
    /\ IF leader = "zombie"
         THEN pc' = "last" /\ leader' = "gone" /\ waitStatus' = ended
         ELSE pc' = "loop" /\ UNCHANGED <<leader, waitStatus>>
    /\ UNCHANGED <<killed, timedOut, eof, output, ownGroup, ended, helper,
                   sent, sibling, expired, interrupted>>

\* Mutant: a helper is left alone.
KillNoHelpers ==
    /\ pc = "kill"
    /\ pc' = "done"
    /\ UNCHANGED <<killed, timedOut, eof, output, waitStatus, childVars,
                   sibling, expired, interrupted>>

\* close, then killpg once more, for a helper the program left running.
KillHelpers ==
    /\ pc = "kill"
    /\ pc' = "done"
    /\ KillGroup
    /\ UNCHANGED <<killed, timedOut, eof, output, waitStatus, sibling,
                   expired, interrupted>>

Caller == CreatePipe \/ Fork \/ SetGroup \/ CloseWriteEnd \/ CheckTime \/ Read
            \/ Wait \/ KillHelpers

(***************************************************************************)
(* The child and the helper                                                *)
(***************************************************************************)
ChildSetGroup ==
    /\ leader = "forked"
    /\ leader' = "grouped"
    /\ ownGroup' = TRUE
    /\ UNCHANGED <<callerVars, ended, helper, sent, sibling, expired, interrupted>>

\* chdir and execv, or _exit(127) where one of them fails.
Exec ==
    /\ leader = "grouped"
    /\ \/ leader' = "running" /\ UNCHANGED ended
       \/ leader' = "zombie" /\ ended' = NotStarted
    /\ UNCHANGED <<callerVars, ownGroup, helper, sent, sibling, expired,
                   interrupted>>

\* A write waits while the pipe is full.  Nothing else stops a process that
\* prints without end, which is what the timeout is for.
Write(p) ==
    /\ CASE p = "leader" -> leader = "running"
         [] p = "helper" -> helper = "running"
    /\ Unread < PipeSize
    /\ sent' = Append(sent, p)
    /\ UNCHANGED <<callerVars, leader, ownGroup, ended, helper, sibling, expired,
                   interrupted>>

StartHelper ==
    /\ leader = "running" /\ helper = "none"
    /\ helper' = "running"
    /\ UNCHANGED <<callerVars, leader, ownGroup, ended, sent, sibling, expired,
                   interrupted>>

\* The program exits, panics, or is ended by a signal of its own.
LeaderEnds ==
    /\ leader = "running"
    /\ leader' = "zombie"
    /\ ended' \in OwnStatus
    /\ UNCHANGED <<callerVars, ownGroup, helper, sent, sibling, expired,
                   interrupted>>

HelperEnds ==
    /\ helper = "running"
    /\ helper' = "gone"
    /\ UNCHANGED <<callerVars, leader, ownGroup, ended, sent, sibling, expired,
                   interrupted>>

Program == \E p \in Process : Write(p)

(***************************************************************************)
(* Time, the user, and the other calls of the process                      *)
(***************************************************************************)
Expire ==
    /\ ~expired /\ leader # "none"
    /\ expired' = TRUE
    /\ UNCHANGED <<callerVars, childVars, sibling, interrupted>>

Interrupt ==
    /\ ~interrupted
    /\ interrupted' = TRUE
    /\ UNCHANGED <<callerVars, childVars, sibling, expired>>

\* Another worker's call forks while the write end is open here: its child
\* has a copy until it execs, or for good if FD_CLOEXEC was not set yet.
SiblingInherits ==
    /\ pc \in {"fork", "setpgid", "close"} /\ ~sibling
    /\ sibling' = TRUE
    /\ UNCHANGED <<callerVars, childVars, expired, interrupted>>

SiblingCloses ==
    /\ sibling
    /\ sibling' = FALSE
    /\ UNCHANGED <<callerVars, childVars, expired, interrupted>>

Next ==
    \/ Caller
    \/ ChildSetGroup \/ Exec \/ Program \/ StartHelper \/ LeaderEnds \/ HelperEnds
    \/ Expire \/ Interrupt \/ SiblingInherits \/ SiblingCloses

Spec == Init /\ [][Next]_vars

\* The caller's thread and a child that is not a program yet run on.  A
\* program may hang or print without end, a helper or a sibling stay for ever,
\* and the limit may be as far away as it likes.
FairSpec ==
    /\ Spec
    /\ WF_vars(Caller)
    /\ WF_vars(ChildSetGroup) /\ WF_vars(Exec)

(***************************************************************************)
(* Properties                                                              *)
(***************************************************************************)
\* The group is killed only once, so this kill has to find the program: from
\* the first look at the clock on the child is in a group of its own, whoever
\* of the two calls of setpgid came first (TestRunner.cpp:127 and :139).
KillReaches ==
    /\ pc \notin {"pipe", "fork", "setpgid"} /\ Alive => ownGroup
    /\ killed => ~Alive

\* When the call returns, neither the program nor a helper it started runs on
\* (TestRunner.cpp:91-95 and :184).
NobodyIsLeft == pc = "done" => ~Alive /\ helper # "running"

\* What the call returns is the beginning of what was written, and all that
\* the program wrote before it ended is in it unless the capture was full: the
\* last Drain comes after waitpid (TestRunner.cpp:182).
OutputIsComplete ==
    /\ IsPrefix(output, sent)
    /\ pc = "done" /\ Len(output) < MaxCaptured =>
         \A i \in DOMAIN sent : sent[i] = "leader" => i <= Len(output)

\* An assumption the code does not secure: a writer does not get ahead of the
\* caller between two reads of Drain every single time.  Where it does, Drain,
\* which goes on as long as a read returns something and looks neither at the
\* clock nor at the flag (TestRunner.cpp:148-160), never ends, and the kill that
\* :91-95 promise is never sent.
CatchesUp == SF_vars(Read /\ Unread = 0)

\* A call ends once its program is over, or the time is up, or the user
\* interrupted, although a helper or a sibling may keep the write end open and
\* the program may print without end, as long as Drain catches up with it; and
\* in any case a full pipe is emptied, also when the capture is full, so that
\* the program is never left waiting in a write (TestRunner.cpp:150-154).
CallReturns ==
    /\ CatchesUp =>
         ((leader \in {"zombie", "gone"} \/ expired \/ interrupted)
            ~> (pc = "done"))
    /\ (Unread = PipeSize) ~> (Unread < PipeSize \/ pc = "done")

\* RunProcess implements ProcessCall: the status is the one the program ended
\* with, and only the clock or the user can have killed it.
Abstract == INSTANCE ProcessCall WITH
    phase <- IF pc = "done" THEN "returned"
             ELSE IF leader = "none" THEN "called" ELSE "running",
    result <- [status |-> IF pc = "done" THEN waitStatus ELSE NotStarted,
               timedOut |-> pc = "done" /\ timedOut]

ImplementsCall == Abstract!Spec
=============================================================================
