------------------------------ MODULE Driver_proofs ------------------------------
(***************************************************************************)
(* Theorems about two things turfc does on the way from a checked program  *)
(* to its result.  RunProcess, the process it starts: for every capacity   *)
(* of the pipe, the buffer and the capture and every set of statuses,      *)
(* however much is written, the kill reaches the program and a call leaves *)
(* no process behind.  FlowPasses, the flow passes over each function: for *)
(* every graph, when a pass judges, it judges at a fixpoint.               *)
(***************************************************************************)
EXTENDS RunProcess, FlowPasses, FiniteSetTheorems, WellFoundedInduction, TLAPS

(***************************************************************************)
(* RunProcess.                                                             *)
(***************************************************************************)
\* The group of a program is its own: the child sees to it before it becomes
\* the program, the caller before it can send a kill.
GroupOK ==
    /\ leader \in {"grouped", "running"} => ownGroup
    /\ pc \notin {"pipe", "fork", "setpgid"} /\ Alive => ownGroup
    /\ helper = "running" => ownGroup

\* Where the caller is, and what became of the child by then.
CallerOK ==
    /\ pc \in Position
    /\ leader \in {"none", "forked", "grouped", "running", "zombie", "gone"}
    /\ helper \in {"none", "running", "gone"}
    /\ ownGroup \in BOOLEAN /\ killed \in BOOLEAN
    /\ pc \in {"pipe", "fork"} => leader = "none" /\ ~killed
    /\ pc \notin {"pipe", "fork", "done"} => leader # "none"
    /\ pc \in {"last", "kill"} => leader = "gone"
    /\ pc = "done" => leader \in {"none", "gone"} /\ helper # "running"
    /\ leader = "none" => helper = "none" /\ ~killed
    /\ killed => leader \in {"zombie", "gone"}

IInv == GroupOK /\ CallerOK

LEMMA InitInv == Init => IInv
  BY DEF Init, IInv, GroupOK, CallerOK, Position, Alive

LEMMA StepInv == IInv /\ [Next]_vars => IInv'
<1> SUFFICES ASSUME IInv, [Next]_vars PROVE IInv'
  OBVIOUS
<1> USE DEF IInv, GroupOK, CallerOK, Position, Alive
<1>1. CASE CreatePipe
  BY <1>1 DEF CreatePipe, childVars
<1>2. CASE Fork
  BY <1>2 DEF Fork
<1>3. CASE SetGroup
  BY <1>3 DEF SetGroup
<1>4. CASE CloseWriteEnd
  BY <1>4 DEF CloseWriteEnd, childVars
<1>5. CASE CheckTime
  <2>1. CASE ~killed /\ (expired \/ interrupted)
    BY <1>5, <2>1 DEF CheckTime, KillGroup
  <2>2. CASE ~(~killed /\ (expired \/ interrupted))
    BY <1>5, <2>2 DEF CheckTime, childVars
  <2> QED BY <2>1, <2>2
<1>6. CASE Read
  BY <1>6 DEF Read
<1>7. CASE Wait
  BY <1>7 DEF Wait
<1>8. CASE KillHelpers
  BY <1>8 DEF KillHelpers, KillGroup
<1>9. CASE ChildSetGroup
  BY <1>9 DEF ChildSetGroup, callerVars
<1>10. CASE Exec
  BY <1>10 DEF Exec, callerVars
<1>11. CASE Program
  BY <1>11 DEF Program, Write, callerVars
<1>12. CASE StartHelper
  BY <1>12 DEF StartHelper, callerVars
<1>13. CASE LeaderEnds
  BY <1>13 DEF LeaderEnds, callerVars
<1>14. CASE HelperEnds
  BY <1>14 DEF HelperEnds, callerVars
<1>15. CASE Expire \/ Interrupt \/ SiblingInherits \/ SiblingCloses
  BY <1>15 DEF Expire, Interrupt, SiblingInherits, SiblingCloses, callerVars,
               childVars
<1>16. CASE UNCHANGED vars
  BY <1>16 DEF vars, callerVars, childVars
<1> QED
  BY <1>1, <1>2, <1>3, <1>4, <1>5, <1>6, <1>7, <1>8, <1>9, <1>10, <1>11, <1>12,
     <1>13, <1>14, <1>15, <1>16 DEF Next, Caller

THEOREM Invariance == Spec => []IInv
  BY InitInv, StepInv, PTL DEF Spec

\* The kill, which is sent once, finds the program in the group it is sent to,
\* in every order of the two calls of setpgid, the exec and the clock.
THEOREM KillAlwaysReaches == Spec => []KillReaches
<1>1. IInv => KillReaches
  BY DEF IInv, GroupOK, CallerOK, KillReaches, Alive
<1> QED BY <1>1, Invariance, PTL

\* A call that returned has left neither the program nor a helper behind.
THEOREM NobodyIsEverLeft == Spec => []NobodyIsLeft
<1>1. IInv => NobodyIsLeft
  BY DEF IInv, CallerOK, NobodyIsLeft, Alive
<1> QED BY <1>1, Invariance, PTL

-----------------------------------------------------------------------------
\* The capture is the read part of what was written; after the last read
\* nothing of the program is unread.
OutputOK ==
    /\ sent \in Seq(Process) /\ output \in Seq(Process)
    /\ Len(output) <= Len(sent)
    /\ \A i \in 1 .. Len(output) : output[i] = sent[i]
    /\ pc \in {"pipe", "fork"} => sent = <<>>
    /\ pc \in {"kill", "done"} =>
         \A i \in 1 .. Len(sent) : sent[i] = "leader" => i <= Len(output)

\* Dropping the chunks from m on, up to n, leaves the first m alone.
LEMMA DropKeeps ==
    ASSUME OutputOK, NEW n \in Nat, Len(output) + n <= Len(sent)
    PROVE  LET left == output \o SubSeq(sent, Len(output) + n + 1, Len(sent))
           IN /\ left \in Seq(Process)
              /\ Len(left) = Len(sent) - n
              /\ \A i \in 1 .. Len(output) : left[i] = output[i]
<1> DEFINE piece == SubSeq(sent, Len(output) + n + 1, Len(sent))
<1>1. piece \in Seq(Process) /\ Len(piece) = Len(sent) - (Len(output) + n)
  BY DEF OutputOK
<1> HIDE DEF piece
<1>2. /\ output \o piece \in Seq(Process)
      /\ Len(output \o piece) = Len(sent) - n
      /\ \A i \in 1 .. Len(output) : (output \o piece)[i] = output[i]
  BY <1>1 DEF OutputOK
<1> QED BY <1>2 DEF piece

LEMMA ReadKeepsOutput == IInv /\ OutputOK /\ Read => OutputOK'
<1> SUFFICES ASSUME IInv, OutputOK, Read PROVE OutputOK'
  OBVIOUS
<1> USE SizesAssumption
<1> DEFINE taken == IF Unread < BufSize THEN Unread ELSE BufSize
           nextPc == IF pc = "drain" THEN "wait" ELSE "kill"
           first == SubSeq(sent, 1, Len(output) + taken)
           left == output \o SubSeq(sent, Len(output) + taken + 1, Len(sent))
<1>1. taken \in Nat /\ Len(output) + taken <= Len(sent)
  BY DEF OutputOK, Unread
<1>2. taken = 0 => Len(output) = Len(sent)
  BY DEF OutputOK, Unread
<1>3. /\ pc \in {"drain", "last"}
      /\ pc' = IF taken > 0 THEN pc ELSE nextPc
  BY DEF Read
<1>4. \/ output' = first /\ sent' = sent
      \/ sent' = left /\ output' = output
  BY DEF Read
<1>5. CASE output' = first /\ sent' = sent
  <2>1. /\ first \in Seq(Process) /\ Len(first) = Len(output) + taken
        /\ \A i \in 1 .. Len(first) : first[i] = sent[i]
    <3> HIDE DEF taken
    <3> QED BY <1>1 DEF OutputOK
  <2> HIDE DEF taken, first
  <2>2. pc' \in {"kill", "done"} => taken = 0
    BY <1>1, <1>3
  <2> QED BY <1>1, <1>2, <1>3, <1>5, <2>1, <2>2 DEF OutputOK
<1>6. CASE sent' = left /\ output' = output
  <2>1. /\ left \in Seq(Process) /\ Len(left) = Len(sent) - taken
        /\ \A i \in 1 .. Len(output) : left[i] = output[i]
    <3> HIDE DEF taken
    <3> QED BY <1>1, DropKeeps
  <2> HIDE DEF taken, left
  <2>2. pc' \in {"kill", "done"} => taken = 0
    BY <1>1, <1>3
  <2> QED BY <1>1, <1>2, <1>3, <1>6, <2>1, <2>2 DEF OutputOK
<1> QED BY <1>4, <1>5, <1>6

LEMMA WriteKeepsOutput == IInv /\ OutputOK /\ Program => OutputOK'
<1> SUFFICES ASSUME IInv, OutputOK, NEW p \in Process, Write(p) PROVE OutputOK'
  BY DEF Program
<1>1. sent' = Append(sent, p) /\ UNCHANGED callerVars
  BY DEF Write
<1>2. UNCHANGED <<pc, output>>
  BY <1>1 DEF callerVars
<1>3. /\ sent' \in Seq(Process) /\ Len(sent') = Len(sent) + 1
      /\ \A i \in 1 .. Len(sent) : sent'[i] = sent[i]
      /\ sent'[Len(sent) + 1] = p
  BY <1>1 DEF OutputOK
<1>4. pc \in {"kill", "done"} => p # "leader"
  BY DEF Write, IInv, CallerOK
<1>5. pc' \in {"kill", "done"} =>
        \A i \in 1 .. Len(sent') : sent'[i] = "leader" => i <= Len(output')
  BY <1>2, <1>3, <1>4 DEF OutputOK
<1>6. pc' \notin {"pipe", "fork"}
  BY <1>2 DEF Write, IInv, CallerOK, Process
<1> QED BY <1>2, <1>3, <1>5, <1>6 DEF OutputOK

LEMMA StepOutput == IInv /\ OutputOK /\ [Next]_vars => OutputOK'
<1> SUFFICES ASSUME IInv, OutputOK, [Next]_vars PROVE OutputOK'
  OBVIOUS
<1> USE DEF OutputOK
<1>1. CASE CreatePipe
  BY <1>1 DEF CreatePipe, childVars, IInv, CallerOK
<1>2. CASE Fork
  BY <1>2 DEF Fork
<1>3. CASE SetGroup
  BY <1>3 DEF SetGroup
<1>4. CASE CloseWriteEnd
  BY <1>4 DEF CloseWriteEnd, childVars
<1>5. CASE CheckTime
  BY <1>5 DEF CheckTime, KillGroup, childVars
<1>6. CASE Read
  BY <1>6, ReadKeepsOutput
<1>7. CASE Wait
  BY <1>7 DEF Wait
<1>8. CASE KillHelpers
  BY <1>8 DEF KillHelpers, KillGroup
<1>9. CASE ChildSetGroup \/ Exec \/ StartHelper \/ LeaderEnds \/ HelperEnds
  BY <1>9 DEF ChildSetGroup, Exec, StartHelper, LeaderEnds, HelperEnds, callerVars
<1>10. CASE Program
  BY <1>10, WriteKeepsOutput
<1>11. CASE Expire \/ Interrupt \/ SiblingInherits \/ SiblingCloses
  BY <1>11 DEF Expire, Interrupt, SiblingInherits, SiblingCloses, callerVars,
               childVars
<1>12. CASE UNCHANGED vars
  BY <1>12 DEF vars, callerVars, childVars
<1> QED
  BY <1>1, <1>2, <1>3, <1>4, <1>5, <1>6, <1>7, <1>8, <1>9, <1>10, <1>11, <1>12
     DEF Next, Caller

\* Nothing the program wrote before it ended is lost, unless the capture was
\* full: what is captured is the beginning of what was written.
THEOREM OutputIsAlwaysComplete == Spec => []OutputIsComplete
<1>1. Init => OutputOK
  BY SizesAssumption DEF Init, OutputOK
<1>2. OutputOK => OutputIsComplete
  BY DEF OutputOK, OutputIsComplete, IsPrefix
<1> QED BY <1>1, <1>2, StepOutput, Invariance, PTL DEF Spec

-----------------------------------------------------------------------------
\* What the call will return, against how the child ended and why.
StatusOK ==
    /\ ended \in OwnStatus \cup {NotStarted, ByKill, Running}
    /\ leader \in {"none", "forked", "grouped", "running"} => ended = Running
    /\ leader \in {"zombie", "gone"} => ended # Running
    /\ leader = "gone" => waitStatus = ended
    /\ pc = "done" /\ leader = "none" => waitStatus = NotStarted
    /\ timedOut \in BOOLEAN /\ expired \in BOOLEAN /\ interrupted \in BOOLEAN
    /\ timedOut => expired /\ killed
    /\ killed => timedOut \/ interrupted
    /\ ended = ByKill /\ ByKill \notin OwnStatus => killed

\* The program runs, was killed, or was not started: three different values.
LEMMA StatusesDiffer ==
    Running # NotStarted /\ Running # ByKill /\ NotStarted # ByKill
      /\ Running \notin OwnStatus
  BY StatusAssumption DEF NotStarted, ByKill, SIGKILL, Running

LEMMA InitStatus == Init => StatusOK
  BY StatusesDiffer DEF Init, StatusOK

LEMMA StepStatus == IInv /\ StatusOK /\ [Next]_vars => StatusOK'
<1> SUFFICES ASSUME IInv, StatusOK, [Next]_vars PROVE StatusOK'
  OBVIOUS
<1> USE StatusesDiffer DEF IInv, CallerOK, StatusOK, Alive
<1>1. CASE CreatePipe
  BY <1>1 DEF CreatePipe, childVars
<1>2. CASE Fork
  BY <1>2 DEF Fork
<1>3. CASE SetGroup
  BY <1>3 DEF SetGroup
<1>4. CASE CloseWriteEnd
  BY <1>4 DEF CloseWriteEnd, childVars
<1>5. CASE CheckTime
  <2>1. CASE ~killed /\ (expired \/ interrupted)
    BY <1>5, <2>1 DEF CheckTime, KillGroup
  <2>2. CASE ~(~killed /\ (expired \/ interrupted))
    BY <1>5, <2>2 DEF CheckTime, childVars
  <2> QED BY <2>1, <2>2
<1>6. CASE Read
  BY <1>6 DEF Read
<1>7. CASE Wait
  BY <1>7 DEF Wait
<1>8. CASE KillHelpers
  BY <1>8 DEF KillHelpers, KillGroup
<1>9. CASE ChildSetGroup \/ StartHelper \/ HelperEnds
  BY <1>9 DEF ChildSetGroup, StartHelper, HelperEnds, callerVars
<1>10. CASE Exec
  BY <1>10 DEF Exec, callerVars
<1>11. CASE LeaderEnds
  BY <1>11 DEF LeaderEnds, callerVars
<1>12. CASE Program
  BY <1>12 DEF Program, Write, callerVars
<1>13. CASE Expire
  <2>1. /\ UNCHANGED <<pc, killed, timedOut, waitStatus, leader, ended>>
        /\ UNCHANGED interrupted /\ expired' = TRUE
    BY <1>13 DEF Expire, callerVars, childVars
  <2> QED BY <2>1
<1>16. CASE Interrupt
  <2>1. /\ UNCHANGED <<pc, killed, timedOut, waitStatus, leader, ended>>
        /\ UNCHANGED expired /\ interrupted' = TRUE
    BY <1>16 DEF Interrupt, callerVars, childVars
  <2> QED BY <2>1
<1>15. CASE SiblingInherits \/ SiblingCloses
  BY <1>15 DEF SiblingInherits, SiblingCloses, callerVars, childVars
<1>14. CASE UNCHANGED vars
  BY <1>14 DEF vars, callerVars, childVars
<1> QED
  BY <1>1, <1>2, <1>3, <1>4, <1>5, <1>6, <1>7, <1>8, <1>9, <1>10, <1>11, <1>12,
     <1>13, <1>14, <1>15, <1>16 DEF Next, Caller

LEMMA InitRefines == Init => Abstract!Init
  BY DEF Init, Abstract!Init, NotStarted, Running, Abstract!NotStarted,
         Abstract!Running

LEMMA StepRefines ==
    IInv /\ StatusOK /\ [Next]_vars => [Abstract!Next]_(Abstract!callVars)
<1> SUFFICES ASSUME IInv, StatusOK, [Next]_vars
             PROVE  Abstract!Next \/ UNCHANGED Abstract!callVars
  OBVIOUS
<1> USE StatusAssumption
     DEF IInv, CallerOK, GroupOK, StatusOK, Alive, Abstract!callVars
<1> USE DEF NotStarted, ByKill, SIGKILL, Running, Abstract!NotStarted,
            Abstract!ByKill, Abstract!SIGKILL, Abstract!Running
<1>1. CASE CreatePipe
  BY <1>1 DEF CreatePipe, childVars, Abstract!Next, Abstract!Refuse
<1>2. CASE Fork
  BY <1>2 DEF Fork, Abstract!Next, Abstract!Start, Abstract!Refuse
<1>3. CASE SetGroup \/ CloseWriteEnd
  BY <1>3 DEF SetGroup, CloseWriteEnd, childVars
<1>4. CASE CheckTime
  <2>1. CASE ~killed /\ (expired \/ interrupted) /\ Alive
    BY <1>4, <2>1 DEF CheckTime, KillGroup, Abstract!Next, Abstract!Kill
  <2>2. CASE ~killed /\ (expired \/ interrupted) /\ ~Alive
    BY <1>4, <2>2 DEF CheckTime, KillGroup
  <2>3. CASE ~(~killed /\ (expired \/ interrupted))
    BY <1>4, <2>3 DEF CheckTime, childVars
  <2> QED BY <2>1, <2>2, <2>3
<1>5. CASE Read
  BY <1>5 DEF Read
<1>6. CASE Wait
  BY <1>6 DEF Wait
<1>7. CASE KillHelpers
  <2> DEFINE r == [status |-> waitStatus, timedOut |-> timedOut]
  <2>1. pc = "kill" /\ pc' = "done" /\ leader = "gone" /\ leader' = leader
        /\ UNCHANGED <<ended, waitStatus, timedOut, expired, interrupted>>
    BY <1>7 DEF KillHelpers, KillGroup
  <2>2. r \in Abstract!Results(expired, interrupted) /\ r.status = ended
    BY <2>1 DEF Abstract!Results, Abstract!Result
  <2>3. Abstract!Return
    BY <2>1, <2>2 DEF Abstract!Return
  <2> QED BY <2>3 DEF Abstract!Next
<1>8. CASE ChildSetGroup \/ StartHelper \/ HelperEnds \/ Program
  BY <1>8 DEF ChildSetGroup, StartHelper, HelperEnds, Program, Write, callerVars
<1>9. CASE Exec
  BY <1>9 DEF Exec, callerVars, Abstract!Next, Abstract!End
<1>10. CASE LeaderEnds
  BY <1>10 DEF LeaderEnds, callerVars, Abstract!Next, Abstract!End
<1>11. CASE Expire \/ Interrupt
  BY <1>11 DEF Expire, Interrupt, callerVars, childVars, Abstract!Next,
               Abstract!Disturb
<1>12. CASE SiblingInherits \/ SiblingCloses \/ UNCHANGED vars
  BY <1>12 DEF SiblingInherits, SiblingCloses, vars, callerVars, childVars
<1> QED
  BY <1>1, <1>2, <1>3, <1>4, <1>5, <1>6, <1>7, <1>8, <1>9, <1>10, <1>11, <1>12
     DEF Next, Caller

\* RunProcess implements ProcessCall: the status returned is the one the
\* program ended with, and where that is the kill's, the clock or the user was
\* the reason.
THEOREM Implements == Spec => ImplementsCall
<1>1. Spec => [](IInv /\ StatusOK)
  BY InitStatus, StepStatus, Invariance, PTL DEF Spec
<1> QED
  BY <1>1, InitRefines, StepRefines, PTL DEF Spec, ImplementsCall, Abstract!Spec

(***************************************************************************)
(* FlowPasses.                                                             *)
(***************************************************************************)
\* A graph has an entry.
IsGraph(g) == Len(g) \in Nat /\ 1 <= Len(g)

TypeInv ==
  /\ IsGraph(graph)
  /\ pass \in {"assign", "null", "done"}
  /\ at \in 1..(Len(graph) + 1)
  /\ changed \in BOOLEAN
  /\ DOMAIN in = Blocks
  /\ DOMAIN out = Blocks

\* What is assumed at the entry, and what a block establishes, never go stale.
Computed ==
  pass # "done" => /\ in[Entry] = {}
                   /\ \A b \in Blocks : out[b] = ComputeOut(graph, pass, b, in[b])

\* A sweep that has changed nothing leaves solved blocks behind it.
SolvedBehind ==
  pass # "done" /\ ~changed => \A b \in Blocks : b < at => Solved(b)

SweepInv == TypeInv /\ Computed /\ SolvedBehind

\* A sweep starts at a place of the sweep.
LEMMA FirstPlace ==
  ASSUME NEW n \in Nat
  PROVE  1 \in 1..(n + 1)
OBVIOUS

\* A pass begins with the entry empty and every block computed.
LEMMA BeginEstablishes ==
  ASSUME TypeInv, NEW p \in {"assign", "null"}, Begin(p), graph' = graph
  PROVE  SweepInv'
<1>1. TypeInv'
  <2>1. at' \in 1..(Len(graph') + 1) /\ changed' \in BOOLEAN /\ pass' \in {"assign", "null", "done"}
    BY FirstPlace DEF TypeInv, IsGraph, Begin
  <2>2. DOMAIN in' = Blocks'
    BY DEF Begin, StartIn, Blocks
  <2>3. DOMAIN out' = Blocks'
    BY DEF Begin, OutOf, Blocks
  <2> QED BY <2>1, <2>2, <2>3 DEF TypeInv, IsGraph
<1>2. Computed'
  BY DEF TypeInv, IsGraph, Computed, Begin, StartIn, OutOf, Blocks, Entry
<1>3. SolvedBehind'
  BY DEF TypeInv, IsGraph, SolvedBehind, Begin, Blocks
<1> QED BY <1>1, <1>2, <1>3 DEF SweepInv

\* A visit that finds the block's facts unchanged leaves it solved; one that
\* does not asks for another sweep.
LEMMA VisitKeeps ==
  ASSUME SweepInv, VisitBlock
  PROVE  SweepInv'
<1> USE DEF SweepInv
<1>0. /\ graph' = graph /\ pass' = pass /\ universe' = universe
      /\ pass # "done" /\ at \in Blocks /\ at' = at + 1
  BY DEF VisitBlock
<1>1. CASE at = Entry \/ EdgesInto(graph, at) = {} \/ NewIn(at) = in[at]
  <2>1. UNCHANGED <<changed, in, out>>
    BY <1>1 DEF VisitBlock
  <2>2. TypeInv'
    BY <1>0, <2>1 DEF TypeInv, IsGraph, Blocks
  <2>3. Computed'
    BY <1>0, <2>1 DEF Computed, Blocks
  <2>4. SolvedBehind'
    <3> SUFFICES ASSUME ~changed', NEW b \in Blocks, b < at'
                 PROVE  Solved(b)'
      BY <1>0 DEF SolvedBehind, Blocks
    <3>1. Solved(b)' <=> Solved(b)
      BY <1>0, <2>1 DEF Solved, NewIn, OnEdge
    <3>2. CASE b = at
      BY <1>1, <3>1, <3>2 DEF Solved
    <3>3. CASE b < at
      BY <1>0, <2>1, <3>1, <3>3 DEF SolvedBehind
    <3> QED BY <1>0, <3>2, <3>3 DEF TypeInv, IsGraph, Blocks
  <2> QED BY <2>2, <2>3, <2>4
<1>2. CASE ~(at = Entry \/ EdgesInto(graph, at) = {} \/ NewIn(at) = in[at])
  <2>1. /\ changed' = TRUE
        /\ in' = [in EXCEPT ![at] = NewIn(at)]
        /\ out' = [out EXCEPT ![at] = ComputeOut(graph, pass, at, NewIn(at))]
    BY <1>2 DEF VisitBlock
  <2>2. TypeInv'
    BY <1>0, <2>1 DEF TypeInv, IsGraph, Blocks
  <2>3. Computed'
    <3> SUFFICES /\ in'[Entry] = {}
                 /\ \A b \in Blocks : out'[b] = ComputeOut(graph, pass, b, in'[b])
      BY <1>0 DEF Computed, Blocks
    <3>1. in[Entry] = {} /\ \A b \in Blocks : out[b] = ComputeOut(graph, pass, b, in[b])
      BY <1>0 DEF Computed
    <3>2. in'[Entry] = {}
      BY <1>0, <1>2, <2>1, <3>1 DEF TypeInv
    <3>3. ASSUME NEW b \in Blocks PROVE out'[b] = ComputeOut(graph, pass, b, in'[b])
      <4>1. CASE b = at
        BY <1>0, <2>1, <4>1 DEF TypeInv
      <4>2. CASE b # at
        BY <1>0, <2>1, <3>1, <4>2 DEF TypeInv
      <4> QED BY <4>1, <4>2
    <3> QED BY <3>2, <3>3
  <2>4. SolvedBehind'
    BY <2>1 DEF SolvedBehind
  <2> QED BY <2>2, <2>3, <2>4
<1> QED BY <1>1, <1>2

\* The sweep starts over with nothing behind it.
LEMMA SweepAgainKeeps ==
  ASSUME SweepInv, SweepAgain
  PROVE  SweepInv'
<1>1. TypeInv'
  BY FirstPlace DEF SweepInv, TypeInv, IsGraph, SweepAgain, Blocks
<1>2. Computed'
  BY DEF SweepInv, Computed, SweepAgain, Blocks
<1>3. SolvedBehind'
  BY DEF SweepInv, TypeInv, IsGraph, SolvedBehind, SweepAgain, Blocks
<1> QED BY <1>1, <1>2, <1>3 DEF SweepInv

\* After the report comes the other pass, from its own start, or nothing.
LEMMA ReportKeeps ==
  ASSUME SweepInv, Report
  PROVE  SweepInv'
<1>1. CASE Begin("null")
  BY <1>1, BeginEstablishes DEF SweepInv, Report
<1>2. CASE pass' = "done" /\ UNCHANGED <<universe, at, changed, in, out>>
  BY <1>2 DEF SweepInv, TypeInv, IsGraph, Computed, SolvedBehind, Report, Blocks
<1> QED BY <1>1, <1>2 DEF Report

\* The invariant of the sweeps, for every graph with an entry: TypeInv, a
\* block's facts always computed, the blocks behind a quiet sweep solved.
THEOREM SweepInvariant ==
  ASSUME NEW CONSTANT g, NEW CONSTANT stopped, IsGraph(g)
  PROVE  PassSpec(g, stopped) => []SweepInv
<1>1. PassInit(g, stopped) => SweepInv
  <2> SUFFICES ASSUME PassInit(g, stopped) PROVE SweepInv
    OBVIOUS
  <2>1. TypeInv
    <3>1. at \in 1..(Len(graph) + 1) /\ changed \in BOOLEAN /\ pass \in {"assign", "null", "done"}
      BY FirstPlace DEF PassInit, IsGraph
    <3>2. DOMAIN in = Blocks
      BY DEF PassInit, StartIn, Blocks
    <3>3. DOMAIN out = Blocks
      BY DEF PassInit, OutOf, Blocks
    <3> QED BY <3>1, <3>2, <3>3 DEF TypeInv, IsGraph, PassInit
  <2>2. Computed
    BY DEF PassInit, Computed, IsGraph, StartIn, OutOf, Blocks, Entry
  <2>3. SolvedBehind
    BY DEF PassInit, SolvedBehind, IsGraph, Blocks
  <2> QED BY <2>1, <2>2, <2>3 DEF SweepInv
<1>2. SweepInv /\ [PassStep]_passVars => SweepInv'
  <2> SUFFICES ASSUME SweepInv, [PassStep]_passVars PROVE SweepInv'
    OBVIOUS
  <2>1. CASE VisitBlock
    BY <2>1, VisitKeeps
  <2>2. CASE SweepAgain
    BY <2>2, SweepAgainKeeps
  <2>3. CASE Report
    BY <2>3, ReportKeeps
  <2>4. CASE UNCHANGED passVars
    BY <2>4 DEF passVars, SweepInv, TypeInv, IsGraph, Computed, SolvedBehind, Solved, NewIn, OnEdge, Blocks
  <2> QED BY <2>1, <2>2, <2>3, <2>4 DEF PassStep
<1> QED BY <1>1, <1>2, PTL DEF PassSpec

\* A pass judges a function only at a fixpoint of its equations: nothing
\* assumed at the entry, each block met from what its predecessors establish
\* now, whatever the graph and however many sweeps it took.
THEOREM PassJudgesAtFixpoint ==
  ASSUME NEW CONSTANT g, NEW CONSTANT stopped, IsGraph(g)
  PROVE  PassSpec(g, stopped) => []JudgesAtFixpoint
<1>1. SweepInv => JudgesAtFixpoint
  <2> SUFFICES ASSUME SweepInv, AtFixpoint PROVE in[Entry] = {} /\ \A b \in Blocks : Solved(b) /\ out[b] = ComputeOut(graph, pass, b, in[b])
    BY DEF JudgesAtFixpoint
  <2>1. \A b \in Blocks : b < at
    BY DEF SweepInv, TypeInv, IsGraph, AtFixpoint, Blocks
  <2>2. \A b \in Blocks : Solved(b)
    BY <2>1 DEF SweepInv, SolvedBehind, AtFixpoint
  <2> QED BY <2>2 DEF SweepInv, Computed, AtFixpoint
<1> QED BY <1>1, SweepInvariant, PTL

-----------------------------------------------------------------------------
(* The passes lose nothing.                                                *)

\* A set of naturals has a least element.
LEMMA Least ==
  ASSUME NEW T \in SUBSET Nat, T # {}
  PROVE  \E x \in T : \A y \in T : x <= y
<1> DEFINE R == OpToRel(<, Nat)
<1>1. IsWellFoundedOn(R, Nat)
  BY NatLessThanWellFounded
<1>2. \A x, y \in Nat : y < x => <<y, x>> \in R
  BY DEF OpToRel
<1>. HIDE DEF R
<1>3. \E x \in T : \A y \in T : ~(<<y, x>> \in R)
  BY <1>1, WFMin
<1>4. PICK x \in T : \A y \in T : ~(<<y, x>> \in R)
  BY <1>3
<1>5. ASSUME NEW y \in T PROVE x <= y
  <2>1. x \in Nat /\ y \in Nat
    OBVIOUS
  <2>2. ~(y < x)
    BY <1>2, <1>4, <2>1
  <2>. QED
    BY <2>1, <2>2
<1>. QED
  BY <1>5

\* Induction over the naturals, for a set.
LEMMA Upwards ==
  ASSUME NEW T \in SUBSET Nat, 0 \in T, \A n \in T : n + 1 \in T
  PROVE  \A n \in Nat : n \in T
<1> SUFFICES ASSUME Nat \ T # {} PROVE FALSE
  OBVIOUS
<1>1. PICK x \in Nat \ T : \A y \in Nat \ T : x <= y
  BY Least
<1>2. x # 0 /\ x - 1 \in Nat
  BY <1>1
<1>3. x - 1 \in T
  BY <1>1, <1>2
<1>. QED
  BY <1>1, <1>2, <1>3

\* What a block's statements do, one after the other.
OneByOne(facts, p, stmts, S) ==
  /\ facts[0] = [t |-> S, f |-> S]
  /\ \A n \in 1 .. Len(stmts) : facts[n] = After(p, stmts[n], facts[n - 1].t)

LEMMA AlongIs ==
  ASSUME NEW p, NEW stmts, Len(stmts) \in Nat, NEW S
  PROVE  OneByOne(Along(p, stmts, S), p, stmts, S)
<1> DEFINE m == Len(stmts)
           D == 0 .. m
           R(f) == f = [n \in D |-> IF n = 0 THEN [t |-> S, f |-> S]
                                    ELSE After(p, stmts[n], f[n - 1].t)]
           facts == CHOOSE f : R(f)
           Good(k, f) == /\ f[0] = [t |-> S, f |-> S]
                         /\ \A n \in 1 .. k : f[n] = After(p, stmts[n], f[n - 1].t)
           T == {k \in Nat : \E f : Good(k, f)}
<1>1. 0 \in T
  <2> DEFINE f == [n \in {0} |-> [t |-> S, f |-> S]]
  <2>1. f[0] = [t |-> S, f |-> S]
    OBVIOUS
  <2> HIDE DEF f
  <2>2. Good(0, f)
    BY <2>1
  <2> QED BY <2>2
<1>2. ASSUME NEW k \in T PROVE k + 1 \in T
  <2>1. PICK g : Good(k, g)
    OBVIOUS
  <2> DEFINE x == After(p, stmts[k + 1], g[k].t)
             f == [n \in 0 .. k + 1 |-> IF n = k + 1 THEN x ELSE g[n]]
  <2>2. k + 1 \in 0 .. k + 1 /\ f[k + 1] = x /\ \A n \in 0 .. k : f[n] = g[n]
    OBVIOUS
  <2> HIDE DEF f
  <2>3. f[0] = [t |-> S, f |-> S]
    BY <2>1, <2>2
  <2>4. ASSUME NEW n \in 1 .. k + 1 PROVE f[n] = After(p, stmts[n], f[n - 1].t)
    <3>1. CASE n = k + 1
      BY <3>1, <2>2
    <3>2. CASE n # k + 1
      <4>1. n \in 1 .. k /\ n \in 0 .. k /\ n - 1 \in 0 .. k
        BY <3>2
      <4> QED BY <4>1, <2>1, <2>2
    <3> QED BY <3>1, <3>2
  <2>5. Good(k + 1, f)
    BY <2>3, <2>4
  <2> HIDE DEF Good
  <2> QED BY <2>5
<1>3. m \in T
  <2> HIDE DEF T
  <2>1. T \in SUBSET Nat
    BY DEF T
  <2> QED BY <1>1, <1>2, <2>1, Upwards
<1>4. PICK h : Good(m, h)
  BY <1>3
<1>5. \E f : R(f)
  <2> DEFINE f == [n \in D |-> h[n]]
  <2>1. 0 \in D /\ f[0] = h[0]
    OBVIOUS
  <2>2. ASSUME NEW n \in D, n # 0 PROVE f[n] = After(p, stmts[n], f[n - 1].t)
    <3>1. n \in 1 .. m /\ n - 1 \in D
      BY <2>2
    <3>2. f[n] = h[n] /\ f[n - 1] = h[n - 1]
      BY <3>1
    <3> QED BY <3>1, <3>2, <1>4
  <2>3. f = [n \in D |-> f[n]]
    OBVIOUS
  <2> HIDE DEF f
  <2>4. R(f)
    BY <1>4, <2>1, <2>2, <2>3
  <2> QED BY <2>4
<1>6. R(facts)
  <2> HIDE DEF R
  <2> QED BY <1>5
<1>7. Along(p, stmts, S) = facts
  BY DEF Along
<1> HIDE DEF facts
<1>8. 0 \in D /\ \A n \in 1 .. m : n \in D /\ n # 0
  OBVIOUS
<1> QED BY <1>6, <1>7, <1>8 DEF OneByOne

\* What all the sets of a family hold.
Meet(F) == {x \in UNION F : \A S \in F : x \in S}

LEMMA MeetIs ==
  ASSUME NEW F, F # {}, NEW x
  PROVE  x \in Meet(F) <=> \A S \in F : x \in S
BY DEF Meet

\* Narrowing by an atom adds or takes away one fact: it commutes with meets.
LEMMA AtomMeets ==
  ASSUME NEW a, NEW F, F # {}, NEW x
  PROVE  /\ x \in NarrowAtom(a, Meet(F)).t <=> \A S \in F : x \in NarrowAtom(a, S).t
         /\ x \in NarrowAtom(a, Meet(F)).f <=> \A S \in F : x \in NarrowAtom(a, S).f
<1>1. CASE a.t = "nonnull"
  BY <1>1, MeetIs DEF NarrowAtom
<1>2. CASE a.t = "null"
  BY <1>2, MeetIs DEF NarrowAtom
<1>3. CASE a.t \notin {"nonnull", "null"}
  BY <1>3, MeetIs DEF NarrowAtom
<1> QED BY <1>1, <1>2, <1>3

\* Sets with the same elements are the same.
LEMMA Extensional ==
  ASSUME NEW A, NEW B, \A y : y \in A <=> y \in B
  PROVE  A = B
OBVIOUS

\* A second narrowing of what the first one proved, the same.
LEMMA JoinMeets ==
  ASSUME NEW a, NEW b, NEW F, F # {}, NEW x
  PROVE  /\ x \in NarrowAtom(b, NarrowAtom(a, Meet(F)).t).t <=> \A S \in F : x \in NarrowAtom(b, NarrowAtom(a, S).t).t
         /\ x \in NarrowAtom(b, NarrowAtom(a, Meet(F)).t).f <=> \A S \in F : x \in NarrowAtom(b, NarrowAtom(a, S).t).f
         /\ x \in NarrowAtom(b, NarrowAtom(a, Meet(F)).f).t <=> \A S \in F : x \in NarrowAtom(b, NarrowAtom(a, S).f).t
         /\ x \in NarrowAtom(b, NarrowAtom(a, Meet(F)).f).f <=> \A S \in F : x \in NarrowAtom(b, NarrowAtom(a, S).f).f
<1> DEFINE G == {NarrowAtom(a, S).t : S \in F}
           H == {NarrowAtom(a, S).f : S \in F}
<1>1. G # {} /\ H # {}
  OBVIOUS
<1>2. \A y : y \in Meet(G) <=> \A S \in F : y \in NarrowAtom(a, S).t
  BY <1>1, MeetIs
<1>3. \A y : y \in Meet(H) <=> \A S \in F : y \in NarrowAtom(a, S).f
  BY <1>1, MeetIs
<1>4. \A y : y \in NarrowAtom(a, Meet(F)).t <=> y \in Meet(G)
  BY <1>2, AtomMeets
<1>5. \A y : y \in NarrowAtom(a, Meet(F)).f <=> y \in Meet(H)
  BY <1>3, AtomMeets
<1>6. NarrowAtom(a, Meet(F)).t = Meet(G)
  BY <1>4, Extensional
<1>7. NarrowAtom(a, Meet(F)).f = Meet(H)
  BY <1>5, Extensional
<1> HIDE DEF G, H
<1>8. /\ x \in NarrowAtom(b, Meet(G)).t <=> \A T \in G : x \in NarrowAtom(b, T).t
      /\ x \in NarrowAtom(b, Meet(G)).f <=> \A T \in G : x \in NarrowAtom(b, T).f
  BY <1>1, AtomMeets
<1>9. /\ x \in NarrowAtom(b, Meet(H)).t <=> \A T \in H : x \in NarrowAtom(b, T).t
      /\ x \in NarrowAtom(b, Meet(H)).f <=> \A T \in H : x \in NarrowAtom(b, T).f
  BY <1>1, AtomMeets
<1> QED BY <1>6, <1>7, <1>8, <1>9 DEF G, H

\* Narrowing by an expression.
LEMMA NarrowMeets ==
  ASSUME NEW e, NEW F, F # {}, NEW x
  PROVE  /\ x \in Narrow(e, Meet(F)).t <=> \A S \in F : x \in Narrow(e, S).t
         /\ x \in Narrow(e, Meet(F)).f <=> \A S \in F : x \in Narrow(e, S).f
<1>1. CASE e.t = "and"
  <2>1. \A S : Narrow(e, S) = [t |-> NarrowAtom(e.r, NarrowAtom(e.l, S).t).t,
                               f |-> NarrowAtom(e.l, S).f \cap NarrowAtom(e.r, NarrowAtom(e.l, S).t).f]
    BY <1>1 DEF Narrow
  <2>2. \A S : /\ Narrow(e, S).t = NarrowAtom(e.r, NarrowAtom(e.l, S).t).t
               /\ Narrow(e, S).f = NarrowAtom(e.l, S).f \cap NarrowAtom(e.r, NarrowAtom(e.l, S).t).f
    BY <2>1
  <2>3. /\ x \in NarrowAtom(e.r, NarrowAtom(e.l, Meet(F)).t).t <=> \A S \in F : x \in NarrowAtom(e.r, NarrowAtom(e.l, S).t).t
        /\ x \in NarrowAtom(e.r, NarrowAtom(e.l, Meet(F)).t).f <=> \A S \in F : x \in NarrowAtom(e.r, NarrowAtom(e.l, S).t).f
    BY JoinMeets
  <2>4. x \in NarrowAtom(e.l, Meet(F)).f <=> \A S \in F : x \in NarrowAtom(e.l, S).f
    BY AtomMeets
  <2> QED BY <2>2, <2>3, <2>4
<1>2. CASE e.t = "or"
  <2>1. \A S : Narrow(e, S) = [t |-> NarrowAtom(e.l, S).t \cap NarrowAtom(e.r, NarrowAtom(e.l, S).f).t,
                               f |-> NarrowAtom(e.r, NarrowAtom(e.l, S).f).f]
    BY <1>2 DEF Narrow
  <2>2. \A S : /\ Narrow(e, S).t = NarrowAtom(e.l, S).t \cap NarrowAtom(e.r, NarrowAtom(e.l, S).f).t
               /\ Narrow(e, S).f = NarrowAtom(e.r, NarrowAtom(e.l, S).f).f
    BY <2>1
  <2>3. /\ x \in NarrowAtom(e.r, NarrowAtom(e.l, Meet(F)).f).t <=> \A S \in F : x \in NarrowAtom(e.r, NarrowAtom(e.l, S).f).t
        /\ x \in NarrowAtom(e.r, NarrowAtom(e.l, Meet(F)).f).f <=> \A S \in F : x \in NarrowAtom(e.r, NarrowAtom(e.l, S).f).f
    BY JoinMeets
  <2>4. x \in NarrowAtom(e.l, Meet(F)).t <=> \A S \in F : x \in NarrowAtom(e.l, S).t
    BY AtomMeets
  <2> QED BY <2>2, <2>3, <2>4
<1>3. CASE e.t \notin {"and", "or"}
  <2>1. \A S : Narrow(e, S) = NarrowAtom(e, S)
    BY <1>3 DEF Narrow
  <2> QED BY <2>1, AtomMeets
<1> QED BY <1>1, <1>2, <1>3

\* And by a statement, under either pass.
LEMMA AfterMeets ==
  ASSUME NEW p, NEW s, NEW F, F # {}, NEW x
  PROVE  /\ x \in After(p, s, Meet(F)).t <=> \A S \in F : x \in After(p, s, S).t
         /\ x \in After(p, s, Meet(F)).f <=> \A S \in F : x \in After(p, s, S).f
<1> USE MeetIs
<1>1. CASE p = "assign"
  BY <1>1 DEF After
<1>2. CASE p # "assign"
  <2>0. \A S : After(p, s, S) = NarrowBy(s, S)
    BY <1>2 DEF After
  <2>1. CASE s.op = "eval"
    <3>1. \A S : NarrowBy(s, S) = Narrow(s.e, S)
      BY <2>1 DEF NarrowBy
    <3> QED BY <2>0, <3>1, NarrowMeets
  <2>2. CASE s.op \in {"setnull", "setcall"}
    <3>1. \A S : NarrowBy(s, S) = [t |-> S \ {s.v}, f |-> S \ {s.v}]
      BY <2>2 DEF NarrowBy
    <3> QED BY <2>0, <3>1
  <2>3. CASE s.op = "setref"
    <3>1. \A S : NarrowBy(s, S) = [t |-> S \cup {s.v}, f |-> S \cup {s.v}]
      BY <2>3 DEF NarrowBy
    <3> QED BY <2>0, <3>1
  <2>4. CASE s.op = "copy"
    <3>1. \A S : NarrowBy(s, S) = [t |-> IF s.from \in S THEN S \cup {s.v} ELSE S \ {s.v},
                                   f |-> IF s.from \in S THEN S \cup {s.v} ELSE S \ {s.v}]
      BY <2>4 DEF NarrowBy
    <3> QED BY <2>0, <3>1
  <2>5. CASE s.op \notin {"eval", "setnull", "setcall", "setref", "copy"}
    <3>1. \A S : NarrowBy(s, S) = [t |-> S, f |-> S]
      BY <2>5 DEF NarrowBy
    <3> QED BY <2>0, <3>1
  <2> QED BY <2>1, <2>2, <2>3, <2>4, <2>5
<1> QED BY <1>1, <1>2

\* So do the statements of a block in a row ...
LEMMA AlongMeets ==
  ASSUME NEW p, NEW stmts, Len(stmts) \in Nat, NEW F, F # {}, NEW n \in 0 .. Len(stmts), NEW x
  PROVE  /\ x \in Along(p, stmts, Meet(F))[n].t <=> \A S \in F : x \in Along(p, stmts, S)[n].t
         /\ x \in Along(p, stmts, Meet(F))[n].f <=> \A S \in F : x \in Along(p, stmts, S)[n].f
<1> DEFINE At(k) == \A y : /\ y \in Along(p, stmts, Meet(F))[k].t <=> \A S \in F : y \in Along(p, stmts, S)[k].t
                           /\ y \in Along(p, stmts, Meet(F))[k].f <=> \A S \in F : y \in Along(p, stmts, S)[k].f
           T == {k \in Nat : k <= Len(stmts) => At(k)}
<1>1. 0 \in T
  <2>1. ASSUME NEW S PROVE Along(p, stmts, S)[0].t = S /\ Along(p, stmts, S)[0].f = S
    <3>1. OneByOne(Along(p, stmts, S), p, stmts, S)
      BY AlongIs
    <3>2. Along(p, stmts, S)[0] = [t |-> S, f |-> S]
      BY <3>1 DEF OneByOne
    <3> QED BY <3>2
  <2>2. At(0)
    BY <2>1, MeetIs
  <2> QED BY <2>2
<1>2. ASSUME NEW k \in T PROVE k + 1 \in T
  <2> SUFFICES ASSUME k + 1 <= Len(stmts) PROVE At(k + 1)
    OBVIOUS
  <2>1. At(k) /\ k + 1 \in 1 .. Len(stmts) /\ (k + 1) - 1 = k
    OBVIOUS
  <2>2. ASSUME NEW S
        PROVE  Along(p, stmts, S)[k + 1] = After(p, stmts[k + 1], Along(p, stmts, S)[k].t)
    <3>1. OneByOne(Along(p, stmts, S), p, stmts, S)
      BY AlongIs
    <3> QED BY <2>1, <3>1 DEF OneByOne
  <2> DEFINE G == {Along(p, stmts, S)[k].t : S \in F}
  <2>3. G # {}
    OBVIOUS
  <2>4. ASSUME NEW y PROVE y \in Along(p, stmts, Meet(F))[k].t <=> y \in Meet(G)
    <3>1. y \in Meet(G) <=> \A R \in G : y \in R
      BY <2>3, MeetIs
    <3>2. (\A R \in G : y \in R) <=> \A S \in F : y \in Along(p, stmts, S)[k].t
      OBVIOUS
    <3> QED BY <2>1, <3>1, <3>2
  <2>5. Along(p, stmts, Meet(F))[k].t = Meet(G)
    BY <2>4, Extensional
  <2> HIDE DEF G
  <2>6. \A y : /\ y \in After(p, stmts[k + 1], Meet(G)).t <=> \A R \in G : y \in After(p, stmts[k + 1], R).t
               /\ y \in After(p, stmts[k + 1], Meet(G)).f <=> \A R \in G : y \in After(p, stmts[k + 1], R).f
    BY <2>3, AfterMeets
  <2> QED BY <2>2, <2>5, <2>6 DEF G
<1>3. T \in SUBSET Nat
  OBVIOUS
<1>4. n \in Nat /\ n <= Len(stmts)
  OBVIOUS
<1> HIDE DEF T
<1>5. n \in T
  BY <1>1, <1>2, <1>3, <1>4, Upwards
<1> QED BY <1>4, <1>5 DEF T

\* ... and so does a block.
LEMMA BlockMeets ==
  ASSUME NEW g, NEW p, NEW b, Len(g[b].stmts) \in Nat, NEW F, F # {}, NEW i, NEW x
  PROVE  x \in Side(ComputeOut(g, p, b, Meet(F)), i) <=> \A S \in F : x \in Side(ComputeOut(g, p, b, S), i)
<1> DEFINE end(S) == Along(p, g[b].stmts, S)[Len(g[b].stmts)]
           split == g[b].term = "branch" /\ Len(g[b].succ) = 2
<1>1. \A S : ComputeOut(g, p, b, S) = [t |-> end(S).t, f |-> IF split THEN end(S).f ELSE end(S).t]
  BY DEF ComputeOut
<1>2. Len(g[b].stmts) \in 0 .. Len(g[b].stmts)
  OBVIOUS
<1>3. /\ x \in end(Meet(F)).t <=> \A S \in F : x \in end(S).t
      /\ x \in end(Meet(F)).f <=> \A S \in F : x \in end(S).f
  BY <1>2, AlongMeets
<1> HIDE DEF end, split
<1> QED BY <1>1, <1>3 DEF Side

\* A block that starts with less establishes less.
LEMMA BlockGrows ==
  ASSUME NEW g, NEW p, NEW b, Len(g[b].stmts) \in Nat, NEW R, NEW S, R \subseteq S, NEW i
  PROVE  Side(ComputeOut(g, p, b, R), i) \subseteq Side(ComputeOut(g, p, b, S), i)
<1> DEFINE F == {R, S}
<1>1. F # {} /\ Meet(F) = R
  BY Extensional DEF Meet
<1> HIDE DEF F
<1>2. ASSUME NEW x \in Side(ComputeOut(g, p, b, R), i) PROVE \A T \in F : x \in Side(ComputeOut(g, p, b, T), i)
  BY <1>1, <1>2, BlockMeets
<1> QED BY <1>2 DEF F

-----------------------------------------------------------------------------
\* What the ways are found in: a graph, and a finite number of facts.
Explored(g, all) == IsFlowGraph(g) /\ IsFiniteSet(all)

\* What IsFlowGraph says of each block.
Shaped(g) ==
  /\ Len(g) \in Nat /\ 1 <= Len(g)
  /\ \A b \in 1 .. Len(g) :
       /\ Len(g[b].stmts) \in Nat /\ Len(g[b].succ) \in 0 .. 2
       /\ \A i \in 1 .. Len(g[b].succ) : g[b].succ[i] \in 1 .. Len(g)

LEMMA GraphIsShaped ==
  ASSUME NEW g, IsFlowGraph(g)
  PROVE  Shaped(g) /\ IsGraph(g)
BY DEF IsFlowGraph, Shaped, IsGraph

\* There are finitely many ends.
LEMMA EndsAreFinite ==
  ASSUME NEW g, NEW all, Explored(g, all)
  PROVE  IsFiniteSet(Ends(g, all)) /\ Cardinality(Ends(g, all)) \in Nat
<1> DEFINE P == (1 .. Len(g)) \X SUBSET all
           f == [e \in P |-> [b |-> e[1], S |-> e[2]]]
<1>1. IsFiniteSet(1 .. Len(g))
  <2>1. Len(g) \in Int /\ 1 \in Int
    BY GraphIsShaped DEF Explored, Shaped
  <2> QED BY <2>1, FS_Interval
<1>2. IsFiniteSet(SUBSET all)
  BY FS_SUBSET DEF Explored
<1>3. IsFiniteSet(P)
  BY <1>1, <1>2, FS_Product
<1>4. f \in Surjection(P, Ends(g, all))
  <2>1. ASSUME NEW e \in P PROVE f[e] \in Ends(g, all)
    BY DEF Ends
  <2>2. ASSUME NEW w \in Ends(g, all) PROVE \E e \in P : f[e] = w
    <3>1. w = [b |-> w.b, S |-> w.S] /\ w.b \in 1 .. Len(g) /\ w.S \in SUBSET all
      BY DEF Ends
    <3>2. <<w.b, w.S>> \in P /\ f[<<w.b, w.S>>] = [b |-> w.b, S |-> w.S]
      BY <3>1
    <3> QED BY <3>1, <3>2
  <2>3. f \in [P -> Ends(g, all)]
    BY <2>1
  <2> HIDE DEF f, P
  <2> QED BY <2>2, <2>3 DEF Surjection
<1>5. IsFiniteSet(Ends(g, all))
  <2> HIDE DEF f, P
  <2> QED BY <1>3, <1>4, FS_Surjection
<1> QED BY <1>5, FS_CardinalityType

\* A way begins and goes on from a block to a block.
LEMMA WaysStay ==
  ASSUME NEW g, NEW p, NEW all, Explored(g, all)
  PROVE  Starts(g, all) \subseteq Ends(g, all) /\ \A w \in Ends(g, all) : Onward(g, p, all, w) \subseteq Ends(g, all)
<1>0. Shaped(g)
  BY GraphIsShaped DEF Explored
<1>1. ASSUME NEW w \in Starts(g, all) PROVE w \in Ends(g, all)
  <2>1. PICK b \in Sources(g) : w = [b |-> b, S |-> StartIn(g, all)[b]]
    BY DEF Starts
  <2>2. b \in 1 .. Len(g)
    BY <2>1 DEF Sources
  <2>3. StartIn(g, all)[b] \in SUBSET all
    BY <2>2 DEF StartIn
  <2> QED BY <2>1, <2>2, <2>3 DEF Ends
<1>2. ASSUME NEW w \in Ends(g, all), NEW v \in Onward(g, p, all, w) PROVE v \in Ends(g, all)
  <2>1. w.b \in 1 .. Len(g)
    BY DEF Ends
  <2>2. PICK i \in 1 .. Len(g[w.b].succ) :
          v = [b |-> g[w.b].succ[i], S |-> all \cap Side(ComputeOut(g, p, w.b, w.S), i)]
    BY DEF Onward
  <2>3. g[w.b].succ[i] \in 1 .. Len(g)
    BY <1>0, <2>1 DEF Shaped
  <2> QED BY <2>2, <2>3 DEF Ends
<1> QED BY <1>1, <1>2

\* The search for the ways, step by step.
Searches(g, p, all, found, n) ==
  /\ found[0] = [new |-> Starts(g, all), all |-> Starts(g, all)]
  /\ \A k \in 1 .. n :
       found[k] = [new |-> Further(g, p, all, found[k - 1]), all |-> found[k - 1].all \cup Further(g, p, all, found[k - 1])]

LEMMA WaysAreFound ==
  ASSUME NEW g, NEW p, NEW all, Explored(g, all)
  PROVE  \E found : Searches(g, p, all, found, Cardinality(Ends(g, all))) /\ Ways(g, p, all) = found[Cardinality(Ends(g, all))].all
<1> DEFINE m == Cardinality(Ends(g, all))
<1>0. m \in Nat
  BY EndsAreFinite
<1> HIDE DEF m
<1> DEFINE D == 0 .. m
           start == [new |-> Starts(g, all), all |-> Starts(g, all)]
           next(o) == [new |-> Further(g, p, all, o), all |-> o.all \cup Further(g, p, all, o)]
           R(f) == f = [n \in D |-> IF n = 0 THEN start ELSE next(f[n - 1])]
           found == CHOOSE f : R(f)
           T == {k \in Nat : \E f : Searches(g, p, all, f, k)}
<1>1. 0 \in T
  <2> DEFINE f == [n \in {0} |-> start]
  <2>1. f[0] = start
    OBVIOUS
  <2> HIDE DEF f
  <2>2. Searches(g, p, all, f, 0)
    BY <2>1 DEF Searches
  <2> QED BY <2>2
<1>2. ASSUME NEW k \in T PROVE k + 1 \in T
  <2>1. PICK h : Searches(g, p, all, h, k)
    OBVIOUS
  <2> DEFINE x == next(h[k])
             f == [n \in 0 .. k + 1 |-> IF n = k + 1 THEN x ELSE h[n]]
  <2>2. k + 1 \in 0 .. k + 1 /\ f[k + 1] = x /\ \A n \in 0 .. k : f[n] = h[n]
    OBVIOUS
  <2> HIDE DEF f
  <2>3. f[0] = start
    BY <2>1, <2>2 DEF Searches
  <2>4. ASSUME NEW n \in 1 .. k + 1 PROVE f[n] = next(f[n - 1])
    <3>1. CASE n = k + 1
      <4>1. n - 1 = k /\ k \in 0 .. k
        BY <3>1
      <4>2. f[n] = next(h[k]) /\ f[n - 1] = h[k]
        BY <3>1, <4>1, <2>2
      <4> HIDE DEF next
      <4> QED BY <4>2
    <3>2. CASE n # k + 1
      <4>1. n \in 1 .. k /\ n \in 0 .. k /\ n - 1 \in 0 .. k
        BY <3>2
      <4>2. h[n] = next(h[n - 1]) /\ f[n] = h[n] /\ f[n - 1] = h[n - 1]
        BY <4>1, <2>1, <2>2 DEF Searches
      <4> HIDE DEF next
      <4> QED BY <4>2
    <3> QED BY <3>1, <3>2
  <2>5. Searches(g, p, all, f, k + 1)
    BY <2>3, <2>4 DEF Searches
  <2> QED BY <2>5
<1>3. m \in T
  <2> HIDE DEF T
  <2>1. T \in SUBSET Nat
    BY DEF T
  <2> QED BY <1>0, <1>1, <1>2, <2>1, Upwards
<1>4. PICK h : Searches(g, p, all, h, m)
  BY <1>3
<1>5. \E f : R(f)
  <2> DEFINE f == [n \in D |-> h[n]]
  <2>1. 0 \in D /\ f[0] = h[0]
    BY <1>0
  <2>2. ASSUME NEW n \in D, n # 0 PROVE f[n] = next(f[n - 1])
    <3>1. n \in 1 .. m /\ n - 1 \in D
      BY <1>0, <2>2
    <3>2. f[n] = h[n] /\ f[n - 1] = h[n - 1]
      BY <3>1
    <3>3. h[n] = next(h[n - 1])
      BY <3>1, <1>4 DEF Searches
    <3> HIDE DEF f, next
    <3> QED BY <3>2, <3>3
  <2>3. f = [n \in D |-> f[n]]
    OBVIOUS
  <2>4. f[0] = start
    BY <1>4, <2>1 DEF Searches
  <2> HIDE DEF f, next, start
  <2>5. R(f)
    BY <2>2, <2>3, <2>4
  <2> QED BY <2>5
<1>6. R(found)
  <2> HIDE DEF R
  <2> QED BY <1>5
<1>7. Ways(g, p, all) = found[m].all
  BY DEF Ways, m
<1> HIDE DEF found
<1>8. 0 \in D /\ \A n \in 1 .. m : n \in D /\ n # 0
  BY <1>0
<1>9. Searches(g, p, all, found, m)
  BY <1>6, <1>8 DEF Searches
<1> QED BY <1>7, <1>9 DEF m

\* After n steps the search is over, or has found more than n ways; what it
\* has found and gone on from leads to what it has found.
LEMMA SearchGoesOn ==
  ASSUME NEW g, NEW p, NEW all, Explored(g, all), NEW found, NEW m \in Nat, Searches(g, p, all, found, m), NEW n \in 0 .. m
  PROVE  /\ found[n].new \subseteq found[n].all /\ found[n].all \subseteq Ends(g, all)
         /\ Starts(g, all) \subseteq found[n].all
         /\ \A w \in found[n].all \ found[n].new : Onward(g, p, all, w) \subseteq found[n].all
         /\ found[n].new = {} \/ Cardinality(found[n].all) > n
<1> DEFINE Good(o, k) == /\ o.new \subseteq o.all /\ o.all \subseteq Ends(g, all)
                         /\ Starts(g, all) \subseteq o.all
                         /\ \A w \in o.all \ o.new : Onward(g, p, all, w) \subseteq o.all
                         /\ o.new = {} \/ Cardinality(o.all) > k
           T == {k \in Nat : k <= m => Good(found[k], k)}
<1>0. \A s \in SUBSET Ends(g, all) : IsFiniteSet(s) /\ Cardinality(s) \in Nat
  BY EndsAreFinite, FS_Subset, FS_CardinalityType
<1>1. 0 \in T
  <2>1. found[0].new = Starts(g, all) /\ found[0].all = Starts(g, all)
    BY DEF Searches
  <2>2. Starts(g, all) \subseteq Ends(g, all)
    BY WaysStay
  <2>3. Starts(g, all) = {} \/ Cardinality(Starts(g, all)) > 0
    <3>1. Cardinality(Starts(g, all)) \in Nat /\ IsFiniteSet(Starts(g, all))
      BY <1>0, <2>2
    <3>2. Cardinality(Starts(g, all)) = 0 <=> Starts(g, all) = {}
      BY <3>1, FS_EmptySet
    <3> QED BY <3>1, <3>2
  <2>4. Good(found[0], 0)
    BY <2>1, <2>2, <2>3
  <2> QED BY <2>4
<1>2. ASSUME NEW k \in T PROVE k + 1 \in T
  <2> SUFFICES ASSUME k + 1 <= m PROVE Good(found[k + 1], k + 1)
    OBVIOUS
  <2> DEFINE o == found[k]
             more == Further(g, p, all, o)
  <2>1. Good(o, k)
    OBVIOUS
  <2>2. k + 1 \in 1 .. m /\ (k + 1) - 1 = k
    OBVIOUS
  <2>3. found[k + 1] = [new |-> more, all |-> o.all \cup more]
    BY <2>2 DEF Searches
  <2>4. found[k + 1].new = more /\ found[k + 1].all = o.all \cup more
    BY <2>3
  <2> HIDE DEF o
  <2>5. more \subseteq Ends(g, all)
    <3>1. \A w \in o.new : Onward(g, p, all, w) \subseteq Ends(g, all)
      BY <2>1, WaysStay
    <3> QED BY <3>1 DEF Further
  <2>6. \A w \in o.new : Onward(g, p, all, w) \subseteq o.all \cup more
    BY DEF Further
  <2>7. \A w \in (o.all \cup more) \ more : Onward(g, p, all, w) \subseteq o.all \cup more
    BY <2>1, <2>6
  <2>8. more = {} \/ Cardinality(o.all \cup more) > k + 1
    <3> SUFFICES ASSUME more # {} PROVE Cardinality(o.all \cup more) > k + 1
      OBVIOUS
    <3>1. o.new # {} /\ more \cap o.all = {}
      BY DEF Further
    <3>2. Cardinality(o.all) > k /\ Cardinality(o.all) \in Nat
      BY <1>0, <2>1, <3>1
    <3>3. o.all \in SUBSET (o.all \cup more) /\ o.all # o.all \cup more
      BY <3>1
    <3>4. o.all \cup more \in SUBSET Ends(g, all)
      BY <2>1, <2>5
    <3>5. IsFiniteSet(o.all \cup more) /\ Cardinality(o.all \cup more) \in Nat
      BY <1>0, <3>4
    <3> HIDE DEF more
    <3>6. Cardinality(o.all) <= Cardinality(o.all \cup more) /\ Cardinality(o.all \cup more) # Cardinality(o.all)
      BY <3>3, <3>5, FS_Subset
    <3> QED BY <3>2, <3>5, <3>6
  <2> HIDE DEF more
  <2> QED BY <2>1, <2>4, <2>5, <2>7, <2>8
<1>3. T \in SUBSET Nat
  OBVIOUS
<1>4. n \in Nat /\ n <= m
  OBVIOUS
<1> HIDE DEF T
<1>5. n \in T
  BY <1>1, <1>2, <1>3, <1>4, Upwards
<1> QED BY <1>4, <1>5 DEF T

\* The ways are closed: every start is one, and every way goes on to ways.
LEMMA WaysAreClosed ==
  ASSUME NEW g, NEW p, NEW all, Explored(g, all)
  PROVE  /\ Ways(g, p, all) \subseteq Ends(g, all) /\ Starts(g, all) \subseteq Ways(g, p, all)
         /\ \A w \in Ways(g, p, all) : Onward(g, p, all, w) \subseteq Ways(g, p, all)
<1> DEFINE m == Cardinality(Ends(g, all))
<1>0. m \in Nat /\ m \in 0 .. m
  BY EndsAreFinite
<1> HIDE DEF m
<1>1. PICK found : Searches(g, p, all, found, m) /\ Ways(g, p, all) = found[m].all
  BY WaysAreFound DEF m
<1>2. /\ found[m].new \subseteq found[m].all /\ found[m].all \subseteq Ends(g, all)
      /\ Starts(g, all) \subseteq found[m].all
      /\ \A w \in found[m].all \ found[m].new : Onward(g, p, all, w) \subseteq found[m].all
      /\ found[m].new = {} \/ Cardinality(found[m].all) > m
  BY <1>0, <1>1, SearchGoesOn
<1>3. Cardinality(found[m].all) <= m /\ Cardinality(found[m].all) \in Nat
  <2>1. found[m].all \in SUBSET Ends(g, all)
    BY <1>2
  <2>2. IsFiniteSet(found[m].all)
    BY <2>1, EndsAreFinite, FS_Subset
  <2> QED BY <2>1, <2>2, EndsAreFinite, FS_Subset, FS_CardinalityType DEF m
<1>4. found[m].new = {}
  BY <1>0, <1>2, <1>3
<1> QED BY <1>1, <1>2, <1>4

\* The ways are the least such set.
LEMMA WaysAreLeast ==
  ASSUME NEW g, NEW p, NEW all, Explored(g, all), NEW Z, Starts(g, all) \subseteq Z, \A w \in Ends(g, all) \cap Z : Onward(g, p, all, w) \subseteq Z
  PROVE  Ways(g, p, all) \subseteq Z
<1> DEFINE m == Cardinality(Ends(g, all))
<1>0. m \in Nat
  BY EndsAreFinite
<1> HIDE DEF m
<1>1. PICK found : Searches(g, p, all, found, m) /\ Ways(g, p, all) = found[m].all
  BY WaysAreFound DEF m
<1> DEFINE T == {k \in Nat : k <= m => found[k].all \subseteq Z}
<1>2. 0 \in T
  <2>1. found[0].all = Starts(g, all)
    BY <1>1 DEF Searches
  <2> QED BY <2>1
<1>3. ASSUME NEW k \in T PROVE k + 1 \in T
  <2> SUFFICES ASSUME k + 1 <= m PROVE found[k + 1].all \subseteq Z
    OBVIOUS
  <2>1. k + 1 \in 1 .. m /\ (k + 1) - 1 = k /\ k \in 0 .. m
    BY <1>0
  <2>2. found[k + 1] = [new |-> Further(g, p, all, found[k]), all |-> found[k].all \cup Further(g, p, all, found[k])]
    BY <1>1, <2>1 DEF Searches
  <2>3. found[k + 1].all = found[k].all \cup Further(g, p, all, found[k])
    BY <2>2
  <2>4. found[k].new \subseteq found[k].all /\ found[k].all \subseteq Ends(g, all)
    BY <1>0, <1>1, <2>1, SearchGoesOn
  <2>5. found[k].all \subseteq Z
    BY <2>1
  <2>6. \A w \in found[k].new : Onward(g, p, all, w) \subseteq Z
    BY <2>4, <2>5
  <2> QED BY <2>3, <2>5, <2>6 DEF Further
<1>4. T \in SUBSET Nat
  OBVIOUS
<1> HIDE DEF T
<1>5. m \in T
  BY <1>0, <1>2, <1>3, <1>4, Upwards
<1> QED BY <1>0, <1>1, <1>5 DEF T

\* IsFlowGraph's levels: the blocks that n edges lead to.
Levels(upto, g, n) ==
  /\ upto[0] = Sources(g)
  /\ \A k \in 1 .. n :
       upto[k] = upto[k - 1] \cup UNION {{g[b].succ[i] : i \in 1 .. Len(g[b].succ)} : b \in upto[k - 1]}

LEMMA LevelsExist ==
  ASSUME NEW g, IsFlowGraph(g)
  PROVE  \E upto : Levels(upto, g, Len(g)) /\ upto[Len(g)] = 1 .. Len(g)
<1> DEFINE m == Len(g)
           D == 0 .. m
           next(r) == r \cup UNION {{g[b].succ[i] : i \in 1 .. Len(g[b].succ)} : b \in r}
           R(f) == f = [n \in D |-> IF n = 0 THEN Sources(g) ELSE next(f[n - 1])]
           upto == CHOOSE f : R(f)
           T == {k \in Nat : \E f : Levels(f, g, k)}
<1>0. m \in Nat /\ upto[m] = 1 .. m
  BY DEF IsFlowGraph
<1>1. 0 \in T
  <2> DEFINE f == [n \in {0} |-> Sources(g)]
  <2>1. f[0] = Sources(g)
    OBVIOUS
  <2> HIDE DEF f
  <2>2. Levels(f, g, 0)
    BY <2>1 DEF Levels
  <2> QED BY <2>2
<1>2. ASSUME NEW k \in T PROVE k + 1 \in T
  <2>1. PICK h : Levels(h, g, k)
    OBVIOUS
  <2> DEFINE x == next(h[k])
             f == [n \in 0 .. k + 1 |-> IF n = k + 1 THEN x ELSE h[n]]
  <2>2. k + 1 \in 0 .. k + 1 /\ f[k + 1] = x /\ \A n \in 0 .. k : f[n] = h[n]
    OBVIOUS
  <2> HIDE DEF f
  <2>3. f[0] = Sources(g)
    BY <2>1, <2>2 DEF Levels
  <2>4. ASSUME NEW n \in 1 .. k + 1 PROVE f[n] = next(f[n - 1])
    <3>1. CASE n = k + 1
      <4>1. n - 1 = k /\ k \in 0 .. k
        BY <3>1
      <4>2. f[n] = next(h[k]) /\ f[n - 1] = h[k]
        BY <3>1, <4>1, <2>2
      <4> HIDE DEF next
      <4> QED BY <4>2
    <3>2. CASE n # k + 1
      <4>1. n \in 1 .. k /\ n \in 0 .. k /\ n - 1 \in 0 .. k
        BY <3>2
      <4>2. h[n] = next(h[n - 1]) /\ f[n] = h[n] /\ f[n - 1] = h[n - 1]
        BY <4>1, <2>1, <2>2 DEF Levels
      <4> HIDE DEF next
      <4> QED BY <4>2
    <3> QED BY <3>1, <3>2
  <2>5. Levels(f, g, k + 1)
    BY <2>3, <2>4 DEF Levels
  <2> QED BY <2>5
<1>3. m \in T
  <2> HIDE DEF T
  <2>1. T \in SUBSET Nat
    BY DEF T
  <2> QED BY <1>0, <1>1, <1>2, <2>1, Upwards
<1>4. PICK h : Levels(h, g, m)
  BY <1>3
<1>5. \E f : R(f)
  <2> DEFINE f == [n \in D |-> h[n]]
  <2>1. 0 \in D /\ f[0] = h[0]
    BY <1>0
  <2>2. ASSUME NEW n \in D, n # 0 PROVE f[n] = next(f[n - 1])
    <3>1. n \in 1 .. m /\ n - 1 \in D
      BY <1>0, <2>2
    <3>2. f[n] = h[n] /\ f[n - 1] = h[n - 1]
      BY <3>1
    <3>3. h[n] = next(h[n - 1])
      BY <3>1, <1>4 DEF Levels
    <3> HIDE DEF f, next
    <3> QED BY <3>2, <3>3
  <2>3. f = [n \in D |-> f[n]]
    OBVIOUS
  <2>4. f[0] = Sources(g)
    BY <1>4, <2>1 DEF Levels
  <2> HIDE DEF f, next
  <2>5. R(f)
    BY <2>2, <2>3, <2>4
  <2> QED BY <2>5
<1>6. R(upto)
  <2> HIDE DEF R
  <2> QED BY <1>5
<1> HIDE DEF upto
<1>8. 0 \in D /\ \A n \in 1 .. m : n \in D /\ n # 0
  BY <1>0
<1>9. Levels(upto, g, m)
  BY <1>6, <1>8 DEF Levels
<1> QED BY <1>0, <1>9

\* Some way leads to every block.
LEMMA EveryBlockHasAWay ==
  ASSUME NEW g, NEW p, NEW all, Explored(g, all)
  PROVE  \A b \in 1 .. Len(g) : \E w \in Ways(g, p, all) : w.b = b
<1> DEFINE W == Ways(g, p, all)
           Met(b) == b \in 1 .. Len(g) /\ \E w \in W : w.b = b
<1>1. W \subseteq Ends(g, all) /\ Starts(g, all) \subseteq W /\ \A w \in W : Onward(g, p, all, w) \subseteq W
  BY WaysAreClosed
<1>2. Shaped(g)
  BY GraphIsShaped DEF Explored
<1>3. ASSUME NEW b \in Sources(g) PROVE Met(b)
  <2>1. [b |-> b, S |-> StartIn(g, all)[b]] \in Starts(g, all)
    BY DEF Starts
  <2> HIDE DEF W
  <2>2. [b |-> b, S |-> StartIn(g, all)[b]].b = b
    OBVIOUS
  <2>3. \E w \in W : w.b = b
    BY <1>1, <2>1, <2>2
  <2> QED BY <2>3 DEF Sources
<1>4. Entry \in Sources(g)
  BY <1>2 DEF Sources, Shaped, Entry
<1>5. ASSUME NEW c, Met(c), NEW i \in 1 .. Len(g[c].succ) PROVE Met(g[c].succ[i])
  <2>1. g[c].succ[i] \in 1 .. Len(g)
    BY <1>2, <1>5 DEF Shaped
  <2>2. CASE g[c].succ[i] = Entry
    BY <1>3, <1>4, <2>2
  <2>3. CASE g[c].succ[i] # Entry
    <3>1. PICK w \in W : w.b = c
      BY <1>5
    <3> DEFINE v == [b |-> g[w.b].succ[i], S |-> all \cap Side(ComputeOut(g, p, w.b, w.S), i)]
    <3>2. v.b = g[c].succ[i] /\ v.b # Entry
      BY <2>3, <3>1
    <3>3. v \in Onward(g, p, all, w)
      BY <3>1, <3>2 DEF Onward
    <3> HIDE DEF v, W
    <3>4. v \in W
      BY <1>1, <3>3
    <3> QED BY <2>1, <3>2, <3>4
  <2> QED BY <2>2, <2>3
<1> HIDE DEF Met, W
<1>6. PICK upto : Levels(upto, g, Len(g)) /\ upto[Len(g)] = 1 .. Len(g)
  BY LevelsExist DEF Explored
<1> DEFINE T == {k \in Nat : k <= Len(g) => \A b \in upto[k] : Met(b)}
<1>7. 0 \in T
  BY <1>3, <1>6 DEF Levels
<1>8. ASSUME NEW k \in T PROVE k + 1 \in T
  <2> SUFFICES ASSUME k + 1 <= Len(g), NEW b \in upto[k + 1] PROVE Met(b)
    OBVIOUS
  <2>1. k + 1 \in 1 .. Len(g) /\ (k + 1) - 1 = k /\ k <= Len(g)
    BY <1>2 DEF Shaped
  <2>2. upto[k + 1] = upto[k] \cup UNION {{g[c].succ[i] : i \in 1 .. Len(g[c].succ)} : c \in upto[k]}
    BY <1>6, <2>1 DEF Levels
  <2>3. b \in upto[k] \/ \E c \in upto[k] : \E i \in 1 .. Len(g[c].succ) : b = g[c].succ[i]
    BY <2>2
  <2>4. \A c \in upto[k] : Met(c)
    BY <2>1
  <2> QED BY <1>5, <2>3, <2>4
<1>9. T \in SUBSET Nat /\ Len(g) \in Nat
  BY <1>2 DEF Shaped
<1> HIDE DEF T
<1>10. Len(g) \in T
  BY <1>7, <1>8, <1>9, Upwards
<1>11. \A b \in 1 .. Len(g) : Met(b)
  BY <1>6, <1>9, <1>10 DEF T
<1> QED BY <1>11 DEF Met, W

-----------------------------------------------------------------------------
\* A pass proves facts about the function's variables.
LEMMA PassesExplore ==
  ASSUME NEW g, IsFlowGraph(g), NEW p
  PROVE  Explored(g, Universe(g, p))
<1>1. AllBodyDeclared(g) \in SUBSET Local /\ Tracked(g) \in SUBSET Ref
  BY DEF AllBodyDeclared, Tracked
<1>2. IsFiniteSet(AllBodyDeclared(g)) /\ IsFiniteSet(Tracked(g))
  BY <1>1, VariablesAssumption, FS_Subset
<1> QED BY <1>2 DEF Explored, Universe

\* The starting facts leave out nothing that holds on every way.
LEMMA StartsLoseNothing ==
  ASSUME NEW g, NEW p, NEW all, Explored(g, all), NEW b \in 1 .. Len(g)
  PROVE  /\ StartIn(g, all)[b] \subseteq all
         /\ OnEveryWay(b, all, Ways(g, p, all)) \subseteq StartIn(g, all)[b]
<1>1. StartIn(g, all)[b] = IF b = Entry THEN {} ELSE all
  BY DEF StartIn
<1>2. CASE b # Entry
  BY <1>1, <1>2 DEF OnEveryWay
<1>3. CASE b = Entry
  <2>1. [b |-> b, S |-> StartIn(g, all)[b]] \in Starts(g, all)
    BY <1>3 DEF Starts, Sources
  <2> DEFINE w == [b |-> b, S |-> StartIn(g, all)[b]]
  <2>2. w.b = b /\ w.S = {}
    BY <1>1, <1>3
  <2>3. w \in Ways(g, p, all)
    BY <2>1, WaysAreClosed
  <2> HIDE DEF w
  <2>4. OnEveryWay(b, all, Ways(g, p, all)) = {}
    BY <2>2, <2>3 DEF OnEveryWay
  <2> QED BY <1>1, <1>3, <2>4
<1> QED BY <1>2, <1>3

\* What holds on every way to a block is established by each predecessor that
\* holds what holds on every way to it: the ways that meet there may be taken
\* one by one or all together.
LEMMA EdgeLosesNothing ==
  ASSUME NEW g, NEW p, NEW all, Explored(g, all),
         NEW b, b # Entry, NEW e \in EdgesInto(g, b), NEW I,
         OnEveryWay(e[1], all, Ways(g, p, all)) \subseteq I
  PROVE  OnEveryWay(b, all, Ways(g, p, all)) \subseteq Side(ComputeOut(g, p, e[1], I), e[2])
<1> DEFINE W == Ways(g, p, all)
           c == e[1]
           i == e[2]
           F == {w.S : w \in {v \in W : v.b = c}}
<1>1. c \in 1 .. Len(g) /\ i \in 1 .. 2 /\ i <= Len(g[c].succ) /\ g[c].succ[i] = b
  BY DEF EdgesInto
<1>2. Shaped(g)
  BY GraphIsShaped DEF Explored
<1>3. Len(g[c].stmts) \in Nat /\ i \in 1 .. Len(g[c].succ)
  BY <1>1, <1>2 DEF Shaped
<1>4. W \subseteq Ends(g, all) /\ \A w \in W : Onward(g, p, all, w) \subseteq W
  BY WaysAreClosed
<1>5. \E w \in W : w.b = c
  BY <1>1, EveryBlockHasAWay
<1> HIDE DEF W, c, i
<1>6. F # {} /\ \A S \in F : S \subseteq all
  BY <1>4, <1>5 DEF Ends
<1>7. Meet(F) = OnEveryWay(c, all, W)
  <2>1. ASSUME NEW x PROVE x \in Meet(F) <=> x \in OnEveryWay(c, all, W)
    BY <1>6, MeetIs DEF OnEveryWay
  <2> QED BY <2>1, Extensional
<1>8. ASSUME NEW x \in OnEveryWay(b, all, W), NEW w \in W, w.b = c
      PROVE  x \in Side(ComputeOut(g, p, c, w.S), i)
  <2> DEFINE v == [b |-> g[w.b].succ[i], S |-> all \cap Side(ComputeOut(g, p, w.b, w.S), i)]
  <2>1. v.b = b /\ v.S = all \cap Side(ComputeOut(g, p, c, w.S), i)
    BY <1>1, <1>8 DEF c, i
  <2>2. v \in Onward(g, p, all, w)
    BY <1>3, <1>8, <2>1 DEF Onward
  <2> HIDE DEF v
  <2>3. v \in W
    BY <1>4, <2>2
  <2> QED BY <2>1, <2>3 DEF OnEveryWay
<1>9. ASSUME NEW x \in OnEveryWay(b, all, W) PROVE x \in Side(ComputeOut(g, p, c, I), i)
  <2>1. \A S \in F : x \in Side(ComputeOut(g, p, c, S), i)
    BY <1>8
  <2> HIDE DEF F
  <2>2. x \in Side(ComputeOut(g, p, c, Meet(F)), i)
    BY <1>3, <1>6, <2>1, BlockMeets
  <2>3. Side(ComputeOut(g, p, c, Meet(F)), i) \subseteq Side(ComputeOut(g, p, c, I), i)
    BY <1>3, <1>7, BlockGrows DEF W, c
  <2> QED BY <2>2, <2>3
<1> QED BY <1>9 DEF W, c, i

\* A block keeps every fact that holds on all the ways to it; a block that is
\* not met from others keeps what it started with.
NothingLost ==
  /\ Explored(graph, universe)
  /\ pass # "done" =>
       /\ \A b \in Sources(graph) : in[b] = StartIn(graph, universe)[b]
       /\ \A b \in Blocks : /\ in[b] \subseteq universe
                            /\ OnEveryWay(b, universe, Ways(graph, pass, universe)) \subseteq in[b]

LEMMA BeginLosesNothing ==
  ASSUME NEW g, NEW p, IsFlowGraph(g), graph' = g, pass' = p,
         universe' = Universe(g, p), in' = StartIn(g, universe')
  PROVE  NothingLost'
<1> DEFINE all == Universe(g, p)
<1>1. Explored(g, all)
  BY PassesExplore
<1> HIDE DEF all
<1>2. universe' = all /\ in' = StartIn(g, all)
  BY DEF all
<1>3. \A b \in 1 .. Len(g) : /\ StartIn(g, all)[b] \subseteq all
                             /\ OnEveryWay(b, all, Ways(g, p, all)) \subseteq StartIn(g, all)[b]
  BY <1>1, StartsLoseNothing
<1> QED BY <1>1, <1>2, <1>3 DEF NothingLost, Blocks

LEMMA VisitLosesNothing ==
  ASSUME SweepInv, NothingLost, VisitBlock
  PROVE  NothingLost'
<1>0. /\ graph' = graph /\ pass' = pass /\ universe' = universe
      /\ pass # "done" /\ at \in Blocks
  BY DEF VisitBlock
<1>1. CASE at = Entry \/ EdgesInto(graph, at) = {} \/ NewIn(at) = in[at]
  <2>1. UNCHANGED in
    BY <1>1 DEF VisitBlock
  <2> QED BY <1>0, <2>1 DEF NothingLost, Blocks
<1>2. CASE ~(at = Entry \/ EdgesInto(graph, at) = {} \/ NewIn(at) = in[at])
  <2>1. in' = [in EXCEPT ![at] = NewIn(at)]
    BY <1>2 DEF VisitBlock
  <2>2. DOMAIN in = Blocks /\ \A b \in Blocks : out[b] = ComputeOut(graph, pass, b, in[b])
    BY <1>0 DEF SweepInv, TypeInv, Computed
  <2>3. in'[at] = NewIn(at) /\ \A b \in Blocks : b # at => in'[b] = in[b]
    BY <1>0, <2>1, <2>2
  <2>4. \A b \in Sources(graph) : b \in Blocks /\ b # at
    BY <1>2 DEF Sources, Blocks
  <2>5. NewIn(at) \subseteq universe
    BY DEF NewIn
  <2> DEFINE W == Ways(graph, pass, universe)
  <2>6. OnEveryWay(at, universe, W) \subseteq NewIn(at)
    <3> SUFFICES ASSUME NEW x \in OnEveryWay(at, universe, W) PROVE x \in NewIn(at)
      OBVIOUS
    <3>1. x \in universe
      BY DEF OnEveryWay
    <3>2. ASSUME NEW e \in EdgesInto(graph, at) PROVE x \in OnEdge(e)
      <4>1. e[1] \in Blocks /\ at # Entry
        BY <1>2 DEF EdgesInto, Blocks
      <4>2. OnEveryWay(e[1], universe, W) \subseteq in[e[1]]
        BY <1>0, <4>1 DEF NothingLost
      <4>3. OnEveryWay(at, universe, W) \subseteq Side(ComputeOut(graph, pass, e[1], in[e[1]]), e[2])
        BY <4>1, <4>2, EdgeLosesNothing DEF NothingLost
      <4>4. OnEdge(e) = Side(ComputeOut(graph, pass, e[1], in[e[1]]), e[2])
        BY <2>2, <4>1 DEF OnEdge, Side
      <4> QED BY <4>3, <4>4
    <3> QED BY <3>1, <3>2 DEF NewIn
  <2> HIDE DEF W
  <2>7. \A b \in Sources(graph) : in'[b] = StartIn(graph, universe)[b]
    BY <1>0, <2>3, <2>4 DEF NothingLost
  <2>8. ASSUME NEW b \in Blocks
        PROVE  in'[b] \subseteq universe /\ OnEveryWay(b, universe, W) \subseteq in'[b]
    <3>1. CASE b = at
      BY <2>3, <2>5, <2>6, <3>1
    <3>2. CASE b # at
      BY <1>0, <2>3, <3>2 DEF NothingLost, W
    <3> QED BY <3>1, <3>2
  <2> QED BY <1>0, <2>7, <2>8 DEF NothingLost, Blocks, W
<1> QED BY <1>1, <1>2

\* At the fixpoint a block holds only what holds on each way to it.
LEMMA FixpointClaimsNoMore ==
  ASSUME SweepInv, NothingLost, AtFixpoint
  PROVE  \A w \in Ways(graph, pass, universe) : in[w.b] \subseteq w.S
<1> DEFINE E == Ends(graph, universe)
           Z == {w \in E : in[w.b] \subseteq w.S}
<1>1. /\ pass # "done" /\ Explored(graph, universe)
      /\ \A b \in Sources(graph) : in[b] = StartIn(graph, universe)[b]
  BY DEF AtFixpoint, NothingLost
<1>2. Shaped(graph)
  BY <1>1, GraphIsShaped DEF Explored
<1>3. \A b \in Blocks : Solved(b) /\ out[b] = ComputeOut(graph, pass, b, in[b])
  <2>1. \A b \in Blocks : b < at
    BY DEF SweepInv, TypeInv, IsGraph, AtFixpoint, Blocks
  <2>2. \A b \in Blocks : Solved(b)
    BY <2>1 DEF SweepInv, SolvedBehind, AtFixpoint
  <2> QED BY <2>2 DEF SweepInv, Computed, AtFixpoint
<1>4. Starts(graph, universe) \subseteq Z
  <2> SUFFICES ASSUME NEW w \in Starts(graph, universe) PROVE w \in Z
    OBVIOUS
  <2>1. w \in E
    BY <1>1, WaysStay
  <2>2. PICK b \in Sources(graph) : w = [b |-> b, S |-> StartIn(graph, universe)[b]]
    BY DEF Starts
  <2>3. w.b = b /\ w.S = StartIn(graph, universe)[b]
    BY <2>2
  <2> QED BY <1>1, <2>1, <2>3
<1>5. ASSUME NEW w \in E \cap Z PROVE Onward(graph, pass, universe, w) \subseteq Z
  <2> SUFFICES ASSUME NEW v \in Onward(graph, pass, universe, w) PROVE v \in Z
    OBVIOUS
  <2>1. v \in E
    BY <1>1, WaysStay
  <2>2. PICK i \in 1 .. Len(graph[w.b].succ) :
          /\ v = [b |-> graph[w.b].succ[i], S |-> universe \cap Side(ComputeOut(graph, pass, w.b, w.S), i)]
          /\ v.b # Entry
    BY DEF Onward
  <2>3. v.b = graph[w.b].succ[i] /\ v.S = universe \cap Side(ComputeOut(graph, pass, w.b, w.S), i)
    BY <2>2
  <2>4. w.b \in Blocks /\ v.b \in Blocks
    BY <2>1 DEF Ends, Blocks
  <2>5. Len(graph[w.b].succ) \in 0 .. 2 /\ Len(graph[w.b].stmts) \in Nat
    BY <1>2, <2>4 DEF Shaped, Blocks
  <2>6. <<w.b, i>> \in EdgesInto(graph, v.b)
    <3> DEFINE n == Len(graph[w.b].succ)
    <3>0. n \in 0 .. 2 /\ i \in 1 .. n
      BY <2>5
    <3> HIDE DEF n
    <3>1. i \in 1 .. 2 /\ i <= n
      BY <3>0
    <3>2. i <= Len(graph[w.b].succ)
      BY <3>1 DEF n
    <3> QED BY <3>2, <2>3, <2>4, <3>1 DEF EdgesInto, Blocks
  <2>7. in[v.b] = NewIn(v.b)
    BY <1>3, <2>2, <2>4, <2>6 DEF Solved
  <2>8. in[v.b] \subseteq universe \cap OnEdge(<<w.b, i>>)
    BY <2>6, <2>7 DEF NewIn
  <2>9. OnEdge(<<w.b, i>>) = Side(ComputeOut(graph, pass, w.b, in[w.b]), i)
    BY <1>3, <2>4 DEF OnEdge, Side
  <2>10. in[w.b] \subseteq w.S
    OBVIOUS
  <2>11. Side(ComputeOut(graph, pass, w.b, in[w.b]), i) \subseteq Side(ComputeOut(graph, pass, w.b, w.S), i)
    BY <2>5, <2>10, BlockGrows
  <2> QED BY <2>1, <2>3, <2>8, <2>9, <2>11
<1> HIDE DEF Z
<1>6. Ways(graph, pass, universe) \subseteq Z
  BY <1>1, <1>4, <1>5, WaysAreLeast
<1> QED BY <1>6 DEF Z

LEMMA NothingIsLost ==
  ASSUME NEW CONSTANT g, NEW CONSTANT stopped, IsFlowGraph(g)
  PROVE  PassSpec(g, stopped) => [](SweepInv /\ NothingLost)
<1>1. PassInit(g, stopped) => NothingLost
  <2> SUFFICES ASSUME PassInit(g, stopped) PROVE NothingLost
    OBVIOUS
  <2> DEFINE all == Universe(g, "assign")
  <2>1. Explored(g, all)
    BY PassesExplore
  <2>2. graph = g /\ universe = all /\ in = StartIn(g, all) /\ pass \in {"assign", "done"}
    BY DEF PassInit
  <2> HIDE DEF all
  <2>3. \A b \in 1 .. Len(g) : /\ StartIn(g, all)[b] \subseteq all
                               /\ OnEveryWay(b, all, Ways(g, pass, all)) \subseteq StartIn(g, all)[b]
    BY <2>1, StartsLoseNothing
  <2> QED BY <2>1, <2>2, <2>3 DEF NothingLost, Blocks
<1>2. SweepInv /\ NothingLost /\ [PassStep]_passVars => NothingLost'
  <2> SUFFICES ASSUME SweepInv, NothingLost, [PassStep]_passVars PROVE NothingLost'
    OBVIOUS
  <2>1. CASE VisitBlock
    BY <2>1, VisitLosesNothing
  <2>2. CASE SweepAgain \/ UNCHANGED passVars
    <3>1. UNCHANGED <<graph, pass, universe, in>>
      BY <2>2 DEF SweepAgain, passVars
    <3> QED BY <3>1 DEF NothingLost, Blocks
  <2>3. CASE Report
    <3>1. CASE Begin("null")
      <4>1. /\ graph' = graph /\ pass' = "null" /\ universe' = Universe(graph, "null")
            /\ in' = StartIn(graph, universe')
        BY <2>3, <3>1 DEF Report, Begin
      <4>2. IsFlowGraph(graph)
        BY DEF NothingLost, Explored
      <4> QED BY <4>1, <4>2, BeginLosesNothing
    <3>2. CASE pass' = "done" /\ UNCHANGED <<universe, at, changed, in, out>>
      BY <2>3, <3>2 DEF Report, NothingLost
    <3> QED BY <2>3, <3>1, <3>2 DEF Report
  <2> QED BY <2>1, <2>2, <2>3 DEF PassStep
<1>3. IsGraph(g)
  BY GraphIsShaped
<1>4. PassSpec(g, stopped) => []SweepInv
  BY <1>3, SweepInvariant
<1> QED BY <1>1, <1>2, <1>4, PTL DEF PassSpec

\* Whatever the graph: when a pass judges, it holds at each block exactly what
\* holds on every way to it.  No fact is claimed that some way does not
\* establish, and none is lost by meeting the ways block by block.
THEOREM SolutionIsAlwaysExact ==
  ASSUME NEW CONSTANT g, NEW CONSTANT stopped, IsFlowGraph(g)
  PROVE  PassSpec(g, stopped) => []SolutionIsExact
<1>1. SweepInv /\ NothingLost => SolutionIsExact
  <2> SUFFICES ASSUME SweepInv, NothingLost, AtFixpoint, NEW b \in Blocks
               PROVE  in[b] = OnEveryWay(b, universe, Ways(graph, pass, universe))
    BY DEF SolutionIsExact
  <2> DEFINE W == Ways(graph, pass, universe)
  <2>1. \A w \in W : in[w.b] \subseteq w.S
    BY FixpointClaimsNoMore
  <2>2. in[b] \subseteq universe /\ OnEveryWay(b, universe, W) \subseteq in[b]
    BY DEF NothingLost, AtFixpoint
  <2> HIDE DEF W
  <2>3. in[b] \subseteq OnEveryWay(b, universe, W)
    BY <2>1, <2>2 DEF OnEveryWay
  <2> QED BY <2>2, <2>3, Extensional DEF W
<1>2. PassSpec(g, stopped) => [](SweepInv /\ NothingLost)
  BY NothingIsLost
<1> QED BY <1>1, <1>2, PTL

\* An expression is unproven where the ways meet exactly when it is on one.
LEMMA UnprovenMeets ==
  ASSUME NEW e, NEW F, F # {}
  PROVE  Unproven(e, Meet(F)) <=> \E S \in F : Unproven(e, S)
<1>1. \A a : UnprovenAtom(a, Meet(F)) <=> \E S \in F : UnprovenAtom(a, S)
  BY MeetIs DEF UnprovenAtom
<1>2. ASSUME NEW a, NEW b
      PROVE  /\ UnprovenAtom(b, NarrowAtom(a, Meet(F)).t) <=> \E S \in F : UnprovenAtom(b, NarrowAtom(a, S).t)
             /\ UnprovenAtom(b, NarrowAtom(a, Meet(F)).f) <=> \E S \in F : UnprovenAtom(b, NarrowAtom(a, S).f)
  BY AtomMeets DEF UnprovenAtom
<1>3. CASE e.t = "and"
  <2>1. \A S : Unproven(e, S) <=> UnprovenAtom(e.l, S) \/ UnprovenAtom(e.r, NarrowAtom(e.l, S).t)
    BY <1>3 DEF Unproven
  <2> QED BY <1>1, <1>2, <2>1
<1>4. CASE e.t = "or"
  <2>1. \A S : Unproven(e, S) <=> UnprovenAtom(e.l, S) \/ UnprovenAtom(e.r, NarrowAtom(e.l, S).f)
    BY <1>4 DEF Unproven
  <2> QED BY <1>1, <1>2, <2>1
<1>5. CASE e.t = "not"
  <2>1. \A S : Unproven(e, S) <=> UnprovenAtom(e.l, S)
    BY <1>5 DEF Unproven
  <2> QED BY <1>1, <2>1
<1>6. CASE e.t \notin {"and", "or", "not"}
  <2>1. \A S : Unproven(e, S) <=> UnprovenAtom(e, S)
    BY <1>6 DEF Unproven
  <2> QED BY <1>1, <2>1
<1> QED BY <1>3, <1>4, <1>5, <1>6

\* So is a statement reported.
LEMMA ReportedMeets ==
  ASSUME NEW p, NEW s, NEW F, F # {}
  PROVE  Reported(p, s, Meet(F)) <=> \E S \in F : Reported(p, s, S)
<1>1. CASE p = "assign"
  <2>1. \A S : Reported(p, s, S) <=> \E x \in Reads(s) \cap universe : x \notin S
    BY <1>1 DEF Reported
  <2> QED BY <2>1, MeetIs
<1>2. CASE p # "assign"
  <2>1. \A S : Reported(p, s, S) <=> \E e \in Expressions(s) : Unproven(e, S)
    BY <1>2 DEF Reported
  <2> QED BY <2>1, UnprovenMeets
<1> QED BY <1>1, <1>2

\* The ways to a block meet in what the solution holds there.
LEMMA WaysMeet ==
  ASSUME NEW g, NEW p, NEW all, Explored(g, all), NEW b \in 1 .. Len(g)
  PROVE  LET F == {w.S : w \in {v \in Ways(g, p, all) : v.b = b}}
         IN  F # {} /\ Meet(F) = OnEveryWay(b, all, Ways(g, p, all))
<1> DEFINE W == Ways(g, p, all)
           F == {w.S : w \in {v \in W : v.b = b}}
<1>1. W \subseteq Ends(g, all)
  BY WaysAreClosed
<1>2. \A c \in 1 .. Len(g) : \E w \in W : w.b = c
  BY EveryBlockHasAWay
<1> HIDE DEF W
<1>3. F # {} /\ \A S \in F : S \subseteq all
  BY <1>1, <1>2 DEF Ends
<1>4. ASSUME NEW x PROVE x \in Meet(F) <=> x \in OnEveryWay(b, all, W)
  <2>1. (\A S \in F : x \in S) <=> \A w \in W : w.b = b => x \in w.S
    OBVIOUS
  <2> HIDE DEF F
  <2>2. x \in Meet(F) <=> \A S \in F : x \in S
    BY <1>3, MeetIs
  <2>3. (\A S \in F : x \in S) => x \in all
    BY <1>3
  <2> QED BY <2>1, <2>2, <2>3 DEF OnEveryWay
<1>5. Meet(F) = OnEveryWay(b, all, W)
  <2> HIDE DEF F
  <2> QED BY <1>4, Extensional
<1> QED BY <1>3, <1>5 DEF W

\* A statement of a block is reported exactly when it is on some way there.
LEMMA BlockVerdict ==
  ASSUME NothingLost, SolutionIsExact, AtFixpoint, NEW b \in Blocks, NEW i \in 1 .. Len(graph[b].stmts)
  PROVE  Reported(pass, graph[b].stmts[i], Along(pass, graph[b].stmts, in[b])[i - 1].t)
           <=> \E w \in Ways(graph, pass, universe) :
                 w.b = b /\ Reported(pass, graph[b].stmts[i], Along(pass, graph[b].stmts, w.S)[i - 1].t)
<1> DEFINE W == Ways(graph, pass, universe)
           Before(S) == Along(pass, graph[b].stmts, S)[i - 1].t
           F == {w.S : w \in {v \in W : v.b = b}}
           G == {Before(S) : S \in F}
<1>1. Explored(graph, universe)
  BY DEF NothingLost
<1>2. in[b] = OnEveryWay(b, universe, W)
  BY DEF SolutionIsExact
<1>3. F # {} /\ Meet(F) = in[b]
  BY <1>1, <1>2, WaysMeet DEF Blocks
<1>4. Len(graph[b].stmts) \in Nat
  BY <1>1, GraphIsShaped DEF Explored, Shaped, Blocks
<1>5. i - 1 \in 0 .. Len(graph[b].stmts)
  <2> DEFINE n == Len(graph[b].stmts)
  <2>1. n \in Nat /\ i \in 1 .. n
    BY <1>4
  <2> HIDE DEF n
  <2>2. i - 1 \in 0 .. n
    BY <2>1
  <2> QED BY <2>2 DEF n
<1> HIDE DEF F
<1>6. ASSUME NEW x PROVE x \in Before(in[b]) <=> \A S \in F : x \in Before(S)
  BY <1>3, <1>4, <1>5, AlongMeets
<1> HIDE DEF Before
<1>7. G # {}
  BY <1>3
<1>8. ASSUME NEW x PROVE x \in Before(in[b]) <=> x \in Meet(G)
  <2>1. (\A T \in G : x \in T) <=> \A S \in F : x \in Before(S)
    OBVIOUS
  <2> HIDE DEF G
  <2>2. x \in Meet(G) <=> \A T \in G : x \in T
    BY <1>7, MeetIs
  <2> QED BY <1>6, <2>1, <2>2
<1>9. Before(in[b]) = Meet(G)
  BY <1>8, Extensional
<1>10. Reported(pass, graph[b].stmts[i], Before(in[b])) <=> \E T \in G : Reported(pass, graph[b].stmts[i], T)
  <2> HIDE DEF G
  <2> QED BY <1>7, <1>9, ReportedMeets
<1>11. Reported(pass, graph[b].stmts[i], Before(in[b]))
         <=> \E S \in F : Reported(pass, graph[b].stmts[i], Before(S))
  BY <1>10
<1> HIDE DEF W
<1>12. Reported(pass, graph[b].stmts[i], Before(in[b]))
         <=> \E w \in W : w.b = b /\ Reported(pass, graph[b].stmts[i], Before(w.S))
  BY <1>11 DEF F
<1> QED BY <1>12 DEF W, Before

\* Whatever the graph: a pass rejects it exactly when some way through it
\* reaches a read or a dereference that this way has not proven.
THEOREM VerdictIsAlwaysExact ==
  ASSUME NEW CONSTANT g, NEW CONSTANT stopped, IsFlowGraph(g)
  PROVE  PassSpec(g, stopped) => []VerdictIsExact
<1>1. NothingLost /\ SolutionIsExact => VerdictIsExact
  <2> SUFFICES ASSUME NothingLost, SolutionIsExact, AtFixpoint PROVE VerdictIsExact
    BY DEF VerdictIsExact
  <2> DEFINE W == Ways(graph, pass, universe)
             Shows(b, i, S) == Reported(pass, graph[b].stmts[i], Along(pass, graph[b].stmts, S)[i - 1].t)
  <2>1. \A w \in W : w.b \in Blocks
    BY WaysAreClosed DEF NothingLost, Ends, Blocks
  <2>2. \A b \in Blocks : \A i \in 1 .. Len(graph[b].stmts) :
          Shows(b, i, in[b]) <=> \E w \in W : w.b = b /\ Shows(b, i, w.S)
    BY BlockVerdict
  <2>3. Reports <=> \E b \in Blocks : \E i \in 1 .. Len(graph[b].stmts) : Shows(b, i, in[b])
    BY DEF Reports
  <2> HIDE DEF Shows, W
  <2>4. Reports <=> \E w \in W : \E i \in 1 .. Len(graph[w.b].stmts) : Shows(w.b, i, w.S)
    BY <2>1, <2>2, <2>3
  <2> QED BY <2>4 DEF VerdictIsExact, Shows, W
<1>2. PassSpec(g, stopped) => [](SweepInv /\ NothingLost)
  BY NothingIsLost
<1>3. PassSpec(g, stopped) => []SolutionIsExact
  BY SolutionIsAlwaysExact
<1> QED BY <1>1, <1>2, <1>3, PTL

-----------------------------------------------------------------------------
\* Every block that is met from others would lose facts now, or keep them.
Descending ==
  pass # "done" => \A b \in Blocks \ Sources(graph) : NewIn(b) \subseteq in[b]

\* Facts that shrink at some blocks shrink at every edge, and where edges meet.
LEMMA MeetsShrink ==
  ASSUME Shaped(graph), \A b \in Blocks : out[b] = ComputeOut(graph, pass, b, in[b]),
         graph' = graph, universe' = universe,
         \A b \in Blocks : out'[b] = ComputeOut(graph, pass, b, in'[b]),
         \A b \in Blocks : in'[b] \subseteq in[b],
         NEW b \in Blocks
  PROVE  NewIn(b)' \subseteq NewIn(b)
<1> SUFFICES ASSUME NEW e \in EdgesInto(graph, b) PROVE OnEdge(e)' \subseteq OnEdge(e)
  BY DEF NewIn
<1> DEFINE c == e[1]
<1>1. c \in Blocks
  BY DEF EdgesInto, Blocks
<1> HIDE DEF c
<1>2. Len(graph[c].stmts) \in Nat
  BY <1>1 DEF Shaped, Blocks
<1>3. Side(ComputeOut(graph, pass, c, in'[c]), e[2]) \subseteq Side(ComputeOut(graph, pass, c, in[c]), e[2])
  BY <1>1, <1>2, BlockGrows
<1>4. /\ OnEdge(e) = Side(ComputeOut(graph, pass, c, in[c]), e[2])
      /\ OnEdge(e)' = Side(ComputeOut(graph, pass, c, in'[c]), e[2])
  BY <1>1 DEF OnEdge, Side, c
<1> QED BY <1>3, <1>4

LEMMA VisitDescends ==
  ASSUME SweepInv, NothingLost, Descending, VisitBlock
  PROVE  /\ Descending'
         /\ \A b \in Blocks : in'[b] \subseteq in[b]
         /\ changed' /\ ~changed => \E b \in Blocks : in'[b] # in[b]
<1>0. /\ graph' = graph /\ pass' = pass /\ universe' = universe
      /\ pass # "done" /\ at \in Blocks
  BY DEF VisitBlock
<1>1. CASE at = Entry \/ EdgesInto(graph, at) = {} \/ NewIn(at) = in[at]
  <2>1. UNCHANGED <<changed, in, out>>
    BY <1>1 DEF VisitBlock
  <2> QED BY <1>0, <2>1 DEF Descending, NewIn, OnEdge, Blocks
<1>2. CASE ~(at = Entry \/ EdgesInto(graph, at) = {} \/ NewIn(at) = in[at])
  <2>1. in' = [in EXCEPT ![at] = NewIn(at)]
    BY <1>2 DEF VisitBlock
  <2>2. DOMAIN in = Blocks /\ \A b \in Blocks : out[b] = ComputeOut(graph, pass, b, in[b])
    BY <1>0 DEF SweepInv, TypeInv, Computed
  <2>3. in'[at] = NewIn(at) /\ \A b \in Blocks : b # at => in'[b] = in[b]
    BY <1>0, <2>1, <2>2
  <2>4. at \in Blocks \ Sources(graph)
    BY <1>0, <1>2 DEF Sources
  <2>5. in'[at] \subseteq in[at] /\ in'[at] # in[at]
    BY <1>0, <1>2, <2>3, <2>4 DEF Descending
  <2>6. \A b \in Blocks : in'[b] \subseteq in[b]
    BY <2>3, <2>5
  <2>7. \A b \in Blocks : out'[b] = ComputeOut(graph, pass, b, in'[b])
    <3>1. SweepInv'
      BY VisitKeeps
    <3> QED BY <1>0, <3>1 DEF SweepInv, Computed, Blocks
  <2>8. Shaped(graph)
    BY GraphIsShaped DEF NothingLost, Explored
  <2>9. \A b \in Blocks : NewIn(b)' \subseteq NewIn(b)
    BY <1>0, <2>2, <2>6, <2>7, <2>8, MeetsShrink
  <2>10. ASSUME NEW b \in Blocks \ Sources(graph) PROVE NewIn(b)' \subseteq in'[b]
    <3>1. CASE b = at
      BY <2>3, <2>9, <3>1
    <3>2. CASE b # at
      BY <1>0, <2>3, <2>9, <3>2 DEF Descending
    <3> QED BY <3>1, <3>2
  <2>11. Descending'
    BY <1>0, <2>10 DEF Descending, Blocks
  <2> QED BY <1>0, <2>5, <2>6, <2>11
<1> QED BY <1>1, <1>2

\* A pass begins with every block at its most.
LEMMA BeginDescends ==
  ASSUME pass' # "done", in' = StartIn(graph', universe')
  PROVE  Descending'
<1>1. ASSUME NEW b \in (Blocks \ Sources(graph))' PROVE in'[b] = universe'
  BY <1>1 DEF StartIn, Sources, Blocks
<1>2. \A b : NewIn(b)' \subseteq universe'
  BY DEF NewIn
<1> QED BY <1>1, <1>2 DEF Descending

\* Whatever the graph: within a pass the facts of a block only shrink, and a
\* sweep that asks for another has made some block's facts fewer.  There are
\* finitely many, so a pass that goes on comes to its fixpoint.
THEOREM SweepsAlwaysDescend ==
  ASSUME NEW CONSTANT g, NEW CONSTANT stopped, IsFlowGraph(g)
  PROVE  PassSpec(g, stopped) => SweepsDescend
<1> DEFINE Descent == pass' = pass =>
                        /\ \A b \in Blocks : in'[b] \subseteq in[b]
                        /\ changed' /\ ~changed => \E b \in Blocks : in'[b] # in[b]
<1>1. PassInit(g, stopped) => Descending
  <2> SUFFICES ASSUME PassInit(g, stopped), NEW b \in Blocks \ Sources(graph)
               PROVE  NewIn(b) \subseteq in[b]
    BY DEF Descending
  <2>1. in[b] = universe
    BY DEF PassInit, StartIn, Sources, Blocks
  <2> QED BY <2>1 DEF NewIn
<1>2. SweepInv /\ NothingLost /\ Descending /\ [PassStep]_passVars => Descending' /\ (Descent \/ UNCHANGED passVars)
  <2> SUFFICES ASSUME SweepInv, NothingLost, Descending, [PassStep]_passVars
               PROVE  Descending' /\ (Descent \/ UNCHANGED passVars)
    OBVIOUS
  <2>1. CASE VisitBlock
    BY <2>1, VisitDescends
  <2>2. CASE SweepAgain
    <3>1. UNCHANGED <<graph, pass, universe, in, out>> /\ changed' = FALSE
      BY <2>2 DEF SweepAgain
    <3> QED BY <3>1 DEF Descending, NewIn, OnEdge, Blocks
  <2>3. CASE UNCHANGED passVars
    BY <2>3 DEF passVars, Descending, NewIn, OnEdge, Blocks
  <2>4. CASE Report
    <3>1. pass # "done"
      BY <2>4 DEF Report, AtFixpoint
    <3>2. CASE pass = "assign" /\ Begin("null")
      <4>1. pass' = "null" /\ in' = StartIn(graph, universe') /\ graph' = graph
        BY <2>4, <3>2 DEF Report, Begin
      <4> QED BY <3>2, <4>1, BeginDescends
    <3>3. CASE pass' = "done" /\ UNCHANGED <<universe, at, changed, in, out>>
      BY <3>1, <3>3 DEF Descending
    <3> QED BY <2>4, <3>2, <3>3 DEF Report
  <2> QED BY <2>1, <2>2, <2>3, <2>4 DEF PassStep
<1>3. PassSpec(g, stopped) => [](SweepInv /\ NothingLost)
  BY NothingIsLost
<1> QED BY <1>1, <1>2, <1>3, PTL DEF PassSpec, SweepsDescend

==================================================================================
