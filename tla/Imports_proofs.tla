--------------------------- MODULE Imports_proofs ---------------------------
(***************************************************************************)
(* Proofs about Imports.  One part of the invariant is the lock's: whose   *)
(* the compile is, and how many lie interrupted under it.  The other       *)
(* matches each compile, running or interrupted, with the files it is in   *)
(* the middle of: they are its import stack, none of them counts as        *)
(* parsed, and what their calls have gathered so far counts as parsed,     *)
(* once.  While there is nothing to report, what counts as parsed has been *)
(* gathered, was asked for and has its own imports parsed, and every       *)
(* statement passed names a file that counts as parsed.                    *)
(***************************************************************************)
EXTENDS Imports, TLAPS

(***************************************************************************)
(* Sequences                                                               *)
(***************************************************************************)
LEMMA FrontFacts ==
  ASSUME NEW S, NEW s \in Seq(S), s # <<>>
  PROVE  /\ Len(s) \in Nat \ {0}
         /\ Front(s) \in Seq(S)
         /\ Len(Front(s)) = Len(s) - 1
         /\ \A i \in 1 .. Len(s) - 1 : Front(s)[i] = s[i]
         /\ Last(s) \in S
<1>1. Len(s) \in Nat /\ DOMAIN s = 1 .. Len(s) /\ Len(s) # 0
  OBVIOUS
<1>2. Len(s) - 1 \in Nat /\ Len(s) - 1 <= Len(s)
  BY <1>1
<1>3. /\ SubSeq(s, 1, Len(s) - 1) \in Seq(S)
      /\ Len(SubSeq(s, 1, Len(s) - 1)) = Len(s) - 1
      /\ \A i \in 1 .. Len(s) - 1 : SubSeq(s, 1, Len(s) - 1)[i] = s[i]
  BY <1>1, <1>2
<1>. QED
  BY <1>1, <1>2, <1>3 DEF Front, Last

LEMMA AppendFacts ==
  ASSUME NEW S, NEW s \in Seq(S), NEW x \in S
  PROVE  /\ Append(s, x) \in Seq(S)
         /\ Append(s, x) # <<>>
         /\ Len(Append(s, x)) = Len(s) + 1
         /\ \A i \in 1 .. Len(s) : Append(s, x)[i] = s[i]
         /\ Append(s, x)[Len(s) + 1] = x
         /\ Last(Append(s, x)) = x
BY DEF Last

LEMMA LastReplaced ==
  ASSUME NEW S, NEW s \in Seq(S), s # <<>>, NEW x \in S
  PROVE  LET r == Append(Front(s), x)
         IN  /\ r \in Seq(S) /\ r # <<>>
             /\ Len(r) = Len(s)
             /\ \A i \in 1 .. Len(s) - 1 : r[i] = s[i]
             /\ r[Len(s)] = x /\ Last(r) = x
<1>1. Front(s) \in Seq(S) /\ Len(Front(s)) = Len(s) - 1 /\ Len(s) \in Nat \ {0}
      /\ \A i \in 1 .. Len(s) - 1 : Front(s)[i] = s[i]
  BY FrontFacts
<1>. QED
  BY <1>1, AppendFacts

(***************************************************************************)
(* The lock                                                                *)
(***************************************************************************)
\* All that run are analyses, or nobody else is there.
ModeInv ==
    \/ \A t \in Thread : \A i \in DOMAIN tasks[t] : tasks[t][i].kind = "analysis"
    \/ \A t \in Thread \ {MainThread} : tasks[t] = <<>> /\ t \notin waiting

\* A compile lies under analyses only.
KindInv ==
    \A t \in Thread : \A i \in DOMAIN tasks[t] : tasks[t][i].kind = "turfc" => i = 1

LockInv == \A t \in Thread : owner = t <=> Analyses(t) # {}

\* What an owner's analyses have put aside.
Interrupted(t) ==
    IF tasks[t][1].kind = "turfc" THEN Len(tasks[t]) - 1 ELSE Len(tasks[t])

SavedInv ==
    /\ owner = None => saved = <<>>
    /\ owner # None => Len(saved) = Interrupted(owner)

OwnerInv == ModeInv /\ KindInv /\ LockInv /\ SavedInv

(***************************************************************************)
(* A compile and the files it is in the middle of                          *)
(***************************************************************************)
\* The import stack is the files of the calls, but for the entry file's.
StackIsCalls(c, k) ==
    /\ Len(c.stack) = Len(k.calls) - 1
    /\ \A i \in DOMAIN c.stack : k.calls[i + 1].file = c.stack[i]

StackApart(c) ==
    /\ \A i, j \in DOMAIN c.stack : c.stack[i] = c.stack[j] => i = j
    /\ \A i \in DOMAIN c.stack : c.stack[i] \notin c.imported

Once(bodies) == \A i, j \in DOMAIN bodies : bodies[i] = bodies[j] => i = j

BodiesOnce(c, k) ==
    /\ \A n \in DOMAIN k.calls :
         Once(k.calls[n].bodies) /\ Range(k.calls[n].bodies) \subseteq c.imported
    /\ \A m, n \in DOMAIN k.calls : m # n =>
         Range(k.calls[m].bodies) \cap Range(k.calls[n].bodies) = {}

Paired(c, k) == StackIsCalls(c, k) /\ StackApart(c) /\ BodiesOnce(c, k)

(***************************************************************************)
(* A compile that has nothing to report yet                                *)
(***************************************************************************)
\* The statements before the next one name files parsed already.
Behind(statements, next, files) ==
    \A i \in DOMAIN statements : i < next => statements[i] \in files

\* What is parsed was gathered by one of the calls, and was asked for.
Gathered(c, k) ==
    \A f \in c.imported : \E n \in DOMAIN k.calls : f \in Range(k.calls[n].bodies)

Sought(c, k) == Range(c.stack) \cup c.imported \subseteq Reached(k.text)

\* What is parsed has all its imports parsed, but for the entry file while its
\* own statements are gone through.
Complete(c, k) ==
    \A f \in c.imported : (f = Main /\ k.at = "entry") \/ Range(k.text[f]) \subseteq c.imported

\* Of any modules parsed one came first: it imports none of the others.
Ordered(c, k) ==
    \A S \in SUBSET (c.imported \ {Main}) :
        S # {} => \E f \in S : Range(k.text[f]) \cap S = {}

Progress(c, k) ==
    /\ \A n \in DOMAIN k.calls :
         n # 1 => Behind(k.text[k.calls[n].file], k.calls[n].next, c.imported)
    /\ k.at = "prelude" => Behind(k.text[Prelude], k.calls[1].next, c.imported \cup {Main})
    /\ k.at # "prelude" => {Main} \cup Range(k.text[Prelude]) \subseteq c.imported
    /\ k.at = "entry" => Behind(k.text[Main], k.calls[1].next, c.imported)
    /\ k.at = "over" => Len(k.calls) = 1

StatementsAt(k, n) ==
    k.text[IF n = 1 /\ k.at = "prelude" THEN Prelude ELSE k.calls[n].file]

\* Each file's importer is at the statement that names it.
Awaited(k) ==
    \A n \in DOMAIN k.calls \ {1} :
      /\ k.calls[n - 1].next \in DOMAIN StatementsAt(k, n - 1)
      /\ StatementsAt(k, n - 1)[k.calls[n - 1].next] = k.calls[n].file

Clean(c, k) ==
    /\ c.errorLines = {} /\ ~k.failing
    /\ k.text \in Compiled \cup Analysed /\ k.calls[1].file = Main

Settled(c, k) ==
    c.errors = <<>> =>
        Clean(c, k) /\ Gathered(c, k) /\ Sought(c, k) /\ Complete(c, k)
        /\ Ordered(c, k) /\ Progress(c, k) /\ Awaited(k)

Matched(c, k) == Paired(c, k) /\ Settled(c, k)

\* The compile that task n of a thread left interrupted.
Under(t, n) == Len(saved) - Len(tasks[t]) + 1 + n

PairInv ==
    \A t \in Thread : tasks[t] # <<>> =>
      /\ Matched(compile, Top(t))
      /\ \A n \in 1 .. Len(tasks[t]) - 1 :
           /\ Under(t, n) \in DOMAIN saved
           /\ Matched(saved[Under(t, n)], tasks[t][n])

IInv == TypeOK /\ OwnerInv /\ PairInv

\* Neither analyses of two threads, nor one beside another thread's compile.
LEMMA LockExcludes ==
  ASSUME TypeOK, OwnerInv PROVE OneAtATime
<1> SUFFICES ASSUME NEW t \in Thread, NEW u \in Thread,
                    tasks[t] # <<>>, tasks[u] # <<>>
             PROVE  t = u
  BY DEF OneAtATime
<1>1. tasks[t] \in Seq(TaskState) /\ tasks[u] \in Seq(TaskState)
  BY DEF TypeOK
<1>2. 1 \in DOMAIN tasks[t] /\ 1 \in DOMAIN tasks[u]
  BY <1>1
<1>3. CASE \A v \in Thread : \A i \in DOMAIN tasks[v] : tasks[v][i].kind = "analysis"
  <2>1. 1 \in Analyses(t) /\ 1 \in Analyses(u)
    BY <1>2, <1>3 DEF Analyses
  <2>. QED
    BY <2>1 DEF OwnerInv, LockInv
<1>4. CASE \A v \in Thread \ {MainThread} : tasks[v] = <<>> /\ v \notin waiting
  BY <1>4
<1>. QED
  BY <1>3, <1>4 DEF OwnerInv, ModeInv

(***************************************************************************)
(* What an import leads to                                                 *)
(***************************************************************************)
ClosedIn(text, kept, S) == \A g \in S : Range(text[g]) \cap kept \subseteq S

LEMMA DownstreamIs ==
  ASSUME NEW text, NEW kept, NEW roots, NEW f
  PROVE  f \in Downstream(text, kept, roots) <=>
           /\ f \in kept
           /\ \A S \in SUBSET kept :
                roots \cap kept \subseteq S /\ ClosedIn(text, kept, S) => f \in S
BY DEF Downstream, ClosedIn

LEMMA DownstreamClosed ==
  ASSUME NEW text, NEW kept, NEW roots
  PROVE  LET down == Downstream(text, kept, roots)
         IN  down \in SUBSET kept /\ roots \cap kept \subseteq down
             /\ ClosedIn(text, kept, down)
<1> DEFINE down == Downstream(text, kept, roots)
<1>1. down \in SUBSET kept /\ roots \cap kept \subseteq down
  BY DownstreamIs
<1>2. ASSUME NEW g \in down, NEW f \in Range(text[g]) \cap kept PROVE f \in down
  <2>1. ASSUME NEW S \in SUBSET kept, roots \cap kept \subseteq S, ClosedIn(text, kept, S)
        PROVE  f \in S
    <3>1. g \in S
      BY <2>1, DownstreamIs
    <3>. QED
      BY <1>2, <2>1, <3>1 DEF ClosedIn
  <2>. QED
    BY <2>1, DownstreamIs
<1>. HIDE DEF down
<1>3. ClosedIn(text, kept, down)
  BY <1>2 DEF ClosedIn
<1>. QED
  BY <1>1, <1>3 DEF down

LEMMA ReachedClosed ==
  ASSUME NEW text
  PROVE  /\ Reached(text) \subseteq File /\ Main \in Reached(text)
         /\ Range(text[Prelude]) \cap File \subseteq Reached(text)
         /\ \A f \in Reached(text) : Range(text[f]) \cap File \subseteq Reached(text)
<1> DEFINE roots == {Main} \cup Range(text[Prelude])
<1>1. Main \in File
  BY ProgramAssumption
<1>2. Reached(text) = Downstream(text, File, roots)
  BY DEF Reached
<1>3. /\ Reached(text) \in SUBSET File /\ roots \cap File \subseteq Reached(text)
      /\ ClosedIn(text, File, Reached(text))
  <2>. HIDE DEF roots
  <2>. QED
    BY <1>2, DownstreamClosed
<1>. QED
  BY <1>1, <1>3 DEF ClosedIn

LEMMA ReachedLeast ==
  ASSUME NEW text, NEW S \in SUBSET File, Main \in S, Range(text[Prelude]) \subseteq S,
         \A f \in S : Range(text[f]) \subseteq S
  PROVE  Reached(text) \subseteq S
<1> DEFINE roots == {Main} \cup Range(text[Prelude])
<1>1. ClosedIn(text, File, S) /\ roots \cap File \subseteq S
  BY DEF ClosedIn
<1>2. Reached(text) = Downstream(text, File, roots)
  BY DEF Reached
<1>. HIDE DEF roots
<1>. QED
  BY <1>1, <1>2, DownstreamIs

\* A way that leaves g for f goes over one of g's imports.
LEMMA FirstStep ==
  ASSUME NEW text, NEW kept, NEW g \in kept, NEW f,
         f \in Downstream(text, kept, Range(text[g]))
  PROVE  \E h \in Range(text[g]) \cap kept :
           f = h \/ f \in Downstream(text, kept, Range(text[h]))
<1> DEFINE D(h) == Downstream(text, kept, Range(text[h]))
           T == {z \in kept : \E h \in Range(text[g]) \cap kept : z = h \/ z \in D(h)}
<1>1. Range(text[g]) \cap kept \subseteq T
  OBVIOUS
<1>2. ASSUME NEW z \in T, NEW y \in Range(text[z]) \cap kept PROVE y \in T
  <2>1. PICK h \in Range(text[g]) \cap kept : z = h \/ z \in D(h)
    OBVIOUS
  <2>2. y \in D(h)
    <3>1. Range(text[h]) \cap kept \subseteq D(h) /\ ClosedIn(text, kept, D(h))
      BY DownstreamClosed
    <3>. HIDE DEF D
    <3>. QED
      BY <1>2, <2>1, <3>1 DEF ClosedIn
  <2>. HIDE DEF D
  <2>. QED
    BY <2>2
<1>3. T \in SUBSET kept
  OBVIOUS
<1>. HIDE DEF T
<1>4. ClosedIn(text, kept, T)
  BY <1>2 DEF ClosedIn
<1>5. f \in T
  BY <1>1, <1>3, <1>4, DownstreamIs
<1>. QED
  BY <1>5 DEF T

\* Where any modules have one that imports none of them, none imports itself.
LEMMA NoCircle ==
  ASSUME NEW text,
         \A S \in SUBSET (Reached(text) \ {Main}) :
            S # {} => \E f \in S : Range(text[f]) \cap S = {}
  PROVE  InNoCircle(text)
<1> DEFINE kept == Reached(text) \ {Main}
           D(h) == Downstream(text, kept, Range(text[h]))
<1> SUFFICES ASSUME NEW f \in kept, f \in D(f) PROVE FALSE
  BY DEF InNoCircle
<1> DEFINE S == {z \in kept : z = f \/ f \in D(z)}
<1>0. \A S0 \in SUBSET kept : S0 # {} => \E x \in S0 : Range(text[x]) \cap S0 = {}
  OBVIOUS
<1>. HIDE DEF kept
<1>1. PICK z \in S : Range(text[z]) \cap S = {}
  <2>1. S \in SUBSET kept /\ f \in S
    OBVIOUS
  <2>. HIDE DEF S
  <2>. QED
    BY <1>0, <2>1
<1>2. z \in kept /\ f \in Downstream(text, kept, Range(text[z]))
  BY <1>1
<1>3. PICK h \in Range(text[z]) \cap kept :
        f = h \/ f \in Downstream(text, kept, Range(text[h]))
  <2>. HIDE DEF S
  <2>. QED
    BY <1>2, FirstStep
<1>4. h \in S
  BY <1>3
<1>. QED
  BY <1>1, <1>3, <1>4

(***************************************************************************)
(* Steps that change the task on top                                       *)
(***************************************************************************)
LEMMA TopFacts ==
  ASSUME TypeOK, NEW t \in Thread, tasks[t] # <<>>
  PROVE  /\ tasks[t] \in Seq(TaskState)
         /\ Top(t) \in TaskState
         /\ Top(t).calls \in Seq(CallState) /\ Top(t).calls # <<>>
         /\ Call(t) \in CallState
<1>1. tasks[t] \in Seq(TaskState)
  BY DEF TypeOK
<1>2. Top(t) \in TaskState
  BY <1>1, FrontFacts DEF Top
<1>3. Top(t).calls \in Seq(CallState) /\ Top(t).calls # <<>>
  BY <1>2 DEF TaskState
<1>. QED
  BY <1>1, <1>2, <1>3, FrontFacts DEF Call

LEMMA TopStep ==
  ASSUME IInv, NEW t \in Thread, tasks[t] # <<>>,
         NEW k \in TaskState, k.kind = Top(t).kind,
         tasks' = WithTop(t, k), compile' \in CompileState, Matched(compile', k),
         saved' = saved, owner' = owner, dead' = dead,
         waiting' \in {waiting, waiting \cup {t}}
  PROVE  IInv'
<1>. USE DEF IInv
<1>1. tasks \in [Thread -> Seq(TaskState)] /\ tasks[t] \in Seq(TaskState)
  BY DEF TypeOK
<1>2. /\ tasks'[t] = Append(Front(tasks[t]), k)
      /\ \A u \in Thread \ {t} : tasks'[u] = tasks[u]
  BY <1>1 DEF WithTop
<1>3. /\ tasks'[t] \in Seq(TaskState) /\ tasks'[t] # <<>>
      /\ Len(tasks'[t]) = Len(tasks[t]) /\ Last(tasks'[t]) = k
      /\ tasks'[t][Len(tasks[t])] = k
      /\ \A i \in 1 .. Len(tasks[t]) - 1 : tasks'[t][i] = tasks[t][i]
  BY <1>1, <1>2, LastReplaced
<1>4. tasks' \in [Thread -> Seq(TaskState)]
  BY <1>1, <1>3 DEF WithTop
<1>5. TypeOK'
  BY <1>4 DEF TypeOK
<1>6. DOMAIN tasks'[t] = DOMAIN tasks[t] /\ DOMAIN tasks[t] = 1 .. Len(tasks[t])
      /\ Len(tasks[t]) \in Nat \ {0}
  BY <1>1, <1>3
<1>7. \A i \in DOMAIN tasks[t] : tasks'[t][i].kind = tasks[t][i].kind
  BY <1>3, <1>6 DEF Top, Last
<1>8. \A u \in Thread : /\ DOMAIN tasks'[u] = DOMAIN tasks[u]
                        /\ \A i \in DOMAIN tasks[u] : tasks'[u][i].kind = tasks[u][i].kind
                        /\ Len(tasks'[u]) = Len(tasks[u])
  BY <1>2, <1>3, <1>6, <1>7
<1>9. ModeInv'
  <2>1. CASE \A u \in Thread : \A i \in DOMAIN tasks[u] : tasks[u][i].kind = "analysis"
    BY <2>1, <1>8 DEF ModeInv
  <2>2. CASE \A u \in Thread \ {MainThread} : tasks[u] = <<>> /\ u \notin waiting
    <3>1. t = MainThread
      BY <2>2
    <3>2. \A u \in Thread \ {MainThread} : tasks'[u] = <<>> /\ u \notin waiting'
      BY <2>2, <3>1, <1>2
    <3>. QED
      BY <3>2 DEF ModeInv, MainThread
  <2>. QED
    BY <2>1, <2>2 DEF OwnerInv, ModeInv
<1>10. KindInv'
  BY <1>8 DEF OwnerInv, KindInv
<1>11. \A u \in Thread : Analyses(u)' = Analyses(u)
  BY <1>8 DEF Analyses
<1>12. LockInv'
  BY <1>11 DEF OwnerInv, LockInv
<1>13. SavedInv'
  <2>1. ASSUME owner # None PROVE Interrupted(owner)' = Interrupted(owner)
    <3>1. owner \in Thread
      BY <2>1 DEF TypeOK
    <3>2. Analyses(owner) # {}
      BY <3>1 DEF OwnerInv, LockInv
    <3>3. 1 \in DOMAIN tasks[owner]
      <4>1. tasks[owner] \in Seq(TaskState)
        BY <3>1, <1>1
      <4>. QED
        BY <4>1, <3>2 DEF Analyses
    <3>. QED
      BY <3>1, <3>3, <1>8 DEF Interrupted
  <2>. QED
    BY <2>1 DEF OwnerInv, SavedInv
<1>14. PairInv'
  <2>1. \A u \in Thread \ {t} : tasks[u] = <<>>
    BY LockExcludes DEF OneAtATime
  <2>2. Matched(compile', Top(t)')
    BY <1>3 DEF Top
  <2>3. \A n \in 1 .. Len(tasks[t]) - 1 : Under(t, n)' = Under(t, n)
    BY <1>3 DEF Under
  <2>4. tasks'[t] # <<>> /\ Len(tasks'[t]) = Len(tasks[t])
    BY <1>3
  <2>5. ASSUME NEW n \in 1 .. Len(tasks[t]) - 1
        PROVE  /\ Under(t, n)' \in DOMAIN saved'
               /\ Matched(saved'[Under(t, n)'], tasks'[t][n])
    BY <1>3, <2>3, <2>5 DEF PairInv
  <2>6. \A u \in Thread : tasks'[u] # <<>> => u = t
    BY <1>2, <2>1
  <2>. QED
    BY <2>2, <2>4, <2>5, <2>6 DEF PairInv
<1>. QED
  BY <1>5, <1>9, <1>10, <1>12, <1>13, <1>14 DEF OwnerInv

\* A step that leaves the calls' files and declarations alone.
LEMMA SameShape ==
  ASSUME NEW c, NEW d, NEW k, NEW l,
         k.calls \in Seq(CallState), l.calls \in Seq(CallState),
         Len(l.calls) = Len(k.calls),
         \A n \in 1 .. Len(k.calls) : /\ l.calls[n].file = k.calls[n].file
                                     /\ l.calls[n].bodies = k.calls[n].bodies,
         c.stack \in Seq(File), d.stack = c.stack, d.imported = c.imported,
         Paired(c, k)
  PROVE  Paired(d, l)
<1>1. DOMAIN l.calls = 1 .. Len(k.calls) /\ DOMAIN k.calls = 1 .. Len(k.calls)
  OBVIOUS
<1>2. StackIsCalls(d, l)
  <2>1. Len(c.stack) = Len(k.calls) - 1 /\ DOMAIN c.stack = 1 .. Len(c.stack)
    BY DEF Paired, StackIsCalls
  <2>2. ASSUME NEW i \in DOMAIN c.stack PROVE l.calls[i + 1].file = c.stack[i]
    <3>1. i + 1 \in 1 .. Len(k.calls)
      BY <2>1
    <3>2. k.calls[i + 1].file = c.stack[i]
      BY DEF Paired, StackIsCalls
    <3>. QED
      BY <3>1, <3>2
  <2>. QED
    BY <2>1, <2>2 DEF StackIsCalls
<1>3. StackApart(d)
  BY DEF Paired, StackApart
<1>4. BodiesOnce(d, l)
  <2>1. BodiesOnce(c, k)
    BY DEF Paired
  <2>2. ASSUME NEW n \in 1 .. Len(k.calls)
        PROVE  Once(l.calls[n].bodies) /\ Range(l.calls[n].bodies) \subseteq d.imported
    BY <1>1, <2>1 DEF BodiesOnce
  <2>3. ASSUME NEW m \in 1 .. Len(k.calls), NEW n \in 1 .. Len(k.calls), m # n
        PROVE  Range(l.calls[m].bodies) \cap Range(l.calls[n].bodies) = {}
    BY <1>1, <2>1, <2>3 DEF BodiesOnce
  <2>. QED
    BY <1>1, <2>2, <2>3 DEF BodiesOnce
<1>. QED
  BY <1>2, <1>3, <1>4 DEF Paired

(***************************************************************************)
(* Entering and leaving a file                                             *)
(***************************************************************************)
LEMMA AppendOnce ==
  ASSUME NEW a \in Seq(File), NEW f \in File, Once(a), f \notin Range(a)
  PROVE  Once(Append(a, f)) /\ Range(Append(a, f)) = Range(a) \cup {f}
<1>1. DOMAIN Append(a, f) = 1 .. Len(a) + 1 /\ DOMAIN a = 1 .. Len(a) /\ Len(a) \in Nat
  OBVIOUS
<1>2. (\A i \in 1 .. Len(a) : Append(a, f)[i] = a[i]) /\ Append(a, f)[Len(a) + 1] = f
  OBVIOUS
<1>3. Range(Append(a, f)) = Range(a) \cup {f}
  <2>1. \A i \in DOMAIN Append(a, f) : Append(a, f)[i] \in Range(a) \cup {f}
    BY <1>1, <1>2 DEF Range
  <2>2. \A i \in DOMAIN a : a[i] \in Range(Append(a, f))
    BY <1>1, <1>2 DEF Range
  <2>3. f \in Range(Append(a, f))
    BY <1>1, <1>2 DEF Range
  <2>. QED
    BY <2>1, <2>2, <2>3 DEF Range
<1>4. Once(Append(a, f))
  <2> SUFFICES ASSUME NEW i \in 1 .. Len(a) + 1, NEW j \in 1 .. Len(a) + 1,
                      Append(a, f)[i] = Append(a, f)[j]
               PROVE  i = j
    BY <1>1 DEF Once
  <2>1. \A n \in 1 .. Len(a) : a[n] # f
    BY <1>1 DEF Range
  <2>. QED
    BY <1>1, <1>2, <2>1 DEF Once
<1>. QED
  BY <1>3, <1>4

LEMMA ConcatOnce ==
  ASSUME NEW a \in Seq(File), NEW b \in Seq(File), Once(a), Once(b),
         Range(a) \cap Range(b) = {}
  PROVE  Once(a \o b) /\ Range(a \o b) = Range(a) \cup Range(b)
<1>1. /\ DOMAIN (a \o b) = 1 .. Len(a) + Len(b)
      /\ DOMAIN a = 1 .. Len(a) /\ Len(a) \in Nat
      /\ DOMAIN b = 1 .. Len(b) /\ Len(b) \in Nat
  OBVIOUS
<1>2. /\ \A i \in 1 .. Len(a) : (a \o b)[i] = a[i]
      /\ \A i \in Len(a) + 1 .. Len(a) + Len(b) : (a \o b)[i] = b[i - Len(a)]
  OBVIOUS
<1>3. Range(a \o b) = Range(a) \cup Range(b)
  <2>1. \A i \in DOMAIN (a \o b) : (a \o b)[i] \in Range(a) \cup Range(b)
    <3> SUFFICES ASSUME NEW i \in 1 .. Len(a) + Len(b)
                 PROVE  (a \o b)[i] \in Range(a) \cup Range(b)
      BY <1>1
    <3>1. CASE i <= Len(a)
      BY <3>1, <1>1, <1>2 DEF Range
    <3>2. CASE i > Len(a)
      <4>1. i - Len(a) \in DOMAIN b /\ (a \o b)[i] = b[i - Len(a)]
        BY <3>2, <1>1, <1>2
      <4>. QED
        BY <4>1 DEF Range
    <3>. QED
      BY <3>1, <3>2, <1>1
  <2>2. \A i \in DOMAIN a : a[i] \in Range(a \o b)
    BY <1>1, <1>2 DEF Range
  <2>3. ASSUME NEW i \in DOMAIN b PROVE b[i] \in Range(a \o b)
    <3>1. i + Len(a) \in DOMAIN (a \o b) /\ (a \o b)[i + Len(a)] = b[i]
      BY <1>1, <1>2
    <3>. QED
      BY <3>1 DEF Range
  <2>. QED
    BY <2>1, <2>2, <2>3 DEF Range
<1>4. Once(a \o b)
  <2> SUFFICES ASSUME NEW i \in 1 .. Len(a) + Len(b), NEW j \in 1 .. Len(a) + Len(b),
                      (a \o b)[i] = (a \o b)[j]
               PROVE  i = j
    BY <1>1 DEF Once
  <2>1. \A m \in 1 .. Len(a), n \in 1 .. Len(b) : a[m] # b[n]
    BY <1>1 DEF Range
  <2>2. CASE i <= Len(a) /\ j <= Len(a)
    BY <2>2, <1>1, <1>2 DEF Once
  <2>3. CASE i > Len(a) /\ j > Len(a)
    <3>1. i - Len(a) \in DOMAIN b /\ j - Len(a) \in DOMAIN b
          /\ b[i - Len(a)] = b[j - Len(a)]
      BY <2>3, <1>1, <1>2
    <3>2. i - Len(a) = j - Len(a)
      BY <3>1 DEF Once
    <3>. QED
      BY <3>2, <1>1
  <2>4. CASE i <= Len(a) /\ j > Len(a)
    <3>1. j - Len(a) \in 1 .. Len(b) /\ a[i] = b[j - Len(a)] /\ i \in 1 .. Len(a)
      BY <2>4, <1>1, <1>2
    <3>. QED
      BY <3>1, <2>1
  <2>5. CASE i > Len(a) /\ j <= Len(a)
    <3>1. i - Len(a) \in 1 .. Len(b) /\ a[j] = b[i - Len(a)] /\ j \in 1 .. Len(a)
      BY <2>5, <1>1, <1>2
    <3>. QED
      BY <3>1, <2>1
  <2>. QED
    BY <2>2, <2>3, <2>4, <2>5, <1>1
<1>. QED
  BY <1>3, <1>4

LEMMA EnterPairs ==
  ASSUME NEW c \in CompileState, NEW k \in TaskState, Paired(c, k), NEW l,
         NEW file \in File, file \notin Range(c.stack) \cup c.imported, NEW count \in Nat,
         l.calls = Append(k.calls, CallOf(file, count))
  PROVE  Paired(Entered(c, file), l)
<1> DEFINE d == Entered(c, file)
<1>1. c.stack \in Seq(File) /\ k.calls \in Seq(CallState) /\ CallOf(file, count) \in CallState
  BY DEF CompileState, TaskState, CallOf, CallState
<1>2. d.stack = Append(c.stack, file) /\ d.imported = c.imported
  BY DEF Entered, CompileState
<1>3. Len(c.stack) = Len(k.calls) - 1 /\ Len(c.stack) \in Nat
      /\ DOMAIN c.stack = 1 .. Len(c.stack)
  BY <1>1 DEF Paired, StackIsCalls
<1>4. /\ DOMAIN d.stack = 1 .. Len(c.stack) + 1 /\ Len(d.stack) = Len(c.stack) + 1
      /\ \A i \in 1 .. Len(c.stack) : d.stack[i] = c.stack[i]
      /\ d.stack[Len(c.stack) + 1] = file
  BY <1>1, <1>2
<1>5. /\ DOMAIN l.calls = 1 .. Len(k.calls) + 1 /\ Len(l.calls) = Len(k.calls) + 1
      /\ DOMAIN k.calls = 1 .. Len(k.calls) /\ Len(k.calls) \in Nat
      /\ \A n \in 1 .. Len(k.calls) : l.calls[n] = k.calls[n]
      /\ l.calls[Len(k.calls) + 1] = CallOf(file, count)
  BY <1>1
<1>6. StackIsCalls(d, l)
  <2>1. Len(d.stack) = Len(l.calls) - 1
    BY <1>3, <1>4, <1>5
  <2>2. ASSUME NEW i \in 1 .. Len(c.stack) PROVE l.calls[i + 1].file = d.stack[i]
    <3>1. i + 1 \in 1 .. Len(k.calls)
      BY <1>3, <1>5
    <3>2. k.calls[i + 1].file = c.stack[i]
      BY <1>3 DEF Paired, StackIsCalls
    <3>. QED
      BY <3>1, <3>2, <1>4, <1>5
  <2>3. l.calls[Len(c.stack) + 1 + 1].file = file
    BY <1>3, <1>5 DEF CallOf
  <2>. QED
    BY <2>1, <2>2, <2>3, <1>3, <1>4 DEF StackIsCalls
<1>7. StackApart(d)
  <2>1. Once(c.stack) /\ file \notin Range(c.stack)
    BY DEF Paired, StackApart, Once
  <2>2. Once(d.stack)
    BY <2>1, <1>1, <1>2, AppendOnce
  <2>3. \A i \in DOMAIN d.stack : d.stack[i] \notin d.imported
    BY <1>2, <1>3, <1>4 DEF Paired, StackApart
  <2>. QED
    BY <2>2, <2>3 DEF StackApart, Once
<1>8. BodiesOnce(d, l)
  <2>1. BodiesOnce(c, k)
    BY DEF Paired
  <2>2. Once(CallOf(file, count).bodies) /\ Range(CallOf(file, count).bodies) = {}
    BY DEF CallOf, Once, Range
  <2>3. ASSUME NEW n \in DOMAIN l.calls
        PROVE  Once(l.calls[n].bodies) /\ Range(l.calls[n].bodies) \subseteq d.imported
    BY <2>1, <2>2, <1>2, <1>5 DEF BodiesOnce
  <2>4. ASSUME NEW m \in DOMAIN l.calls, NEW n \in DOMAIN l.calls, m # n
        PROVE  Range(l.calls[m].bodies) \cap Range(l.calls[n].bodies) = {}
    <3>1. CASE m \in DOMAIN k.calls /\ n \in DOMAIN k.calls
      BY <3>1, <2>1, <2>4, <1>5 DEF BodiesOnce
    <3>2. Range(l.calls[Len(k.calls) + 1].bodies) = {}
      BY <2>2, <1>5
    <3>3. CASE m = Len(k.calls) + 1
      BY <3>2, <3>3
    <3>4. CASE n = Len(k.calls) + 1
      BY <3>2, <3>4
    <3>5. \A x \in DOMAIN l.calls : x \in DOMAIN k.calls \/ x = Len(k.calls) + 1
      BY <1>5
    <3>. QED
      BY <3>1, <3>3, <3>4, <3>5
  <2>. QED
    BY <2>3, <2>4 DEF BodiesOnce
<1>. QED
  BY <1>6, <1>7, <1>8 DEF Paired

LEMMA JoinedCall ==
  ASSUME NEW importer \in CallState, NEW own \in CallState
  PROVE  /\ Joined(importer, own) \in CallState
         /\ Joined(importer, own).file = importer.file
         /\ Joined(importer, own).bodies = Append(importer.bodies \o own.bodies, own.file)
<1> DEFINE bodies == Append(importer.bodies \o own.bodies, own.file)
<1>1. bodies \in Seq(File)
  <2>1. importer.bodies \in Seq(File) /\ own.bodies \in Seq(File) /\ own.file \in File
    BY DEF CallState
  <2>2. importer.bodies \o own.bodies \in Seq(File)
    BY <2>1
  <2>. QED
    BY <2>1, <2>2
<1>2. Joined(importer, own) = [importer EXCEPT !.next = @ + 1, !.bodies = bodies]
  BY DEF Joined
<1>. HIDE DEF bodies
<1>3. Joined(importer, own) \in CallState
  <2>1. /\ importer.file \in File /\ importer.next + 1 \in Nat /\ importer.count \in Nat
        /\ importer = [file |-> importer.file, next |-> importer.next,
                       bodies |-> importer.bodies, count |-> importer.count]
    BY DEF CallState
  <2>2. Joined(importer, own) = [file |-> importer.file, next |-> importer.next + 1,
                                 bodies |-> bodies, count |-> importer.count]
    BY <1>2, <2>1
  <2>. QED
    BY <1>1, <2>1, <2>2 DEF CallState
<1>4. Joined(importer, own).file = importer.file /\ Joined(importer, own).bodies = bodies
  BY <1>2 DEF CallState
<1>. QED
  BY <1>3, <1>4 DEF bodies

LEMMA LeftCalls ==
  ASSUME NEW calls \in Seq(CallState), NEW m \in Nat \ {0}, Len(calls) = m + 1
  PROVE  /\ Left(calls) \in Seq(CallState) /\ Left(calls) # <<>>
         /\ Len(Left(calls)) = m
         /\ \A n \in 1 .. m - 1 : Left(calls)[n] = calls[n]
         /\ Left(calls)[m] = Joined(calls[m], calls[m + 1])
<1> DEFINE p == Front(calls)
           x == Joined(calls[m], calls[m + 1])
<1>1. calls # <<>> /\ m \in DOMAIN calls /\ m + 1 \in DOMAIN calls
  OBVIOUS
<1>2. /\ p \in Seq(CallState) /\ Len(p) = m /\ p # <<>>
      /\ \A i \in 1 .. m : p[i] = calls[i]
  BY <1>1, FrontFacts
<1>3. Last(p) = calls[m] /\ Last(calls) = calls[m + 1]
  BY <1>2 DEF Last
<1>4. x \in CallState
  <2>1. calls[m] \in CallState /\ calls[m + 1] \in CallState
    BY <1>1
  <2>. QED
    BY <2>1, JoinedCall
<1>5. Left(calls) = Append(Front(p), x)
  BY <1>3 DEF Left
<1>. HIDE DEF x, p
<1>6. /\ Append(Front(p), x) \in Seq(CallState) /\ Append(Front(p), x) # <<>>
      /\ Len(Append(Front(p), x)) = m
      /\ \A i \in 1 .. m - 1 : Append(Front(p), x)[i] = p[i]
      /\ Append(Front(p), x)[m] = x
  BY <1>2, <1>4, LastReplaced
<1>7. \A n \in 1 .. m - 1 : Append(Front(p), x)[n] = calls[n]
  BY <1>2, <1>6
<1>. QED
  BY <1>5, <1>6, <1>7 DEF x

\* A compile leaves a file: d's stack is c's without it, and the calls that
\* remain are of the same files.
LEMMA StackLeft ==
  ASSUME NEW c \in CompileState, NEW k \in TaskState, Paired(c, k),
         NEW m \in Nat \ {0}, Len(k.calls) = m + 1,
         NEW d, d.stack = Front(c.stack),
         d.imported \subseteq c.imported \cup {k.calls[m + 1].file},
         NEW l, l.calls \in Seq(CallState), Len(l.calls) = m,
         \A n \in 1 .. m : l.calls[n].file = k.calls[n].file
  PROVE  StackIsCalls(d, l) /\ StackApart(d) /\ k.calls[m + 1].file \notin c.imported
<1> DEFINE f == k.calls[m + 1].file
<1>1. c.stack \in Seq(File) /\ k.calls \in Seq(CallState)
  BY DEF CompileState, TaskState
<1>2. Len(c.stack) = m /\ DOMAIN c.stack = 1 .. m
  BY <1>1 DEF Paired, StackIsCalls
<1>3. \A i \in 1 .. m : k.calls[i + 1].file = c.stack[i]
  BY <1>2 DEF Paired, StackIsCalls
<1>4. c.stack # <<>>
  BY <1>1, <1>2
<1>5. /\ d.stack \in Seq(File) /\ Len(d.stack) = m - 1
      /\ \A i \in 1 .. m - 1 : d.stack[i] = c.stack[i]
  <2>1. /\ Front(c.stack) \in Seq(File) /\ Len(Front(c.stack)) = Len(c.stack) - 1
        /\ \A i \in 1 .. Len(c.stack) - 1 : Front(c.stack)[i] = c.stack[i]
    BY <1>1, <1>4, FrontFacts
  <2>. QED
    BY <1>2, <2>1
<1>6. DOMAIN d.stack = 1 .. m - 1
  BY <1>5
<1>7. \A i \in 1 .. m - 1 : i \in 1 .. m /\ i # m /\ i + 1 \in 1 .. m
  OBVIOUS
<1>8. c.stack[m] = f /\ m \in 1 .. m
  BY <1>3
<1>9. StackIsCalls(d, l)
  <2>1. ASSUME NEW i \in 1 .. m - 1 PROVE l.calls[i + 1].file = d.stack[i]
    <3>1. l.calls[i + 1].file = k.calls[i + 1].file
      BY <1>7
    <3>. QED
      BY <3>1, <1>3, <1>5, <1>7
  <2>. QED
    BY <2>1, <1>5, <1>6 DEF StackIsCalls
<1>. HIDE DEF f
<1>10. StackApart(c)
  BY DEF Paired
<1>11. f \notin c.imported
  BY <1>2, <1>8, <1>10 DEF StackApart
<1>12. StackApart(d)
  <2>1. \A i, j \in 1 .. m - 1 : d.stack[i] = d.stack[j] => i = j
    BY <1>2, <1>5, <1>7, <1>10 DEF StackApart
  <2>2. ASSUME NEW i \in 1 .. m - 1 PROVE d.stack[i] \notin d.imported
    <3>1. c.stack[i] \notin c.imported
      BY <1>2, <1>7, <1>10 DEF StackApart
    <3>2. c.stack[i] # c.stack[m]
      BY <1>2, <1>7, <1>8, <1>10 DEF StackApart
    <3>. QED
      BY <3>1, <3>2, <1>5, <1>8 DEF f
  <2>. QED
    BY <2>1, <2>2, <1>6 DEF StackApart
<1>. QED
  BY <1>9, <1>11, <1>12 DEF f

LEMMA FailPairs ==
  ASSUME NEW c \in CompileState, NEW k \in TaskState, Paired(c, k),
         NEW m \in Nat \ {0}, Len(k.calls) = m + 1,
         NEW d, d.stack = Front(c.stack), d.imported = c.imported,
         NEW l, l.calls = Front(k.calls)
  PROVE  Paired(d, l)
<1>1. k.calls \in Seq(CallState) /\ k.calls # <<>> /\ DOMAIN k.calls = 1 .. m + 1
  BY DEF TaskState
<1>2. /\ l.calls \in Seq(CallState) /\ Len(l.calls) = m
      /\ \A n \in 1 .. m : l.calls[n] = k.calls[n]
  <2>1. /\ Front(k.calls) \in Seq(CallState) /\ Len(Front(k.calls)) = Len(k.calls) - 1
        /\ \A i \in 1 .. Len(k.calls) - 1 : Front(k.calls)[i] = k.calls[i]
    BY <1>1, FrontFacts
  <2>. QED
    BY <2>1
<1>3. DOMAIN l.calls = 1 .. m /\ \A n \in 1 .. m : n \in 1 .. m + 1
  BY <1>2
<1>4. StackIsCalls(d, l) /\ StackApart(d)
  BY <1>2, StackLeft
<1>5. BodiesOnce(d, l)
  <2>1. BodiesOnce(c, k)
    BY DEF Paired
  <2>. QED
    BY <1>1, <1>2, <1>3, <2>1 DEF BodiesOnce
<1>. QED
  BY <1>4, <1>5 DEF Paired

LEMMA FinishPairs ==
  ASSUME NEW c \in CompileState, NEW k \in TaskState, Paired(c, k),
         NEW m \in Nat \ {0}, Len(k.calls) = m + 1,
         NEW d, d.stack = Front(c.stack),
         d.imported = c.imported \cup {k.calls[m + 1].file},
         NEW l, l.calls = Left(k.calls)
  PROVE  Paired(d, l)
<1> DEFINE f == k.calls[m + 1].file
           a == k.calls[m].bodies
           b == k.calls[m + 1].bodies
<1>1. /\ k.calls \in Seq(CallState) /\ DOMAIN k.calls = 1 .. m + 1
      /\ m \in DOMAIN k.calls /\ m + 1 \in DOMAIN k.calls /\ m # m + 1
      /\ k.calls[m] \in CallState /\ k.calls[m + 1] \in CallState
  BY DEF TaskState
<1>2. /\ l.calls \in Seq(CallState) /\ Len(l.calls) = m
      /\ \A n \in 1 .. m - 1 : l.calls[n] = k.calls[n]
      /\ l.calls[m] = Joined(k.calls[m], k.calls[m + 1])
  BY <1>1, LeftCalls
<1>3. DOMAIN l.calls = 1 .. m
  BY <1>2
<1>4. l.calls[m].file = k.calls[m].file /\ l.calls[m].bodies = Append(a \o b, f)
  <2> DEFINE joined == Joined(k.calls[m], k.calls[m + 1])
  <2>1. joined.file = k.calls[m].file /\ joined.bodies = Append(a \o b, f)
    BY <1>1, JoinedCall
  <2>. QED
    BY <1>2, <2>1
<1>5. \A n \in 1 .. m : n \in 1 .. m - 1 \/ n = m
  OBVIOUS
<1>6. StackIsCalls(d, l) /\ StackApart(d) /\ f \notin c.imported
  <2>1. \A n \in 1 .. m : l.calls[n].file = k.calls[n].file
    BY <1>2, <1>4, <1>5
  <2>2. d.imported \subseteq c.imported \cup {k.calls[m + 1].file}
    OBVIOUS
  <2>. HIDE DEF f
  <2>3. StackIsCalls(d, l) /\ StackApart(d) /\ k.calls[m + 1].file \notin c.imported
    <3>1. l.calls \in Seq(CallState) /\ Len(l.calls) = m
      BY <1>2
    <3>. QED
      BY <2>1, <2>2, <3>1, StackLeft
  <2>. QED
    BY <2>3 DEF f
<1>7. a \in Seq(File) /\ b \in Seq(File) /\ f \in File
  BY <1>1 DEF CallState
<1>8. a \o b \in Seq(File)
  BY <1>7
<1>9. BodiesOnce(c, k)
  BY DEF Paired
<1>10. Once(a) /\ Once(b) /\ Range(a) \subseteq c.imported /\ Range(b) \subseteq c.imported
  BY <1>1, <1>9 DEF BodiesOnce
<1>11. Range(a) \cap Range(b) = {}
  BY <1>1, <1>9 DEF BodiesOnce
<1>12. ASSUME NEW n \in 1 .. m - 1
       PROVE  /\ Once(l.calls[n].bodies)
              /\ Range(l.calls[n].bodies) \subseteq c.imported
              /\ Range(l.calls[n].bodies) \cap Range(a) = {}
              /\ Range(l.calls[n].bodies) \cap Range(b) = {}
  <2>1. n \in DOMAIN k.calls /\ n # m /\ n # m + 1 /\ l.calls[n] = k.calls[n]
    BY <1>1, <1>2
  <2>. QED
    BY <1>1, <1>9, <2>1 DEF BodiesOnce
<1>13. ASSUME NEW n \in 1 .. m - 1, NEW p \in 1 .. m - 1, n # p
       PROVE  Range(l.calls[n].bodies) \cap Range(l.calls[p].bodies) = {}
  <2>1. n \in DOMAIN k.calls /\ p \in DOMAIN k.calls
        /\ l.calls[n] = k.calls[n] /\ l.calls[p] = k.calls[p]
    BY <1>1, <1>2
  <2>. QED
    BY <1>9, <1>13, <2>1 DEF BodiesOnce
<1>. HIDE DEF a, b, f
<1>14. Once(a \o b) /\ Range(a \o b) = Range(a) \cup Range(b)
  BY <1>7, <1>10, <1>11, ConcatOnce
<1>15. f \notin Range(a \o b)
  BY <1>6, <1>10, <1>14
<1>16. /\ Once(l.calls[m].bodies)
       /\ Range(l.calls[m].bodies) = Range(a) \cup Range(b) \cup {f}
  BY <1>4, <1>7, <1>8, <1>14, <1>15, AppendOnce
<1>17. BodiesOnce(d, l)
  <2>1. \A n \in 1 .. m - 1 : Range(l.calls[n].bodies) \cap Range(l.calls[m].bodies) = {}
    BY <1>6, <1>12, <1>16
  <2>2. ASSUME NEW n \in 1 .. m
        PROVE  Once(l.calls[n].bodies) /\ Range(l.calls[n].bodies) \subseteq d.imported
    BY <1>5, <1>10, <1>12, <1>16 DEF f
  <2>3. ASSUME NEW n \in 1 .. m, NEW p \in 1 .. m, n # p
        PROVE  Range(l.calls[n].bodies) \cap Range(l.calls[p].bodies) = {}
    <3>1. CASE n \in 1 .. m - 1 /\ p \in 1 .. m - 1
      BY <1>13, <2>3, <3>1
    <3>2. CASE n = m
      BY <1>5, <2>1, <2>3, <3>2
    <3>3. CASE p = m
      BY <1>5, <2>1, <2>3, <3>3
    <3>. QED
      BY <1>5, <3>1, <3>2, <3>3
  <2>. QED
    BY <1>3, <2>2, <2>3 DEF BodiesOnce
<1>. QED
  BY <1>6, <1>17 DEF Paired

(***************************************************************************)
(* Statements gone through                                                 *)
(***************************************************************************)
LEMMA BehindFacts ==
  ASSUME NEW S, NEW s \in Seq(S), NEW files
  PROVE  /\ Behind(s, 1, files)
         /\ Behind(s, Len(s) + 1, files) => Range(s) \subseteq files
<1>1. DOMAIN s = 1 .. Len(s) /\ Len(s) \in Nat
  OBVIOUS
<1>2. Behind(s, 1, files)
  BY <1>1 DEF Behind
<1>3. Behind(s, Len(s) + 1, files) => Range(s) \subseteq files
  BY <1>1 DEF Behind, Range
<1>. QED
  BY <1>2, <1>3

LEMMA BehindNext ==
  ASSUME NEW S, NEW s \in Seq(S), NEW files, NEW n \in DOMAIN s,
         Behind(s, n, files), s[n] \in files
  PROVE  Behind(s, n + 1, files)
<1>1. \A i \in DOMAIN s : i < n + 1 => i < n \/ i = n
  OBVIOUS
<1>. QED
  BY <1>1 DEF Behind

LEMMA BehindMore ==
  ASSUME NEW s, NEW n, NEW A, NEW B, A \subseteq B, Behind(s, n, A)
  PROVE  Behind(s, n, B)
BY DEF Behind

LEMMA Texts ==
  ASSUME NEW text \in Text, NEW f \in File \cup {Prelude}
  PROVE  text[f] \in Seq(File \cup {Broken, Absent})
BY DEF Text

(***************************************************************************)
(* What a compile with nothing to report has gathered in the end           *)
(***************************************************************************)
LEMMA OverIsWhole ==
  ASSUME NEW c \in CompileState, NEW k \in TaskState, Matched(c, k),
         k.at = "over", c.errors = <<>>
  PROVE  Range(Last(k.calls).bodies) = Reached(k.text) /\ InNoCircle(k.text)
<1>1. /\ BodiesOnce(c, k) /\ Gathered(c, k) /\ Sought(c, k) /\ Complete(c, k)
      /\ Ordered(c, k) /\ Progress(c, k)
  BY DEF Matched, Paired, Settled
<1>2. Len(k.calls) = 1 /\ {Main} \cup Range(k.text[Prelude]) \subseteq c.imported
  BY <1>1 DEF Progress
<1>3. k.calls \in Seq(CallState) /\ DOMAIN k.calls = {1} /\ Last(k.calls) = k.calls[1]
  BY <1>2 DEF TaskState, Last
<1>4. Range(Last(k.calls).bodies) = c.imported
  BY <1>1, <1>3 DEF BodiesOnce, Gathered
<1>5. c.imported \in SUBSET File
  BY DEF CompileState
<1>6. \A f \in c.imported : Range(k.text[f]) \subseteq c.imported
  BY <1>1 DEF Complete
<1>7. Reached(k.text) = c.imported
  BY <1>1, <1>2, <1>5, <1>6, ReachedLeast DEF Sought
<1>8. InNoCircle(k.text)
  BY <1>1, <1>7, NoCircle DEF Ordered
<1>. QED
  BY <1>4, <1>7, <1>8

(***************************************************************************)
(* Steps of a compile with nothing to report                               *)
(***************************************************************************)
LEMMA SettledKept ==
  ASSUME NEW c, NEW d, NEW k, NEW l, Settled(c, k),
         d.errors = <<>> => /\ c.errors = <<>> /\ Clean(d, l) /\ Progress(d, l)
                            /\ Awaited(l),
         d.stack = c.stack, d.imported = c.imported,
         l.text = k.text, l.at = k.at, DOMAIN l.calls = DOMAIN k.calls,
         \A n \in DOMAIN k.calls : l.calls[n].bodies = k.calls[n].bodies
  PROVE  Settled(d, l)
BY DEF Settled, Gathered, Sought, Complete, Ordered

LEMMA SameCallsSettled ==
  ASSUME NEW c, NEW k, NEW l, Settled(c, k),
         l.text = k.text, l.at = k.at, l.calls = k.calls, l.failing = k.failing
  PROVE  Settled(c, l)
BY DEF Settled, Clean, Gathered, Sought, Complete, Ordered, Progress, Awaited, StatementsAt

StatementsOf(k) ==
    k.text[IF Len(k.calls) = 1 /\ k.at = "prelude" THEN Prelude ELSE Last(k.calls).file]

\* What a statement may name for there to be nothing to do.
Passed(c, k) ==
    IF Len(k.calls) = 1 /\ k.at = "prelude" THEN c.imported \cup {Main} ELSE c.imported

LEMMA StatementsAre ==
  ASSUME NEW k \in TaskState
  PROVE  StatementsOf(k) \in Seq(File \cup {Broken, Absent})
<1>1. k.calls \in Seq(CallState) /\ k.calls # <<>> /\ k.text \in Text
  BY DEF TaskState
<1>2. Last(k.calls) \in CallState
  BY <1>1, FrontFacts
<1>3. Last(k.calls).file \in File
  BY <1>2 DEF CallState
<1>. QED
  BY <1>1, <1>3, Texts DEF StatementsOf

\* Progress is what has been passed in each of the calls.
LEMMA ProgressOf ==
  ASSUME NEW c, NEW k \in TaskState, Clean(c, k), Progress(c, k), k.at # "over"
  PROVE  Behind(StatementsOf(k), Last(k.calls).next, Passed(c, k))
<1>1. k.calls \in Seq(CallState) /\ k.calls # <<>> /\ k.at \in {"prelude", "entry", "over"}
  BY DEF TaskState
<1>2. Last(k.calls) = k.calls[Len(k.calls)] /\ Len(k.calls) \in DOMAIN k.calls
  BY <1>1 DEF Last
<1>3. CASE Len(k.calls) # 1
  BY <1>2, <1>3 DEF Progress, StatementsOf, Passed
<1>4. CASE Len(k.calls) = 1
  BY <1>1, <1>2, <1>4 DEF Progress, StatementsOf, Passed, Clean
<1>. QED
  BY <1>3, <1>4

LEMMA ProgressFrom ==
  ASSUME NEW c, NEW d, NEW k \in TaskState, NEW l \in TaskState,
         Clean(c, k), Progress(c, k), k.at # "over",
         c.imported \subseteq d.imported,
         l.text = k.text, l.at = k.at, l.calls[1].file = Main,
         \A n \in 1 .. Len(l.calls) - 1 : n \in DOMAIN k.calls /\ l.calls[n] = k.calls[n],
         Behind(StatementsOf(l), Last(l.calls).next, Passed(d, l))
  PROVE  Progress(d, l)
<1> DEFINE m == Len(l.calls)
<1>1. /\ l.calls \in Seq(CallState) /\ l.calls # <<>>
      /\ k.at \in {"prelude", "entry", "over"}
  BY DEF TaskState
<1>2. m \in Nat \ {0} /\ DOMAIN l.calls = 1 .. m /\ Last(l.calls) = l.calls[m]
  BY <1>1 DEF Last
<1>3. \A n \in DOMAIN l.calls : n = m \/ n \in 1 .. m - 1
  BY <1>2
<1>4. ASSUME NEW n \in DOMAIN l.calls, n # 1
      PROVE  Behind(l.text[l.calls[n].file], l.calls[n].next, d.imported)
  <2>1. CASE n = m
    BY <1>2, <1>4, <2>1 DEF StatementsOf, Passed
  <2>2. CASE n \in 1 .. m - 1
    <3>1. n \in DOMAIN k.calls /\ l.calls[n] = k.calls[n]
      BY <2>2
    <3>2. Behind(k.text[k.calls[n].file], k.calls[n].next, c.imported)
      BY <1>4, <3>1 DEF Progress
    <3>. QED
      BY <3>1, <3>2, BehindMore
  <2>. QED
    BY <1>3, <2>1, <2>2
<1>5. l.at # "prelude" => {Main} \cup Range(l.text[Prelude]) \subseteq d.imported
  BY DEF Progress
<1>6. ASSUME l.at = "prelude" PROVE Behind(l.text[Prelude], l.calls[1].next, d.imported \cup {Main})
  <2>1. CASE m = 1
    BY <1>2, <1>6, <2>1 DEF StatementsOf, Passed
  <2>2. CASE m # 1
    <3>. HIDE DEF m
    <3>1. 1 \in 1 .. m - 1
      BY <1>2, <2>2
    <3>2. l.calls[1] = k.calls[1]
      BY <3>1 DEF m
    <3>3. Behind(k.text[Prelude], k.calls[1].next, c.imported \cup {Main})
      BY <1>6 DEF Progress
    <3>4. c.imported \cup {Main} \subseteq d.imported \cup {Main}
      OBVIOUS
    <3>. QED
      BY <3>2, <3>3, <3>4, BehindMore
  <2>. QED
    BY <2>1, <2>2
<1>7. ASSUME l.at = "entry" PROVE Behind(l.text[Main], l.calls[1].next, d.imported)
  <2>1. CASE m = 1
    BY <1>2, <1>7, <2>1 DEF StatementsOf, Passed
  <2>2. CASE m # 1
    <3>. HIDE DEF m
    <3>1. 1 \in 1 .. m - 1
      BY <1>2, <2>2
    <3>2. l.calls[1] = k.calls[1]
      BY <3>1 DEF m
    <3>3. Behind(k.text[Main], k.calls[1].next, c.imported)
      BY <1>7 DEF Progress
    <3>. QED
      BY <3>2, <3>3, BehindMore
  <2>. QED
    BY <2>1, <2>2
<1>. QED
  BY <1>4, <1>5, <1>6, <1>7 DEF Progress

LEMMA AwaitedFrom ==
  ASSUME NEW k \in TaskState, NEW l \in TaskState, Awaited(k),
         l.text = k.text, l.at = k.at,
         \A n \in 1 .. Len(l.calls) - 1 : n \in DOMAIN k.calls /\ l.calls[n] = k.calls[n],
         Len(l.calls) \in DOMAIN k.calls,
         l.calls[Len(l.calls)].file = k.calls[Len(l.calls)].file
  PROVE  Awaited(l)
<1> DEFINE m == Len(l.calls)
<1>1. l.calls \in Seq(CallState)
  BY DEF TaskState
<1>2. m \in Nat /\ DOMAIN l.calls = 1 .. m
  BY <1>1
<1> SUFFICES ASSUME NEW n \in DOMAIN l.calls \ {1}
             PROVE  /\ l.calls[n - 1].next \in DOMAIN StatementsAt(l, n - 1)
                    /\ StatementsAt(l, n - 1)[l.calls[n - 1].next] = l.calls[n].file
  BY DEF Awaited
<1>3. n - 1 \in 1 .. m - 1 /\ (n = m \/ n \in 1 .. m - 1)
  <2>. HIDE DEF m
  <2>. QED
    BY <1>2
<1>4. l.calls[n - 1] = k.calls[n - 1] /\ n \in DOMAIN k.calls \ {1}
      /\ l.calls[n].file = k.calls[n].file
  BY <1>3
<1>5. StatementsAt(l, n - 1) = StatementsAt(k, n - 1)
  BY <1>4 DEF StatementsAt
<1>. QED
  BY <1>4, <1>5 DEF Awaited

LEMMA SkippedCall ==
  ASSUME NEW call \in CallState
  PROVE  /\ Skipped(call) \in CallState
         /\ Skipped(call).file = call.file /\ Skipped(call).bodies = call.bodies
BY DEF Skipped, CallState

\* A statement that names what is parsed, or the entry file in the prelude.
LEMMA SkipSettled ==
  ASSUME NEW c \in CompileState, NEW k \in TaskState, NEW l \in TaskState,
         Settled(c, k), k.at # "over",
         l.text = k.text, l.at = k.at, l.failing = k.failing,
         l.calls = Append(Front(k.calls), Skipped(Last(k.calls))),
         Last(k.calls).next \in DOMAIN StatementsOf(k),
         StatementsOf(k)[Last(k.calls).next] \in Passed(c, k)
  PROVE  Settled(c, l)
<1> DEFINE m == Len(k.calls)
           call == Last(k.calls)
<1>1. k.calls \in Seq(CallState) /\ k.calls # <<>>
  BY DEF TaskState
<1>2. call \in CallState /\ call = k.calls[m] /\ m \in Nat \ {0} /\ DOMAIN k.calls = 1 .. m
  BY <1>1, FrontFacts DEF Last
<1>3. /\ Skipped(call) \in CallState
      /\ Skipped(call).file = call.file /\ Skipped(call).bodies = call.bodies
      /\ Skipped(call).next = call.next + 1
  BY <1>2, SkippedCall DEF Skipped, CallState
<1>. HIDE DEF call
<1>4. /\ l.calls \in Seq(CallState) /\ l.calls # <<>> /\ Len(l.calls) = m
      /\ \A i \in 1 .. m - 1 : l.calls[i] = k.calls[i]
      /\ l.calls[m] = Skipped(call) /\ Last(l.calls) = Skipped(call)
  <2>1. l.calls = Append(Front(k.calls), Skipped(call))
    BY DEF call
  <2>. QED
    BY <1>1, <1>3, <2>1, LastReplaced
<1>5. DOMAIN l.calls = 1 .. m /\ \A n \in 1 .. m : n \in 1 .. m - 1 \/ n = m
  BY <1>2, <1>4
<1>6. \A n \in 1 .. m : l.calls[n].file = k.calls[n].file
                         /\ l.calls[n].bodies = k.calls[n].bodies
  BY <1>2, <1>3, <1>4, <1>5
<1>7. StatementsOf(l) = StatementsOf(k) /\ Passed(c, l) = Passed(c, k)
  BY <1>3, <1>4 DEF StatementsOf, Passed, call
<1>8. ASSUME c.errors = <<>> PROVE Clean(c, l) /\ Progress(c, l) /\ Awaited(l)
  <2>1. Clean(c, k) /\ Progress(c, k) /\ Awaited(k)
    BY <1>8 DEF Settled
  <2>2. l.calls[1].file = Main
    BY <1>2, <1>6, <2>1 DEF Clean
  <2>3. Clean(c, l)
    BY <2>1, <2>2 DEF Clean
  <2>4. Behind(StatementsOf(k), call.next, Passed(c, k))
    BY <2>1, ProgressOf DEF call
  <2>5. Behind(StatementsOf(k), call.next + 1, Passed(c, k))
    BY <2>4, StatementsAre, BehindNext DEF call
  <2>6. Behind(StatementsOf(l), Last(l.calls).next, Passed(c, l))
    BY <1>3, <1>4, <1>7, <2>5
  <2>7. \A n \in 1 .. Len(l.calls) - 1 : n \in DOMAIN k.calls /\ l.calls[n] = k.calls[n]
    BY <1>2, <1>4
  <2>8. Progress(c, l)
    BY <2>1, <2>2, <2>6, <2>7, ProgressFrom
  <2>9. Awaited(l)
    <3>1. Len(l.calls) \in DOMAIN k.calls
          /\ l.calls[Len(l.calls)].file = k.calls[Len(l.calls)].file
      BY <1>2, <1>4, <1>6
    <3>. QED
      BY <2>1, <2>7, <3>1, AwaitedFrom
  <2>. QED
    BY <2>3, <2>8, <2>9
<1>. QED
  BY <1>2, <1>5, <1>6, <1>8, SettledKept

LEMMA EnterSettled ==
  ASSUME NEW c \in CompileState, NEW k \in TaskState, NEW l \in TaskState,
         Matched(c, k), k.at # "over",
         l.text = k.text, l.at = k.at, l.failing = k.failing,
         NEW file \in File, NEW count \in Nat,
         l.calls = Append(k.calls, CallOf(file, count)),
         Last(k.calls).next \in DOMAIN StatementsOf(k),
         StatementsOf(k)[Last(k.calls).next] = file
  PROVE  Settled(Entered(c, file), l)
<1> SUFFICES ASSUME Entered(c, file).errors = <<>> PROVE Settled(Entered(c, file), l)
  BY DEF Settled
<1> DEFINE d == Entered(c, file)
           m == Len(k.calls)
<1>1. k.calls \in Seq(CallState) /\ k.calls # <<>> /\ k.text \in Text
  BY DEF TaskState
<1>2. m \in Nat \ {0} /\ DOMAIN k.calls = 1 .. m /\ Last(k.calls) = k.calls[m]
  BY <1>1 DEF Last
<1>3. /\ d.stack = Append(c.stack, file) /\ d.imported = c.imported
      /\ d.errors = c.errors /\ d.errorLines = c.errorLines
  BY DEF Entered, CompileState
<1>4. CallOf(file, count) \in CallState /\ CallOf(file, count).file = file
      /\ CallOf(file, count).next = 1
  BY DEF CallOf, CallState
<1>5. /\ Len(l.calls) = m + 1 /\ DOMAIN l.calls = 1 .. m + 1
      /\ \A n \in 1 .. m : l.calls[n] = k.calls[n]
      /\ Last(l.calls) = CallOf(file, count)
  <2> DEFINE new == CallOf(file, count)
  <2>. HIDE DEF new
  <2>1. l.calls = Append(k.calls, new) /\ new \in CallState
    BY <1>4 DEF new
  <2>2. /\ Len(l.calls) = m + 1 /\ \A n \in 1 .. m : l.calls[n] = k.calls[n]
        /\ Last(l.calls) = new /\ l.calls \in Seq(CallState)
    BY <1>1, <2>1, AppendFacts
  <2>. QED
    BY <1>2, <2>2 DEF new
<1>6. /\ Clean(c, k) /\ Gathered(c, k) /\ Sought(c, k) /\ Complete(c, k)
      /\ Ordered(c, k) /\ Progress(c, k) /\ Awaited(k) /\ StackIsCalls(c, k)
  BY <1>3 DEF Matched, Paired, Settled
<1>. HIDE DEF m
<1>7. Clean(d, l) /\ l.calls[1].file = Main
  BY <1>2, <1>3, <1>5, <1>6 DEF Clean
<1>8. Gathered(d, l)
  <2>1. \A n \in DOMAIN k.calls : n \in DOMAIN l.calls /\ l.calls[n] = k.calls[n]
    BY <1>2, <1>5
  <2>. HIDE DEF d
  <2>. QED
    BY <1>3, <1>6, <2>1 DEF Gathered
<1>9. Complete(d, l) /\ Ordered(d, l)
  BY <1>3, <1>6 DEF Complete, Ordered
<1>10. Sought(d, l)
  <2>1. file \in Reached(k.text)
    <3>0. file \in Range(StatementsOf(k))
      BY DEF Range
    <3>1. CASE StatementsOf(k) = k.text[Prelude]
      BY <3>0, <3>1, ReachedClosed
    <3>2. CASE StatementsOf(k) = k.text[k.calls[m].file]
      <4>1. k.calls[m].file \in Reached(k.text)
        <5>1. CASE m = 1
          BY <1>6, <5>1, ReachedClosed DEF Clean
        <5>2. CASE m # 1
          <6>0. c.stack \in Seq(File) /\ Len(c.stack) = m - 1
            BY <1>6 DEF CompileState, StackIsCalls, m
          <6>1. m - 1 \in DOMAIN c.stack
            BY <1>2, <5>2, <6>0
          <6>2. k.calls[m - 1 + 1].file = c.stack[m - 1]
            BY <1>6, <6>1 DEF StackIsCalls
          <6>3. k.calls[m].file = c.stack[m - 1]
            BY <1>2, <6>2
          <6>4. c.stack[m - 1] \in Range(c.stack)
            BY <6>1 DEF Range
          <6>. QED
            BY <1>6, <6>3, <6>4 DEF Sought
        <5>. QED
          BY <5>1, <5>2
      <4>. QED
        BY <3>0, <3>2, <4>1, ReachedClosed
    <3>. QED
      BY <1>2, <3>1, <3>2 DEF StatementsOf
  <2>2. Range(d.stack) \subseteq Range(c.stack) \cup {file}
    <3>1. c.stack \in Seq(File)
      BY DEF CompileState
    <3>2. \A i \in DOMAIN Append(c.stack, file) :
            Append(c.stack, file)[i] \in Range(c.stack) \cup {file}
      BY <3>1 DEF Range
    <3>. QED
      BY <1>3, <3>2 DEF Range
  <2>. QED
    BY <1>3, <1>6, <2>1, <2>2 DEF Sought
<1>11. Progress(d, l)
  <2>1. StatementsOf(l) \in Seq(File \cup {Broken, Absent})
    BY StatementsAre
  <2>2. Behind(StatementsOf(l), Last(l.calls).next, Passed(d, l))
    BY <1>4, <1>5, <2>1, BehindFacts
  <2>3. \A n \in 1 .. Len(l.calls) - 1 : n \in DOMAIN k.calls /\ l.calls[n] = k.calls[n]
    BY <1>2, <1>5
  <2>. QED
    BY <1>3, <1>6, <1>7, <2>2, <2>3, ProgressFrom
<1>12. Awaited(l)
  <2> SUFFICES ASSUME NEW n \in DOMAIN l.calls \ {1}
               PROVE  /\ l.calls[n - 1].next \in DOMAIN StatementsAt(l, n - 1)
                      /\ StatementsAt(l, n - 1)[l.calls[n - 1].next] = l.calls[n].file
    BY DEF Awaited
  <2>1. n - 1 \in 1 .. m /\ (n = m + 1 \/ n \in 1 .. m)
    BY <1>2, <1>5
  <2>2. l.calls[n - 1] = k.calls[n - 1]
    BY <1>5, <2>1
  <2>3. StatementsAt(l, n - 1) = StatementsAt(k, n - 1)
    BY <2>2 DEF StatementsAt
  <2>4. CASE n = m + 1
    <3>1. n - 1 = m /\ l.calls[n].file = file
      <4>1. l.calls[m + 1] = CallOf(file, count)
        BY <1>5 DEF Last
      <4>. QED
        BY <1>2, <1>4, <2>4, <4>1
    <3>2. StatementsAt(k, m) = StatementsOf(k)
      BY <1>2 DEF StatementsAt, StatementsOf, m
    <3>. QED
      BY <1>2, <2>2, <2>3, <3>1, <3>2
  <2>5. CASE n \in 1 .. m
    <3>1. n \in DOMAIN k.calls \ {1} /\ l.calls[n] = k.calls[n]
      BY <1>2, <1>5, <2>5
    <3>. QED
      BY <1>6, <2>2, <2>3, <3>1 DEF Awaited
  <2>. QED
    BY <2>1, <2>4, <2>5
<1>. QED
  BY <1>7, <1>8, <1>9, <1>10, <1>11, <1>12 DEF Settled

LEMMA FinishSettled ==
  ASSUME NEW c \in CompileState, NEW k \in TaskState, NEW l \in TaskState,
         Matched(c, k), k.at # "over", NEW m \in Nat \ {0}, Len(k.calls) = m + 1,
         Last(k.calls).next = Len(StatementsOf(k)) + 1,
         l.text = k.text, l.at = k.at, l.failing = k.failing, l.calls = Left(k.calls),
         NEW d, d.stack = Front(c.stack), d.imported = c.imported \cup {k.calls[m + 1].file},
         d.errors = c.errors, d.errorLines = c.errorLines
  PROVE  Settled(d, l)
<1> DEFINE f == k.calls[m + 1].file
<1> SUFFICES ASSUME d.errors = <<>> PROVE Settled(d, l)
  BY DEF Settled
<1>1. /\ k.calls \in Seq(CallState) /\ DOMAIN k.calls = 1 .. m + 1 /\ k.text \in Text
      /\ k.at \in {"prelude", "entry", "over"}
  BY DEF TaskState
<1>2. /\ m \in 1 .. m + 1 /\ m + 1 \in 1 .. m + 1 /\ m + 1 # 1
      /\ m + 1 - 1 = m /\ \A n \in 1 .. m : n \in 1 .. m + 1
      /\ \A n \in 1 .. m : n \in 1 .. m - 1 \/ n = m
  OBVIOUS
<1>3. k.calls[m] \in CallState /\ k.calls[m + 1] \in CallState /\ Last(k.calls) = k.calls[m + 1]
  BY <1>1, <1>2 DEF Last
<1>4. /\ l.calls \in Seq(CallState) /\ l.calls # <<>> /\ Len(l.calls) = m
      /\ \A n \in 1 .. m - 1 : l.calls[n] = k.calls[n]
      /\ l.calls[m] = Joined(k.calls[m], k.calls[m + 1])
  <2> DEFINE r == Left(k.calls)
  <2>1. /\ r \in Seq(CallState) /\ r # <<>> /\ Len(r) = m
        /\ \A n \in 1 .. m - 1 : r[n] = k.calls[n]
        /\ r[m] = Joined(k.calls[m], k.calls[m + 1])
    BY <1>1, LeftCalls
  <2>. HIDE DEF r
  <2>2. l.calls = r
    BY DEF r
  <2>. QED
    BY <2>1, <2>2
<1>5. DOMAIN l.calls = 1 .. m /\ Last(l.calls) = l.calls[m]
  BY <1>4 DEF Last
<1>6. /\ l.calls[m].file = k.calls[m].file
      /\ l.calls[m].bodies = Append(k.calls[m].bodies \o k.calls[m + 1].bodies, f)
      /\ l.calls[m].next = k.calls[m].next + 1
  <2> DEFINE joined == Joined(k.calls[m], k.calls[m + 1])
  <2>1. /\ joined.file = k.calls[m].file
        /\ joined.bodies = Append(k.calls[m].bodies \o k.calls[m + 1].bodies, f)
    BY <1>3, JoinedCall
  <2>2. joined.next = k.calls[m].next + 1
    BY <1>3 DEF Joined, CallState
  <2>. HIDE DEF joined
  <2>. QED
    BY <1>4, <2>1, <2>2 DEF joined
<1>7. /\ Clean(c, k) /\ Gathered(c, k) /\ Sought(c, k) /\ Complete(c, k)
      /\ Ordered(c, k) /\ Progress(c, k) /\ Awaited(k)
      /\ StackIsCalls(c, k) /\ StackApart(c) /\ BodiesOnce(c, k)
  BY DEF Matched, Paired, Settled
<1>8. Clean(d, l) /\ l.calls[1].file = Main
  BY <1>2, <1>4, <1>6, <1>7 DEF Clean
<1>9. f \in File /\ f = c.stack[m] /\ m \in DOMAIN c.stack /\ c.stack \in Seq(File)
  <2>1. c.stack \in Seq(File) /\ Len(c.stack) = m
    BY <1>7 DEF CompileState, StackIsCalls
  <2>2. m \in DOMAIN c.stack
    BY <2>1
  <2>. QED
    BY <1>3, <1>7, <2>1, <2>2 DEF StackIsCalls, CallState
<1>10. f \notin c.imported /\ f \in Range(c.stack)
  BY <1>7, <1>9 DEF StackApart, Range
<1>11. Range(k.text[f]) \subseteq c.imported
  <2>1. StatementsOf(k) = k.text[f] /\ Passed(c, k) = c.imported
    BY <1>3 DEF StatementsOf, Passed
  <2>2. Behind(k.text[f], Len(k.text[f]) + 1, c.imported)
    <3>1. Behind(StatementsOf(k), Last(k.calls).next, Passed(c, k))
      BY <1>7, ProgressOf
    <3>. QED
      BY <2>1, <3>1
  <2>. QED
    BY <1>1, <1>9, <2>2, Texts, BehindFacts
<1>12. Gathered(d, l)
  <2> DEFINE a == k.calls[m].bodies
             b == k.calls[m + 1].bodies
  <2>1. a \in Seq(File) /\ b \in Seq(File) /\ Once(a) /\ Once(b)
        /\ Range(a) \cap Range(b) = {} /\ Range(a) \subseteq c.imported
        /\ Range(b) \subseteq c.imported
    <3>1. a \in Seq(File) /\ b \in Seq(File)
      BY <1>3 DEF CallState
    <3>2. Once(a) /\ Range(a) \subseteq c.imported /\ Once(b) /\ Range(b) \subseteq c.imported
      BY <1>1, <1>2, <1>7 DEF BodiesOnce
    <3>3. m # m + 1
      OBVIOUS
    <3>4. Range(a) \cap Range(b) = {}
      BY <1>1, <1>2, <1>7, <3>3 DEF BodiesOnce
    <3>. HIDE DEF a, b
    <3>. QED
      BY <3>1, <3>2, <3>4
  <2>2. Range(l.calls[m].bodies) = Range(a) \cup Range(b) \cup {f}
    <3>1. l.calls[m].bodies = Append(a \o b, f)
      BY <1>6
    <3>. HIDE DEF a, b, f
    <3>2. a \o b \in Seq(File)
      BY <2>1
    <3>3. Once(a \o b) /\ Range(a \o b) = Range(a) \cup Range(b)
      BY <2>1, ConcatOnce
    <3>4. f \notin Range(a \o b)
      BY <1>10, <2>1, <3>3
    <3>. QED
      BY <1>9, <3>1, <3>2, <3>3, <3>4, AppendOnce
  <2> SUFFICES ASSUME NEW g \in c.imported \cup {f}
               PROVE  \E n \in 1 .. m : g \in Range(l.calls[n].bodies)
    BY <1>5 DEF Gathered
  <2>3. CASE g = f
    BY <2>2, <2>3
  <2>4. CASE g \in c.imported
    <3>1. PICK n \in 1 .. m + 1 : g \in Range(k.calls[n].bodies)
      BY <1>1, <1>7, <2>4 DEF Gathered
    <3>2. n = m \/ n = m + 1 \/ n \in 1 .. m - 1
      OBVIOUS
    <3>3. CASE n \in 1 .. m - 1
      <4>1. n \in 1 .. m
        BY <3>3
      <4>. QED
        BY <1>4, <3>1, <3>3, <4>1
    <3>4. CASE n = m \/ n = m + 1
      BY <2>2, <3>1, <3>4
    <3>. QED
      BY <3>2, <3>3, <3>4
  <2>. QED
    BY <2>3, <2>4
<1>. HIDE DEF f
<1>13. d.imported = c.imported \cup {f}
  BY DEF f
<1>14. Sought(d, l)
  <2>1. Range(d.stack) \subseteq Range(c.stack)
    <3>1. c.stack # <<>>
      BY <1>9
    <3>2. /\ Front(c.stack) \in Seq(File) /\ Len(Front(c.stack)) = Len(c.stack) - 1
          /\ \A i \in 1 .. Len(c.stack) - 1 : Front(c.stack)[i] = c.stack[i]
      BY <1>9, <3>1, FrontFacts
    <3> DEFINE s == Front(c.stack)
    <3>3. DOMAIN s = 1 .. Len(c.stack) - 1
      BY <3>2
    <3>4. \A i \in 1 .. Len(c.stack) - 1 : i \in DOMAIN c.stack /\ s[i] = c.stack[i]
      BY <1>9, <3>2
    <3>. HIDE DEF s
    <3>5. Range(s) \subseteq Range(c.stack)
      BY <3>3, <3>4 DEF Range
    <3>. QED
      BY <3>5 DEF s
  <2>. QED
    BY <1>7, <1>10, <1>13, <2>1 DEF Sought
<1>15. Complete(d, l)
  BY <1>7, <1>11, <1>13 DEF Complete
<1>16. Ordered(d, l)
  <2> SUFFICES ASSUME NEW S \in SUBSET (d.imported \ {Main}), S # {}
               PROVE  \E g \in S : Range(k.text[g]) \cap S = {}
    BY DEF Ordered
  <2>1. CASE S \ {f} = {}
    <3>1. S = {f}
      BY <2>1
    <3>. QED
      BY <1>10, <1>11, <3>1
  <2>2. CASE S \ {f} # {}
    <3>1. S \ {f} \in SUBSET (c.imported \ {Main})
      BY <1>13
    <3>2. PICK g \in S \ {f} : Range(k.text[g]) \cap (S \ {f}) = {}
      BY <1>7, <2>2, <3>1 DEF Ordered
    <3>3. Range(k.text[g]) \subseteq c.imported
      BY <1>7, <3>1, <3>2 DEF Complete
    <3>. QED
      BY <1>10, <3>2, <3>3
  <2>. QED
    BY <2>1, <2>2
<1>17. \A n \in 1 .. Len(l.calls) - 1 : n \in DOMAIN k.calls /\ l.calls[n] = k.calls[n]
  <2>1. \A n \in 1 .. m - 1 : n \in 1 .. m + 1
    OBVIOUS
  <2>. QED
    BY <1>1, <1>4, <2>1
<1>18. Awaited(l)
  <2>1. Len(l.calls) \in DOMAIN k.calls
        /\ l.calls[Len(l.calls)].file = k.calls[Len(l.calls)].file
    BY <1>1, <1>4, <1>6
  <2>. QED
    BY <1>7, <1>17, <2>1, AwaitedFrom
<1>19. Progress(d, l)
  <2>1. StatementsAt(k, m) = StatementsOf(l)
    BY <1>4, <1>5, <1>6 DEF StatementsAt, StatementsOf
  <2>2. /\ k.calls[m].next \in DOMAIN StatementsAt(k, m)
        /\ StatementsAt(k, m)[k.calls[m].next] = f
    BY <1>1, <1>2, <1>7 DEF Awaited, f
  <2>3. Behind(StatementsOf(l), k.calls[m].next, Passed(c, l))
    <3>1. CASE m = 1 /\ k.at = "prelude"
      BY <1>4, <1>7, <3>1 DEF Progress, StatementsOf, Passed
    <3>2. CASE m = 1 /\ k.at = "entry"
      BY <1>4, <1>5, <1>7, <1>8, <3>2 DEF Progress, StatementsOf, Passed
    <3>3. CASE m # 1
      BY <1>1, <1>2, <1>4, <1>5, <1>6, <1>7, <3>3 DEF Progress, StatementsOf, Passed
    <3>. QED
      BY <1>1, <3>1, <3>2, <3>3
  <2>4. Passed(c, l) \subseteq Passed(d, l) /\ f \in Passed(d, l)
    BY <1>13 DEF Passed
  <2>5. Behind(StatementsOf(l), k.calls[m].next, Passed(d, l))
    BY <2>3, <2>4, BehindMore
  <2>6. Behind(StatementsOf(l), k.calls[m].next + 1, Passed(d, l))
    BY <2>1, <2>2, <2>4, <2>5, StatementsAre, BehindNext
  <2>7. Behind(StatementsOf(l), Last(l.calls).next, Passed(d, l))
    BY <1>5, <1>6, <2>6
  <2>8. c.imported \subseteq d.imported
    BY <1>13
  <2>. QED
    BY <1>7, <1>8, <1>17, <2>7, <2>8, ProgressFrom
<1>. QED
  BY <1>8, <1>12, <1>14, <1>15, <1>16, <1>18, <1>19 DEF Settled

LEMMA OverSettled ==
  ASSUME NEW c \in CompileState, NEW k \in TaskState, NEW l, Settled(c, k),
         Len(k.calls) = 1, k.at # "over", k.at = "prelude" => Main \in c.imported,
         Last(k.calls).next = Len(StatementsOf(k)) + 1,
         l.text = k.text, l.calls = k.calls, l.failing = k.failing, l.at = "over"
  PROVE  Settled(c, l)
<1> SUFFICES ASSUME c.errors = <<>> PROVE Settled(c, l)
  BY DEF Settled
<1>1. /\ Clean(c, k) /\ Gathered(c, k) /\ Sought(c, k) /\ Complete(c, k)
      /\ Ordered(c, k) /\ Progress(c, k) /\ Awaited(k)
  BY DEF Settled
<1>2. /\ k.calls \in Seq(CallState) /\ DOMAIN k.calls = {1} /\ Last(k.calls) = k.calls[1]
      /\ k.at \in {"prelude", "entry", "over"} /\ k.text \in Text
  BY DEF TaskState, Last
<1>3. Range(StatementsOf(k)) \subseteq Passed(c, k)
  <2>1. Behind(StatementsOf(k), Last(k.calls).next, Passed(c, k))
    BY <1>1, ProgressOf
  <2>. QED
    BY <2>1, StatementsAre, BehindFacts
<1>4. {Main} \cup Range(k.text[Prelude]) \subseteq c.imported
  BY <1>1, <1>2, <1>3 DEF Progress, StatementsOf, Passed
<1>5. Complete(c, l)
  <2>1. k.at = "entry" => Range(k.text[Main]) \subseteq c.imported
    BY <1>1, <1>2, <1>3 DEF Clean, StatementsOf, Passed
  <2>. QED
    BY <1>1, <1>2, <2>1 DEF Complete
<1>6. Clean(c, l) /\ Gathered(c, l) /\ Sought(c, l) /\ Ordered(c, l)
  BY <1>1 DEF Clean, Gathered, Sought, Ordered
<1>7. Progress(c, l) /\ Awaited(l)
  BY <1>2, <1>4 DEF Progress, Awaited
<1>. QED
  BY <1>5, <1>6, <1>7 DEF Settled

LEMMA ClaimSettled ==
  ASSUME NEW c \in CompileState, NEW k \in TaskState, NEW l, Settled(c, k),
         Len(k.calls) = 1, k.at = "prelude",
         Last(k.calls).next = Len(StatementsOf(k)) + 1,
         l.text = k.text, l.failing = k.failing, l.at = "entry",
         l.calls = <<EntryCall(k.calls[1])>>,
         NEW d, d.imported = c.imported \cup {Main}, d.stack = c.stack,
         d.errors = c.errors, d.errorLines = c.errorLines
  PROVE  Settled(d, l)
<1> SUFFICES ASSUME d.errors = <<>> PROVE Settled(d, l)
  BY DEF Settled
<1> DEFINE call == EntryCall(k.calls[1])
<1>1. /\ Clean(c, k) /\ Gathered(c, k) /\ Sought(c, k) /\ Complete(c, k)
      /\ Ordered(c, k) /\ Progress(c, k)
  BY DEF Settled
<1>2. /\ k.calls \in Seq(CallState) /\ DOMAIN k.calls = {1} /\ Last(k.calls) = k.calls[1]
      /\ k.calls[1] \in CallState /\ k.text \in Text
  BY DEF TaskState, Last
<1>3. /\ call.file = k.calls[1].file /\ call.next = 1
      /\ call.bodies = Append(k.calls[1].bodies, Main) /\ k.calls[1].bodies \in Seq(File)
  BY <1>2 DEF EntryCall, CallState
<1>. HIDE DEF call
<1>4. DOMAIN l.calls = {1} /\ l.calls[1] = call
  BY DEF call
<1>5. Range(StatementsOf(k)) \subseteq Passed(c, k)
  <2>1. Behind(StatementsOf(k), Last(k.calls).next, Passed(c, k))
    BY <1>1, ProgressOf
  <2>. QED
    BY <2>1, StatementsAre, BehindFacts
<1>6. {Main} \cup Range(k.text[Prelude]) \subseteq d.imported
  BY <1>5 DEF StatementsOf, Passed
<1>7. Gathered(d, l)
  <2> DEFINE a == k.calls[1].bodies
  <2>1. c.imported \subseteq Range(a)
    BY <1>1, <1>2 DEF Gathered
  <2>2. Range(a) \cup {Main} \subseteq Range(Append(a, Main))
    <3>1. a \in Seq(File) /\ Main \in File
      BY <1>3, ProgramAssumption
    <3>. HIDE DEF a
    <3>2. /\ DOMAIN a = 1 .. Len(a) /\ Len(a) \in Nat
          /\ DOMAIN Append(a, Main) = 1 .. Len(a) + 1
          /\ \A i \in 1 .. Len(a) : Append(a, Main)[i] = a[i]
          /\ Append(a, Main)[Len(a) + 1] = Main
      BY <3>1
    <3>. QED
      BY <3>2 DEF Range
  <2>3. \A f \in d.imported : f \in Range(l.calls[1].bodies)
    BY <1>3, <1>4, <2>1, <2>2
  <2>. QED
    BY <1>4, <2>3 DEF Gathered
<1>8. Clean(d, l) /\ Sought(d, l) /\ Complete(d, l) /\ Ordered(d, l)
  <2>1. Clean(d, l)
    BY <1>1, <1>3, <1>4 DEF Clean
  <2>2. Sought(d, l)
    BY <1>1, ReachedClosed DEF Sought
  <2>3. Complete(d, l)
    BY <1>1 DEF Complete
  <2>4. d.imported \ {Main} = c.imported \ {Main}
    OBVIOUS
  <2>5. Ordered(d, l)
    BY <1>1, <2>4 DEF Ordered
  <2>. QED
    BY <2>1, <2>2, <2>3, <2>5
<1>9. Progress(d, l) /\ Awaited(l)
  <2>1. Behind(l.text[Main], 1, d.imported)
    <3>1. l.text[Main] \in Seq(File \cup {Broken, Absent})
      BY <1>2, Texts, ProgramAssumption
    <3>. QED
      BY <3>1, BehindFacts
  <2>2. l.at = "entry"
    OBVIOUS
  <2>3. Progress(d, l)
    BY <1>3, <1>4, <1>6, <2>1, <2>2 DEF Progress
  <2>4. Awaited(l)
    BY <1>4 DEF Awaited
  <2>. QED
    BY <2>3, <2>4
<1>. QED
  BY <1>7, <1>8, <1>9 DEF Settled

LEMMA FreshSettled ==
  ASSUME NEW c, c.stack = <<>>, c.imported = {}, NEW k, k.calls = <<CallOf(Main, 0)>>,
         k.at = "prelude", ~k.failing,
         c.errors = <<>> => c.errorLines = {} /\ k.text \in Compiled \cup Analysed
  PROVE  Settled(c, k)
<1> SUFFICES ASSUME c.errors = <<>> PROVE Settled(c, k)
  BY DEF Settled
<1>1. DOMAIN k.calls = {1} /\ k.calls[1] = CallOf(Main, 0)
  OBVIOUS
<1>2. k.calls[1].file = Main /\ k.calls[1].next = 1
  BY <1>1 DEF CallOf
<1>3. Clean(c, k)
  BY <1>2 DEF Clean
<1>4. Gathered(c, k) /\ Complete(c, k)
  BY DEF Gathered, Complete
<1>5. Sought(c, k)
  BY DEF Sought, Range
<1>6. Ordered(c, k)
  BY DEF Ordered
<1>7. Behind(k.text[Prelude], 1, c.imported \cup {Main})
  <2>1. k.text \in Text
    BY <1>3, ProgramAssumption DEF Clean
  <2>. QED
    BY <2>1, Texts, BehindFacts
<1>8. Progress(c, k)
  BY <1>1, <1>2, <1>7 DEF Progress
<1>9. Awaited(k)
  BY <1>1 DEF Awaited
<1>. QED
  BY <1>3, <1>4, <1>5, <1>6, <1>8, <1>9 DEF Settled

(***************************************************************************)
(* The steps of a compile                                                  *)
(***************************************************************************)
LEMMA StatementsSame ==
  ASSUME NEW t \in Thread
  PROVE  /\ Statements(t) = StatementsOf(Top(t)) /\ Call(t) = Last(Top(t).calls)
         /\ Outermost(t) <=> Len(Top(t).calls) = 1
BY DEF Statements, StatementsOf, Outermost, Call

LEMMA TopSettled ==
  ASSUME IInv, NEW t \in Thread, tasks[t] # <<>>
  PROVE  /\ Matched(compile, Top(t)) /\ Settled(compile, Top(t))
         /\ Top(t).failing => compile.errors # <<>>
BY DEF IInv, PairInv, Matched, Settled, Clean

LEMMA ShapeStep ==
  ASSUME IInv, NEW t \in Thread, tasks[t] # <<>>,
         NEW k \in TaskState, k.kind = Top(t).kind,
         Len(k.calls) = Len(Top(t).calls),
         \A n \in 1 .. Len(k.calls) : /\ k.calls[n].file = Top(t).calls[n].file
                                     /\ k.calls[n].bodies = Top(t).calls[n].bodies,
         tasks' = WithTop(t, k), compile' \in CompileState,
         compile'.stack = compile.stack, compile'.imported = compile.imported,
         Settled(compile', k), saved' = saved, owner' = owner, dead' = dead,
         waiting' \in {waiting, waiting \cup {t}}
  PROVE  IInv'
<1>1. TypeOK /\ Paired(compile, Top(t))
  BY DEF IInv, PairInv, Matched
<1>2. k.calls \in Seq(CallState) /\ Top(t).calls \in Seq(CallState)
      /\ compile.stack \in Seq(File)
  BY <1>1, TopFacts DEF TaskState, TypeOK, CompileState
<1>3. Matched(compile', k)
  BY <1>1, <1>2, SameShape DEF Matched
<1>. QED
  BY <1>3, TopStep

\* A statement that has nothing to parse, or nothing that parses.
LEMMA SkipStep ==
  ASSUME IInv, NEW t \in Thread, Running(t), tasks' = WithCall(t, Skipped(Call(t))),
         UNCHANGED <<compile, saved, owner, waiting, dead>>,
         Top(t).at # "over", Call(t).next \in DOMAIN Statements(t),
         Named(t) \in Passed(compile, Top(t))
  PROVE  IInv'
<1> DEFINE calls == Top(t).calls
           r == Append(Front(calls), Skipped(Call(t)))
           k == [Top(t) EXCEPT !.calls = r]
<1>1. TypeOK /\ tasks[t] # <<>>
  BY DEF IInv, Running
<1>2. Top(t) \in TaskState /\ calls \in Seq(CallState) /\ calls # <<>>
      /\ Call(t) \in CallState
  BY <1>1, TopFacts
<1>3. /\ Skipped(Call(t)) \in CallState
      /\ Skipped(Call(t)).file = Call(t).file /\ Skipped(Call(t)).bodies = Call(t).bodies
  BY <1>2, SkippedCall
<1>4. /\ r \in Seq(CallState) /\ r # <<>> /\ Len(r) = Len(calls)
      /\ \A i \in 1 .. Len(calls) - 1 : r[i] = calls[i]
      /\ r[Len(calls)] = Skipped(Call(t))
  BY <1>2, <1>3, LastReplaced
<1>5. Call(t) = calls[Len(calls)] /\ Len(calls) \in Nat
  BY <1>2 DEF Call, Last
<1>6. \A n \in 1 .. Len(r) : r[n].file = calls[n].file /\ r[n].bodies = calls[n].bodies
  <2>1. \A n \in 1 .. Len(r) : n \in 1 .. Len(calls) - 1 \/ n = Len(calls)
    BY <1>4, <1>5
  <2>. QED
    BY <1>3, <1>4, <1>5, <2>1
<1>7. tasks' = WithTop(t, k)
  BY DEF WithCall
<1>. HIDE DEF r
<1>8. k \in TaskState /\ k.kind = Top(t).kind /\ k.calls = r
  BY <1>2, <1>4 DEF TaskState
<1>. HIDE DEF k
<1>9. compile' \in CompileState /\ compile' = compile
  BY <1>1 DEF TypeOK
<1>10. Settled(compile', k)
  <2>1. k.calls = Append(Front(Top(t).calls), Skipped(Last(Top(t).calls)))
    BY <1>8, StatementsSame DEF r
  <2>2. k.text = Top(t).text /\ k.at = Top(t).at /\ k.failing = Top(t).failing
    BY <1>2 DEF k, TaskState
  <2>3. /\ Last(Top(t).calls).next \in DOMAIN StatementsOf(Top(t))
        /\ StatementsOf(Top(t))[Last(Top(t).calls).next] \in Passed(compile, Top(t))
    BY StatementsSame DEF Named
  <2>4. Settled(compile, Top(t))
    BY <1>1, TopSettled
  <2>. QED
    BY <1>2, <1>8, <1>9, <2>1, <2>2, <2>3, <2>4, SkipSettled
<1>. QED
  BY <1>1, <1>4, <1>6, <1>7, <1>8, <1>9, <1>10, ShapeStep

LEMMA RaiseStep ==
  ASSUME IInv, NEW t \in Thread, Running(t), NEW kind \in {"syntax", "absent", "loop"},
         NEW chain \in Seq(File), Raise(t, kind, chain),
         UNCHANGED <<compile, saved, owner, waiting, dead>>
  PROVE  IInv'
<1> DEFINE error == [kind |-> kind, file |-> Call(t).file, line |-> Call(t).next,
                     chain |-> chain]
           k == [Top(t) EXCEPT !.raised = error]
<1>1. TypeOK /\ tasks[t] # <<>>
  BY DEF IInv, Running
<1>2. Top(t) \in TaskState /\ Call(t) \in CallState
  BY <1>1, TopFacts
<1>3. error \in Error
  BY <1>2 DEF Error, CallState
<1>4. tasks' = WithTop(t, k)
  BY DEF Raise
<1>. HIDE DEF error
<1>5. /\ k \in TaskState /\ k.kind = Top(t).kind /\ k.calls = Top(t).calls
      /\ k.text = Top(t).text /\ k.at = Top(t).at /\ k.failing = Top(t).failing
  BY <1>2, <1>3 DEF TaskState
<1>. HIDE DEF k
<1>6. compile' \in CompileState /\ compile' = compile
  BY <1>1 DEF TypeOK
<1>7. Settled(compile', k)
  BY <1>1, <1>5, <1>6, TopSettled, SameCallsSettled
<1>. QED
  BY <1>1, <1>4, <1>5, <1>6, <1>7, ShapeStep

LEMMA BreakOffStep ==
  ASSUME IInv, NEW t \in Thread, BreakOff(t) PROVE IInv'
<1>1. Running(t) /\ <<>> \in Seq(File) /\ UNCHANGED <<compile, saved, owner, waiting, dead>>
  BY DEF BreakOff, AtStatement, Parsing
<1>2. CASE Raise(t, "syntax", <<>>)
  BY <1>1, <1>2, RaiseStep
<1>3. CASE Raise(t, "absent", <<>>)
  BY <1>1, <1>3, RaiseStep
<1>. QED
  BY <1>2, <1>3 DEF BreakOff

LEMMA CircularStep ==
  ASSUME IInv, NEW t \in Thread, Circular(t) PROVE IInv'
<1> DEFINE stack == compile.stack
           first == CHOOSE i \in DOMAIN stack : stack[i] = Named(t)
<1>1. Running(t) /\ UNCHANGED <<compile, saved, owner, waiting, dead>>
  BY DEF Circular, Resolved, AtStatement, Parsing
<1>2. stack \in Seq(File)
  BY DEF IInv, TypeOK, CompileState
<1>3. \E i \in DOMAIN stack : stack[i] = Named(t)
  BY DEF Circular, Range
<1>4. first \in DOMAIN stack
  BY <1>3
<1>5. Chain(stack, Named(t)) = SubSeq(stack, first, Len(stack))
  BY DEF Chain
<1>. HIDE DEF first, stack
<1>6. SubSeq(stack, first, Len(stack)) \in Seq(File)
  BY <1>2, <1>4
<1>7. Raise(t, "loop", Chain(stack, Named(t)))
  BY DEF Circular, stack
<1>. QED
  BY <1>1, <1>5, <1>6, <1>7, RaiseStep

LEMMA AddStep ==
  ASSUME IInv, NEW t \in Thread, Add(t) PROVE IInv'
<1> DEFINE error == Top(t).raised
           k == [Top(t) EXCEPT !.raised = None, !.failing = TRUE]
           added == [compile EXCEPT !.errors = Append(@, error),
                                    !.errorLines = @ \cup {error.line}]
<1>1. TypeOK /\ tasks[t] # <<>> /\ compile \in CompileState
  BY DEF IInv, Add, Running, TypeOK
<1>2. Top(t) \in TaskState
  BY <1>1, TopFacts
<1>3. error \in Error
  BY <1>2 DEF Add, TaskState
<1>4. k \in TaskState /\ k.kind = Top(t).kind /\ k.calls = Top(t).calls
  BY <1>2 DEF TaskState
<1>5. added \in CompileState /\ added.stack = compile.stack
      /\ added.imported = compile.imported
  <2>1. error.line \in Nat
    BY <1>3 DEF Error
  <2>2. Append(compile.errors, error) \in Seq(Error)
        /\ compile.errorLines \cup {error.line} \in SUBSET Nat
    BY <1>1, <1>3, <2>1 DEF CompileState
  <2>. HIDE DEF error
  <2>. QED
    BY <1>1, <2>2 DEF CompileState
<1>6. /\ compile' = IF Suppressed(error) THEN compile ELSE added
      /\ tasks' = WithTop(t, k)
  BY DEF Add
<1>7. saved' = saved /\ owner' = owner /\ dead' = dead /\ waiting' = waiting
  BY DEF Add
<1>9. compile'.errors # <<>>
  <2>1. CASE Suppressed(error)
    <3>1. compile.errorLines # {} /\ compile' = compile
      BY <1>6, <2>1 DEF Suppressed
    <3>2. Settled(compile, Top(t))
      BY <1>1, TopSettled
    <3>. QED
      BY <3>1, <3>2 DEF Settled, Clean
  <2>2. CASE ~Suppressed(error)
    <3>1. compile.errors \in Seq(Error)
      BY <1>1 DEF CompileState
    <3>2. Append(compile.errors, error) # <<>>
      BY <1>3, <3>1, AppendFacts
    <3>3. added.errors = Append(compile.errors, error)
      BY <1>1 DEF CompileState
    <3>. QED
      BY <1>6, <2>2, <3>2, <3>3
  <2>. QED
    BY <2>1, <2>2
<1>10. Settled(compile', k)
  BY <1>9 DEF Settled
<1>. HIDE DEF k, added
<1>8. compile' \in CompileState /\ compile'.stack = compile.stack
      /\ compile'.imported = compile.imported
  BY <1>1, <1>5, <1>6
<1>. QED
  BY <1>1, <1>4, <1>6, <1>7, <1>8, <1>10, ShapeStep

LEMMA RecoverStep ==
  ASSUME IInv, NEW t \in Thread, Recover(t) PROVE IInv'
<1> DEFINE calls == <<Skipped(Top(t).calls[1])>>
           k == [Top(t) EXCEPT !.failing = FALSE, !.calls = calls]
<1>1. TypeOK /\ tasks[t] # <<>> /\ compile \in CompileState
  BY DEF IInv, Recover, Running, TypeOK
<1>2. Top(t) \in TaskState /\ Top(t).calls \in Seq(CallState) /\ Len(Top(t).calls) = 1
  BY <1>1, TopFacts DEF Recover, Outermost
<1>3. Top(t).calls[1] \in CallState
  BY <1>2
<1>4. /\ calls \in Seq(CallState) /\ calls # <<>> /\ Len(calls) = 1
      /\ calls[1].file = Top(t).calls[1].file /\ calls[1].bodies = Top(t).calls[1].bodies
  BY <1>3, SkippedCall
<1>5. tasks' = WithTop(t, k) /\ compile' = compile
      /\ saved' = saved /\ owner' = owner /\ dead' = dead /\ waiting' = waiting
  BY DEF Recover
<1>. HIDE DEF calls
<1>6. k \in TaskState /\ k.kind = Top(t).kind /\ k.calls = calls
  BY <1>2, <1>4 DEF TaskState
<1>. HIDE DEF k
<1>7. Len(k.calls) = 1 /\ \A n \in 1 .. 1 : /\ k.calls[n].file = Top(t).calls[n].file
                                           /\ k.calls[n].bodies = Top(t).calls[n].bodies
  BY <1>4, <1>6
<1>8. Settled(compile', k)
  BY <1>1, <1>5, TopSettled DEF Recover, Settled
<1>. QED
  BY <1>1, <1>2, <1>5, <1>6, <1>7, <1>8, ShapeStep

LEMMA OverStep ==
  ASSUME IInv, NEW t \in Thread, Running(t),
         tasks' = WithTop(t, [Top(t) EXCEPT !.at = "over"]),
         UNCHANGED <<compile, saved, owner, waiting, dead>>,
         AtEnd(t), Outermost(t), Top(t).at = "prelude" => Main \in compile.imported
  PROVE  IInv'
<1> DEFINE k == [Top(t) EXCEPT !.at = "over"]
<1>1. TypeOK /\ tasks[t] # <<>> /\ compile \in CompileState
  BY DEF IInv, Running, TypeOK
<1>2. /\ k \in TaskState /\ k.kind = Top(t).kind /\ k.calls = Top(t).calls
      /\ k.text = Top(t).text /\ k.failing = Top(t).failing /\ k.at = "over"
      /\ Top(t) \in TaskState
  BY <1>1, TopFacts DEF TaskState
<1>. HIDE DEF k
<1>3. /\ Len(Top(t).calls) = 1 /\ Top(t).at # "over"
      /\ Last(Top(t).calls).next = Len(StatementsOf(Top(t))) + 1
  BY StatementsSame DEF AtEnd, Parsing
<1>4. Settled(compile', k)
  BY <1>1, <1>2, <1>3, TopSettled, OverSettled
<1>. QED
  BY <1>1, <1>2, <1>4, ShapeStep DEF k

LEMMA AskStep ==
  ASSUME IInv, NEW t \in Thread, Ask(t) PROVE IInv'
<1> DEFINE k == [Top(t) EXCEPT !.asked = TRUE]
<1>1. TypeOK /\ tasks[t] # <<>> /\ compile \in CompileState
  BY DEF IInv, Ask, Running, TypeOK
<1>2. /\ k \in TaskState /\ k.kind = Top(t).kind /\ k.calls = Top(t).calls
      /\ k.text = Top(t).text /\ k.at = Top(t).at /\ k.failing = Top(t).failing
  BY <1>1, TopFacts DEF TaskState
<1>3. tasks' = WithTop(t, k) /\ waiting' = waiting \cup {t}
      /\ compile' = compile /\ saved' = saved /\ owner' = owner /\ dead' = dead
  BY DEF Ask
<1>. HIDE DEF k
<1>4. Settled(compile', k)
  BY <1>1, <1>2, <1>3, TopSettled, SameCallsSettled
<1>. QED
  BY <1>1, <1>2, <1>3, <1>4, ShapeStep

LEMMA EnterStep ==
  ASSUME IInv, NEW t \in Thread, Enter(t) PROVE IInv'
<1> DEFINE count == Len(compile.errors)
           calls == Append(Top(t).calls, CallOf(Named(t), count))
           k == [Top(t) EXCEPT !.calls = calls]
<1>1. TypeOK /\ tasks[t] # <<>> /\ compile \in CompileState /\ Matched(compile, Top(t))
      /\ Paired(compile, Top(t))
  BY DEF IInv, PairInv, Matched, Enter, Resolved, AtStatement, Parsing, Running, TypeOK
<1>2. Top(t) \in TaskState /\ Top(t).calls \in Seq(CallState)
  BY <1>1, TopFacts
<1>3. Named(t) \in File /\ Named(t) \notin Range(compile.stack) \cup compile.imported
  BY DEF Enter, Resolved, AtStatement, Named
<1>4. count \in Nat
  BY <1>1 DEF CompileState
<1>5. compile' = Entered(compile, Named(t)) /\ tasks' = WithTop(t, k)
      /\ saved' = saved /\ owner' = owner /\ dead' = dead /\ waiting' = waiting
  BY DEF Enter
<1>. HIDE DEF count
<1>6. calls \in Seq(CallState) /\ calls # <<>>
  <2>1. CallOf(Named(t), count) \in CallState
    BY <1>3, <1>4 DEF CallOf, CallState
  <2>. QED
    BY <1>2, <2>1
<1>7. Entered(compile, Named(t)) \in CompileState
  <2>1. Append(compile.stack, Named(t)) \in Seq(File)
    BY <1>1, <1>3 DEF CompileState
  <2>. QED
    BY <1>1, <2>1 DEF Entered, CompileState
<1>8. /\ k \in TaskState /\ k.kind = Top(t).kind /\ k.calls = calls
      /\ k.text = Top(t).text /\ k.at = Top(t).at /\ k.failing = Top(t).failing
  BY <1>2, <1>6 DEF TaskState
<1>. HIDE DEF k
<1>9. Paired(compile', k)
  BY <1>1, <1>2, <1>3, <1>4, <1>5, <1>8, EnterPairs
<1>10. Settled(compile', k)
  <2>1. /\ Last(Top(t).calls).next \in DOMAIN StatementsOf(Top(t))
        /\ StatementsOf(Top(t))[Last(Top(t).calls).next] = Named(t)
        /\ Top(t).at # "over"
    BY StatementsSame DEF Enter, Resolved, AtStatement, Parsing, Named
  <2>. QED
    BY <1>1, <1>2, <1>3, <1>4, <1>5, <1>8, <2>1, EnterSettled
<1>. QED
  BY <1>1, <1>5, <1>7, <1>8, <1>9, <1>10, TopStep DEF Matched

LEMMA FinishFileStep ==
  ASSUME IInv, NEW t \in Thread, FinishFile(t) PROVE IInv'
<1> DEFINE m == Len(Top(t).calls) - 1
           calls == Left(Top(t).calls)
           k == [Top(t) EXCEPT !.calls = calls]
<1>1. TypeOK /\ tasks[t] # <<>> /\ compile \in CompileState /\ Matched(compile, Top(t))
      /\ Paired(compile, Top(t))
  BY DEF IInv, PairInv, Matched, FinishFile, AtEnd, Parsing, Running, TypeOK
<1>2. Top(t) \in TaskState /\ Top(t).calls \in Seq(CallState) /\ Top(t).calls # <<>>
      /\ Call(t) \in CallState
  BY <1>1, TopFacts
<1>3. m \in Nat \ {0} /\ Len(Top(t).calls) = m + 1
  BY <1>2 DEF FinishFile, Outermost
<1>4. Call(t) = Top(t).calls[m + 1]
  BY <1>3 DEF Call, Last
<1>5. /\ compile' = [compile EXCEPT !.imported = @ \cup {Call(t).file}, !.stack = Front(@)]
      /\ tasks' = WithTop(t, k)
      /\ saved' = saved /\ owner' = owner /\ dead' = dead /\ waiting' = waiting
  BY DEF FinishFile
<1>. HIDE DEF m
<1>6. calls \in Seq(CallState) /\ calls # <<>>
  BY <1>2, <1>3, LeftCalls
<1>. HIDE DEF calls
<1>7. /\ k \in TaskState /\ k.kind = Top(t).kind /\ k.calls = calls
      /\ k.text = Top(t).text /\ k.at = Top(t).at /\ k.failing = Top(t).failing
  BY <1>2, <1>6 DEF TaskState
<1>. HIDE DEF k
<1>8. /\ compile' \in CompileState
      /\ compile'.stack = Front(compile.stack)
      /\ compile'.imported = compile.imported \cup {Top(t).calls[m + 1].file}
      /\ compile'.errors = compile.errors /\ compile'.errorLines = compile.errorLines
  <2>1. compile.stack \in Seq(File) /\ compile.stack # <<>> /\ Call(t).file \in File
    BY <1>1, <1>2, <1>3 DEF CompileState, CallState, Paired, StackIsCalls
  <2>2. Front(compile.stack) \in Seq(File)
    BY <2>1, FrontFacts
  <2>. QED
    BY <1>1, <1>4, <1>5, <2>1, <2>2 DEF CompileState
<1>9. Paired(compile', k)
  BY <1>1, <1>2, <1>3, <1>7, <1>8, FinishPairs DEF calls
<1>10. Settled(compile', k)
  <2>1. Last(Top(t).calls).next = Len(StatementsOf(Top(t))) + 1 /\ Top(t).at # "over"
    BY StatementsSame DEF FinishFile, AtEnd, Parsing
  <2>. QED
    BY <1>1, <1>2, <1>3, <1>7, <1>8, <2>1, FinishSettled DEF calls
<1>. QED
  BY <1>1, <1>5, <1>7, <1>8, <1>9, <1>10, TopStep DEF Matched

LEMMA FailFileStep ==
  ASSUME IInv, NEW t \in Thread, FailFile(t) PROVE IInv'
<1> DEFINE m == Len(Top(t).calls) - 1
           calls == Front(Top(t).calls)
           missing == Len(compile.errors) = Call(t).count
           absent == [kind |-> "absent", file |-> Last(calls).file,
                      line |-> Last(calls).next, chain |-> <<>>]
           raised == IF missing THEN absent ELSE None
           k == [Top(t) EXCEPT !.calls = calls, !.failing = ~missing, !.raised = raised]
<1>1. TypeOK /\ tasks[t] # <<>> /\ compile \in CompileState /\ Paired(compile, Top(t))
  BY DEF IInv, PairInv, Matched, FailFile, Running, TypeOK
<1>2. Top(t) \in TaskState /\ Top(t).calls \in Seq(CallState) /\ Top(t).calls # <<>>
  BY <1>1, TopFacts
<1>3. m \in Nat \ {0} /\ Len(Top(t).calls) = m + 1
  BY <1>2 DEF FailFile, Outermost
<1>4. /\ compile' = [compile EXCEPT !.stack = Front(@)]
      /\ tasks' = WithTop(t, k)
      /\ saved' = saved /\ owner' = owner /\ dead' = dead /\ waiting' = waiting
  BY DEF FailFile
<1>. HIDE DEF m
<1>5. calls \in Seq(CallState) /\ calls # <<>>
  <2>1. calls \in Seq(CallState) /\ Len(calls) = Len(Top(t).calls) - 1
    BY <1>2, FrontFacts
  <2>. QED
    BY <1>3, <2>1
<1>6. raised \in Error \cup {None}
  <2>1. Last(calls) \in CallState
    BY <1>5, FrontFacts
  <2>. HIDE DEF calls
  <2>2. absent \in Error
    BY <2>1 DEF Error, CallState
  <2>. QED
    BY <2>2
<1>. HIDE DEF calls, raised, missing
<1>7. k \in TaskState /\ k.kind = Top(t).kind /\ k.calls = calls
  BY <1>2, <1>5, <1>6 DEF TaskState
<1>. HIDE DEF k
<1>8. /\ compile' \in CompileState
      /\ compile'.stack = Front(compile.stack) /\ compile'.imported = compile.imported
      /\ compile'.errors = compile.errors
  <2>1. compile.stack \in Seq(File) /\ compile.stack # <<>>
    BY <1>1, <1>3 DEF CompileState, Paired, StackIsCalls
  <2>2. Front(compile.stack) \in Seq(File)
    BY <2>1, FrontFacts
  <2>. QED
    BY <1>1, <1>4, <2>2 DEF CompileState
<1>9. Paired(compile', k)
  BY <1>1, <1>2, <1>3, <1>7, <1>8, FailPairs DEF calls
<1>10. Settled(compile', k)
  BY <1>1, <1>8, TopSettled DEF FailFile, Settled
<1>. QED
  BY <1>1, <1>4, <1>7, <1>8, <1>9, <1>10, TopStep DEF Matched

\* A task with nothing parsed yet, over a compile with nothing parsed.
LEMMA FreshPairs ==
  ASSUME NEW c, c.stack = <<>>, NEW k, NEW call \in CallState, k.calls = <<call>>,
         Once(call.bodies), Range(call.bodies) \subseteq c.imported
  PROVE  Paired(c, k)
<1>1. DOMAIN k.calls = {1} /\ k.calls[1] = call /\ Len(k.calls) = 1
  OBVIOUS
<1>2. DOMAIN c.stack = {} /\ Len(c.stack) = 0
  OBVIOUS
<1>3. StackIsCalls(c, k) /\ StackApart(c)
  BY <1>1, <1>2 DEF StackIsCalls, StackApart
<1>4. BodiesOnce(c, k)
  BY <1>1 DEF BodiesOnce
<1>. QED
  BY <1>3, <1>4 DEF Paired

LEMMA NewCall ==
  /\ CallOf(Main, 0) \in CallState
  /\ Once(CallOf(Main, 0).bodies) /\ Range(CallOf(Main, 0).bodies) = {}
BY ProgramAssumption DEF CallOf, CallState, Once, Range

LEMMA NewTask ==
  ASSUME NEW kind \in {"turfc", "analysis"}, NEW text \in Text
  PROVE  /\ Task(kind, text) \in TaskState
         /\ Task(kind, text).kind = kind /\ Task(kind, text).calls = <<CallOf(Main, 0)>>
         /\ Task(kind, text).at = "prelude" /\ ~Task(kind, text).failing
         /\ Task(kind, text).text = text
<1>1. <<CallOf(Main, 0)>> \in Seq(CallState) \ {<<>>}
  BY NewCall
<1>. QED
  BY <1>1 DEF Task, TaskState

LEMMA FinishPreludeStep ==
  ASSUME IInv, NEW t \in Thread, FinishPrelude(t) PROVE IInv'
<1>1. /\ TypeOK /\ tasks[t] # <<>> /\ compile \in CompileState /\ Running(t)
      /\ Paired(compile, Top(t))
  BY DEF IInv, PairInv, Matched, FinishPrelude, AtEnd, Parsing, Running, TypeOK
<1>2. CASE Main \in compile.imported
  <2>1. tasks' = WithTop(t, [Top(t) EXCEPT !.at = "over"])
        /\ UNCHANGED <<compile, saved, owner, waiting, dead>>
        /\ AtEnd(t) /\ Outermost(t)
    BY <1>2 DEF FinishPrelude
  <2>. QED
    BY <1>1, <1>2, <2>1, OverStep
<1>3. CASE Main \notin compile.imported
  <2> DEFINE bodies == Append(Top(t).calls[1].bodies, Main)
             call == EntryCall(Top(t).calls[1])
             k == [Top(t) EXCEPT !.at = "entry", !.calls = <<call>>]
  <2>1. /\ Top(t) \in TaskState /\ Top(t).calls \in Seq(CallState)
        /\ Len(Top(t).calls) = 1 /\ DOMAIN Top(t).calls = {1}
        /\ Top(t).calls[1] \in CallState
    BY <1>1, TopFacts DEF FinishPrelude, Outermost
  <2>2. Top(t).calls[1].bodies \in Seq(File) /\ Main \in File
    BY <2>1, ProgramAssumption DEF CallState
  <2>3. compile.stack = <<>>
    <3>1. compile.stack \in Seq(File) /\ Len(compile.stack) = 0
      BY <1>1, <2>1 DEF CompileState, Paired, StackIsCalls
    <3>. QED
      BY <3>1
  <2>4. Once(Top(t).calls[1].bodies) /\ Range(Top(t).calls[1].bodies) \subseteq compile.imported
    BY <1>1, <2>1 DEF Paired, BodiesOnce
  <2>5. Once(bodies) /\ Range(bodies) = Range(Top(t).calls[1].bodies) \cup {Main}
    BY <1>3, <2>2, <2>4, AppendOnce
  <2>6. bodies \in Seq(File)
    BY <2>2
  <2>7. /\ compile' = [compile EXCEPT !.imported = @ \cup {Main}]
        /\ tasks' = WithTop(t, k)
        /\ saved' = saved /\ owner' = owner /\ dead' = dead /\ waiting' = waiting
    BY <1>3 DEF FinishPrelude, Claimed
  <2>. HIDE DEF bodies
  <2>8. call \in CallState /\ call.bodies = bodies
    BY <2>1, <2>6 DEF CallState, EntryCall, bodies
  <2>. HIDE DEF call
  <2>9. /\ k \in TaskState /\ k.kind = Top(t).kind /\ k.calls = <<call>>
        /\ k.text = Top(t).text /\ k.failing = Top(t).failing /\ k.at = "entry"
    <3>1. <<call>> \in Seq(CallState) \ {<<>>}
      BY <2>8
    <3>. QED
      BY <2>1, <3>1 DEF TaskState
  <2>. HIDE DEF k
  <2>10. /\ compile' \in CompileState /\ compile'.stack = <<>>
         /\ compile'.imported = compile.imported \cup {Main}
         /\ compile'.errors = compile.errors /\ compile'.errorLines = compile.errorLines
    <3>1. compile.imported \cup {Main} \in SUBSET File
      BY <1>1, <2>2 DEF CompileState
    <3>2. /\ compile' \in CompileState /\ compile'.stack = compile.stack
          /\ compile'.imported = compile.imported \cup {Main}
          /\ compile'.errors = compile.errors /\ compile'.errorLines = compile.errorLines
      BY <1>1, <2>7, <3>1 DEF CompileState
    <3>. QED
      BY <2>3, <3>2
  <2>11. Paired(compile', k)
    BY <2>4, <2>5, <2>8, <2>9, <2>10, FreshPairs
  <2>12. Settled(compile', k)
    <3>1. /\ Last(Top(t).calls).next = Len(StatementsOf(Top(t))) + 1
          /\ Top(t).at = "prelude"
      BY StatementsSame DEF FinishPrelude, AtEnd
    <3>2. k.calls = <<EntryCall(Top(t).calls[1])>>
      BY <2>9 DEF call
    <3>3. compile'.stack = compile.stack
      BY <2>3, <2>10
    <3>. QED
      BY <1>1, <2>1, <2>9, <2>10, <3>1, <3>2, <3>3, TopSettled, ClaimSettled
  <2>. QED
    BY <1>1, <2>7, <2>9, <2>10, <2>11, <2>12, TopStep DEF Matched
<1>. QED
  BY <1>2, <1>3

LEMMA NextPassStep ==
  ASSUME IInv, NEW t \in Thread, NextPass(t) PROVE IInv'
<1> DEFINE task == Task("turfc", Top(t).text)
           k == [task EXCEPT !.pass = 2, !.asked = Top(t).asked]
<1>1. TypeOK /\ tasks[t] # <<>> /\ compile \in CompileState
  BY DEF IInv, NextPass, Over, Running, TypeOK
<1>2. Top(t) \in TaskState /\ Top(t).text \in Text /\ Top(t).asked \in BOOLEAN
  BY <1>1, TopFacts DEF TaskState
<1>3. /\ task \in TaskState /\ task.kind = "turfc" /\ task.calls = <<CallOf(Main, 0)>>
      /\ task.at = "prelude" /\ ~task.failing /\ task.text = Top(t).text
  BY <1>2, NewTask
<1>4. /\ compile' = [compile EXCEPT !.imported = {}, !.stack = <<>>]
      /\ tasks' = WithTop(t, k) /\ Top(t).kind = "turfc"
      /\ saved' = saved /\ owner' = owner /\ dead' = dead /\ waiting' = waiting
  BY DEF NextPass
<1>. HIDE DEF task
<1>5. /\ k \in TaskState /\ k.kind = Top(t).kind /\ k.calls = <<CallOf(Main, 0)>>
      /\ k.at = "prelude" /\ ~k.failing /\ k.text = Top(t).text
  BY <1>2, <1>3, <1>4 DEF TaskState
<1>. HIDE DEF k
<1>6. /\ compile' \in CompileState /\ compile'.stack = <<>> /\ compile'.imported = {}
      /\ compile'.errors = compile.errors /\ compile'.errorLines = compile.errorLines
  <2>1. /\ compile'.stack = <<>> /\ compile'.imported = {}
        /\ compile'.errors = compile.errors /\ compile'.errorLines = compile.errorLines
    BY <1>1, <1>4 DEF CompileState
  <2>2. <<>> \in Seq(File) /\ {} \in SUBSET File
    OBVIOUS
  <2> DEFINE none == <<>>
  <2>3. none \in Seq(File) /\ compile' = [compile EXCEPT !.imported = {}, !.stack = none]
    BY <1>4, <2>2
  <2>. HIDE DEF none
  <2>4. compile' \in CompileState
    BY <1>1, <2>3 DEF CompileState
  <2>. QED
    BY <2>1, <2>4
<1>7. Paired(compile', k)
  BY <1>5, <1>6, NewCall, FreshPairs
<1>8. Settled(compile', k)
  <2>1. compile.errors = <<>> => compile.errorLines = {} /\ Top(t).text \in Compiled \cup Analysed
    BY <1>1, TopSettled DEF Settled, Clean
  <2>. QED
    BY <1>5, <1>6, <2>1, FreshSettled
<1>. QED
  BY <1>1, <1>4, <1>5, <1>6, <1>7, <1>8, TopStep DEF Matched

LEMMA GiveUpStep ==
  ASSUME IInv, NEW t \in Thread, GiveUp(t) PROVE IInv'
<1>1. UNCHANGED <<compile, saved, tasks, owner, waiting>> /\ dead' \in BOOLEAN
  BY DEF GiveUp
<1>. QED
  BY <1>1 DEF IInv, TypeOK, OwnerInv, ModeInv, KindInv, LockInv, SavedInv, PairInv,
              Interrupted, Under, Analyses, Top

\* What the prelude gave is dropped; that there is an error to report makes the
\* rest of the invariant void.
LEMMA WithoutPreludeStep ==
  ASSUME IInv, NEW t \in Thread, WithoutPrelude(t) PROVE IInv'
<1> DEFINE length == Len(Statements(t))
           call == Emptied(Top(t).calls[1], length)
           calls == <<call>>
           k == [Top(t) EXCEPT !.failing = FALSE, !.calls = calls]
<1>1. TypeOK /\ tasks[t] # <<>> /\ compile \in CompileState /\ Top(t).failing
  BY DEF IInv, WithoutPrelude, PreludeFails, Running, TypeOK
<1>2. /\ Top(t) \in TaskState /\ Top(t).calls \in Seq(CallState) /\ Len(Top(t).calls) = 1
      /\ Paired(compile, Top(t))
  BY <1>1, TopFacts, TopSettled DEF WithoutPrelude, PreludeFails, Outermost, Matched
<1>3. Top(t).calls[1] \in CallState
  BY <1>2
<1>4. length \in Nat
  BY <1>2, StatementsSame, StatementsAre
<1>5. tasks' = WithTop(t, k) /\ compile' = compile
      /\ saved' = saved /\ owner' = owner /\ dead' = dead /\ waiting' = waiting
  BY DEF WithoutPrelude
<1>. HIDE DEF length
<1>6. call \in CallState /\ call.bodies = <<>>
  <2>1. length + 1 \in Nat /\ <<>> \in Seq(File)
    BY <1>4
  <2> DEFINE passed == [Top(t).calls[1] EXCEPT !.next = length + 1]
  <2>2. passed \in CallState
    BY <1>3, <2>1 DEF CallState
  <2>3. call = [passed EXCEPT !.bodies = <<>>]
    BY DEF Emptied
  <2>. HIDE DEF passed, call
  <2>. QED
    BY <2>1, <2>2, <2>3 DEF CallState
<1>. HIDE DEF call
<1>7. calls \in Seq(CallState) /\ calls # <<>> /\ DOMAIN calls = {1} /\ calls[1] = call
  BY <1>6
<1>. HIDE DEF calls
<1>8. k \in TaskState /\ k.kind = Top(t).kind /\ k.calls = calls
  BY <1>2, <1>7 DEF TaskState
<1>. HIDE DEF k
<1>9. Paired(compile, k)
  <2>1. Len(compile.stack) = 0 /\ compile.stack \in Seq(File)
    BY <1>1, <1>2 DEF Paired, StackIsCalls, CompileState
  <2>2. StackIsCalls(compile, k)
    BY <1>7, <1>8, <2>1 DEF StackIsCalls
  <2>3. StackApart(compile)
    BY <1>2 DEF Paired
  <2>4. BodiesOnce(compile, k)
    BY <1>6, <1>7, <1>8 DEF BodiesOnce, Once, Range
  <2>. QED
    BY <2>2, <2>3, <2>4 DEF Paired
<1>10. Settled(compile, k)
  BY <1>1, TopSettled DEF Settled
<1>. QED
  BY <1>1, <1>5, <1>8, <1>9, <1>10, TopStep DEF Matched

LEMMA ParseStepKeeps ==
  ASSUME IInv, NEW t \in Thread, ParseStep(t) PROVE IInv'
<1>1. CASE SkipSelf(t) \/ AlreadyParsed(t)
  <2>1. Running(t) /\ tasks' = WithCall(t, Skipped(Call(t)))
        /\ UNCHANGED <<compile, saved, owner, waiting, dead>>
        /\ Top(t).at # "over" /\ Call(t).next \in DOMAIN Statements(t)
    BY <1>1 DEF SkipSelf, AlreadyParsed, Resolved, AtStatement, Parsing
  <2>2. Named(t) \in Passed(compile, Top(t))
    BY <1>1 DEF SkipSelf, AlreadyParsed, Resolved, AtStatement, Named, Passed, Outermost
  <2>. QED
    BY <2>1, <2>2, SkipStep
<1>2. CASE FinishEntry(t)
  <2>1. Running(t) /\ tasks' = WithTop(t, [Top(t) EXCEPT !.at = "over"])
        /\ UNCHANGED <<compile, saved, owner, waiting, dead>>
        /\ AtEnd(t) /\ Outermost(t) /\ Top(t).at = "entry"
    BY <1>2 DEF FinishEntry, AtEnd, Parsing
  <2>. QED
    BY <2>1, OverStep
<1>3. CASE BreakOff(t) \/ Circular(t) \/ Enter(t) \/ FinishFile(t)
  BY <1>3, BreakOffStep, CircularStep, EnterStep, FinishFileStep
<1>4. CASE Add(t) \/ FailFile(t) \/ Recover(t) \/ GiveUp(t) \/ WithoutPrelude(t)
           \/ FinishPrelude(t)
  BY <1>4, AddStep, FailFileStep, RecoverStep, GiveUpStep, WithoutPreludeStep,
     FinishPreludeStep
<1>. QED
  BY <1>1, <1>2, <1>3, <1>4 DEF ParseStep

(***************************************************************************)
(* The steps that begin and end a compile or an analysis                   *)
(***************************************************************************)
LEMMA NobodyElse ==
  ASSUME IInv, NEW t \in Thread, tasks[t] # <<>>
  PROVE  \A u \in Thread \ {t} : tasks[u] = <<>> /\ Analyses(u) = {}
<1>1. \A u \in Thread \ {t} : tasks[u] = <<>>
  BY LockExcludes DEF IInv, OneAtATime
<1>. QED
  BY <1>1 DEF Analyses

LEMMA PoppedKinds ==
  ASSUME IInv, NEW t \in Thread, tasks[t] # <<>>,
         tasks' = [tasks EXCEPT ![t] = Front(@)], waiting' = waiting
  PROVE  /\ tasks' \in [Thread -> Seq(TaskState)]
         /\ \A u \in Thread \ {t} : tasks'[u] = tasks[u]
         /\ Len(tasks[t]) \in Nat \ {0} /\ DOMAIN tasks[t] = 1 .. Len(tasks[t])
         /\ Len(tasks'[t]) = Len(tasks[t]) - 1
         /\ DOMAIN tasks'[t] = 1 .. Len(tasks[t]) - 1
         /\ \A i \in 1 .. Len(tasks[t]) - 1 : tasks'[t][i] = tasks[t][i]
         /\ ModeInv' /\ KindInv'
<1>1. tasks \in [Thread -> Seq(TaskState)] /\ tasks[t] \in Seq(TaskState)
  BY DEF IInv, TypeOK
<1>2. tasks'[t] = Front(tasks[t]) /\ \A u \in Thread \ {t} : tasks'[u] = tasks[u]
  BY <1>1
<1>3. /\ Len(tasks[t]) \in Nat \ {0} /\ tasks'[t] \in Seq(TaskState)
      /\ Len(tasks'[t]) = Len(tasks[t]) - 1
      /\ \A i \in 1 .. Len(tasks[t]) - 1 : tasks'[t][i] = tasks[t][i]
  <2> DEFINE s == tasks[t]
  <2>1. s \in Seq(TaskState) /\ s # <<>>
    BY <1>1
  <2>. HIDE DEF s
  <2>2. /\ Len(s) \in Nat \ {0} /\ Front(s) \in Seq(TaskState)
        /\ Len(Front(s)) = Len(s) - 1
        /\ \A i \in 1 .. Len(s) - 1 : Front(s)[i] = s[i]
    BY <2>1, FrontFacts
  <2>. QED
    BY <1>2, <2>2 DEF s
<1>4. DOMAIN tasks[t] = 1 .. Len(tasks[t]) /\ DOMAIN tasks'[t] = 1 .. Len(tasks[t]) - 1
      /\ DOMAIN tasks'[t] \subseteq DOMAIN tasks[t]
  BY <1>1, <1>3
<1>5. tasks' \in [Thread -> Seq(TaskState)]
  BY <1>1, <1>2, <1>3
<1>6. \A u \in Thread : \A i \in DOMAIN tasks'[u] :
        i \in DOMAIN tasks[u] /\ tasks'[u][i] = tasks[u][i]
  BY <1>2, <1>3, <1>4
<1>7. KindInv'
  BY <1>6 DEF IInv, OwnerInv, KindInv
<1>8. ModeInv'
  <2>1. CASE \A u \in Thread : \A i \in DOMAIN tasks[u] : tasks[u][i].kind = "analysis"
    BY <2>1, <1>6 DEF ModeInv
  <2>2. CASE \A u \in Thread \ {MainThread} : tasks[u] = <<>> /\ u \notin waiting
    <3>1. t = MainThread
      BY <2>2
    <3>2. \A u \in Thread \ {MainThread} : tasks'[u] = <<>> /\ u \notin waiting'
      BY <2>2, <3>1, <1>2
    <3>. QED
      BY <3>2 DEF ModeInv, MainThread
  <2>. QED
    BY <2>1, <2>2 DEF IInv, OwnerInv, ModeInv
<1>. QED
  BY <1>2, <1>3, <1>4, <1>5, <1>7, <1>8

\* How many compiles lie under a thread's task, and which is the last.
LEMMA SavedCount ==
  ASSUME IInv, NEW t \in Thread, owner \in {None, t}
  PROVE  /\ saved \in Seq(CompileState)
         /\ tasks[t] = <<>> => saved = <<>>
         /\ tasks[t] # <<>> => Len(saved) = Interrupted(t)
<1>1. saved \in Seq(CompileState) /\ tasks[t] \in Seq(TaskState)
  BY DEF IInv, TypeOK
<1>2. ASSUME tasks[t] = <<>> PROVE saved = <<>>
  <2>1. Analyses(t) = {}
    BY <1>2 DEF Analyses
  <2>2. owner = None
    BY <2>1 DEF IInv, OwnerInv, LockInv
  <2>. QED
    BY <2>2 DEF IInv, OwnerInv, SavedInv
<1>3. ASSUME tasks[t] # <<>> PROVE Len(saved) = Interrupted(t)
  <2>1. CASE owner = t
    BY <2>1, NoneAssumption DEF IInv, OwnerInv, SavedInv
  <2>2. CASE owner = None
    <3>1. saved = <<>> /\ Analyses(t) = {}
      BY <2>2, NoneAssumption DEF IInv, OwnerInv, SavedInv, LockInv
    <3>2. \A i \in DOMAIN tasks[t] : tasks[t][i].kind = "turfc"
      <4>1. \A i \in DOMAIN tasks[t] : tasks[t][i] \in TaskState
        BY <1>1
      <4>. QED
        BY <3>1, <4>1 DEF Analyses, TaskState
    <3>3. \A i \in DOMAIN tasks[t] : i = 1
      BY <3>2 DEF IInv, OwnerInv, KindInv
    <3>4. Len(tasks[t]) = 1
      <4>1. Len(tasks[t]) \in DOMAIN tasks[t]
        BY <1>1, <1>3
      <4>. QED
        BY <3>3, <4>1
    <3>5. tasks[t][1].kind = "turfc"
      BY <1>1, <3>2, <3>4
    <3>. QED
      BY <3>1, <3>4, <3>5 DEF Interrupted
  <2>. QED
    BY <2>1, <2>2
<1>. QED
  BY <1>1, <1>2, <1>3

LEMMA ExitStep ==
  ASSUME IInv, NEW t \in Thread, Exit(t) PROVE IInv'
<1>1. /\ tasks[t] # <<>> /\ tasks' = [tasks EXCEPT ![t] = Front(@)]
      /\ Top(t).kind = "turfc"
      /\ compile' = compile /\ saved' = saved /\ owner' = owner
      /\ waiting' = waiting /\ dead' = dead
  BY DEF Exit, Over, Running
<1>2. /\ tasks' \in [Thread -> Seq(TaskState)]
      /\ \A u \in Thread \ {t} : tasks'[u] = tasks[u]
      /\ Len(tasks[t]) \in Nat \ {0} /\ DOMAIN tasks[t] = 1 .. Len(tasks[t])
      /\ Len(tasks'[t]) = Len(tasks[t]) - 1
      /\ ModeInv' /\ KindInv'
  BY <1>1, PoppedKinds
<1>3. Len(tasks[t]) = 1 /\ tasks[t][1].kind = "turfc"
  BY <1>1, <1>2 DEF Top, Last, IInv, OwnerInv, KindInv
<1>4. tasks'[t] = <<>>
  <2>1. tasks'[t] \in Seq(TaskState) /\ Len(tasks'[t]) = 0
    BY <1>2, <1>3
  <2>. QED
    BY <2>1
<1>5. Analyses(t) = {} /\ Analyses(t)' = {}
  BY <1>2, <1>3, <1>4 DEF Analyses
<1>6. \A u \in Thread \ {t} : Analyses(u) = {} /\ Analyses(u)' = {} /\ tasks'[u] = <<>>
  <2>1. \A u \in Thread \ {t} : tasks[u] = <<>> /\ Analyses(u) = {}
    BY <1>1, NobodyElse
  <2>. QED
    BY <1>2, <2>1 DEF Analyses
<1>7. owner = None
  BY <1>5, <1>6 DEF IInv, OwnerInv, LockInv, TypeOK
<1>8. TypeOK'
  BY <1>1, <1>2 DEF IInv, TypeOK
<1>9. LockInv' /\ SavedInv'
  BY <1>1, <1>5, <1>6, <1>7, NoneAssumption DEF IInv, OwnerInv, LockInv, SavedInv
<1>10. PairInv'
  BY <1>4, <1>6 DEF PairInv
<1>. QED
  BY <1>2, <1>8, <1>9, <1>10 DEF IInv, OwnerInv

LEMMA BeginStep ==
  ASSUME IInv, NEW t \in Thread, Begin(t) PROVE IInv'
<1> DEFINE n0 == Len(tasks[t])
<1>1. PICK text \in Analysed :
        tasks' = [tasks EXCEPT ![t] = Append(@, Task("analysis", text))]
  BY DEF Begin
<1>2. /\ t \in waiting /\ owner \in {None, t} /\ owner' = t
      /\ waiting' = waiting \ {t} /\ dead' = dead
      /\ saved' = Append(saved, compile) /\ compile' = Opened(compile)
  BY DEF Begin, MayLock
<1>3. /\ tasks \in [Thread -> Seq(TaskState)] /\ tasks[t] \in Seq(TaskState)
      /\ compile \in CompileState
  BY DEF IInv, TypeOK
<1> DEFINE new == Task("analysis", text)
<1>4. /\ new \in TaskState /\ new.kind = "analysis" /\ new.calls = <<CallOf(Main, 0)>>
      /\ new.at = "prelude" /\ ~new.failing /\ new.text = text
  <2>1. text \in Text
    BY ProgramAssumption
  <2>. QED
    BY <2>1, NewTask
<1>. HIDE DEF new
<1>5. /\ tasks'[t] = Append(tasks[t], new)
      /\ \A u \in Thread \ {t} : tasks'[u] = tasks[u]
  BY <1>1, <1>3 DEF new
<1>6. /\ n0 \in Nat /\ DOMAIN tasks[t] = 1 .. n0
      /\ tasks'[t] \in Seq(TaskState) /\ tasks'[t] # <<>> /\ Len(tasks'[t]) = n0 + 1
      /\ DOMAIN tasks'[t] = 1 .. n0 + 1
      /\ \A i \in 1 .. n0 : tasks'[t][i] = tasks[t][i]
      /\ tasks'[t][n0 + 1] = new
  BY <1>3, <1>4, <1>5, AppendFacts
<1>. HIDE DEF n0
<1>7. \A i \in DOMAIN tasks'[t] : i \in DOMAIN tasks[t] \/ i = n0 + 1
  BY <1>6
<1>8. \A u \in Thread \ {t} : tasks[u] = <<>> /\ tasks'[u] = <<>>
  <2>1. CASE \A u \in Thread : \A i \in DOMAIN tasks[u] : tasks[u][i].kind = "analysis"
    <3> SUFFICES ASSUME NEW u \in Thread \ {t}, tasks[u] # <<>> PROVE FALSE
      BY <1>5
    <3>1. tasks[u] \in Seq(TaskState) /\ 1 \in DOMAIN tasks[u]
      BY <1>3
    <3>2. Analyses(u) # {}
      BY <2>1, <3>1 DEF Analyses
    <3>. QED
      BY <1>2, <3>2, NoneAssumption DEF IInv, OwnerInv, LockInv
  <2>2. CASE \A u \in Thread \ {MainThread} : tasks[u] = <<>> /\ u \notin waiting
    BY <1>2, <1>5, <2>2
  <2>. QED
    BY <2>1, <2>2 DEF IInv, OwnerInv, ModeInv
<1>9. TypeOK'
  <2>1. compile' \in CompileState
    <3>1. <<>> \in Seq(File) /\ <<>> \in Seq(Error) /\ {} \in SUBSET File /\ {} \in SUBSET Nat
      OBVIOUS
    <3>. QED
      BY <1>2, <3>1 DEF Opened, Fresh, CompileState
  <2>2. saved' \in Seq(CompileState)
    BY <1>2, <1>3 DEF IInv, TypeOK
  <2>3. tasks' \in [Thread -> Seq(TaskState)]
    BY <1>1, <1>3, <1>5, <1>6
  <2>. QED
    BY <1>2, <2>1, <2>2, <2>3 DEF IInv, TypeOK
<1>10. ModeInv'
  <2>1. CASE \A u \in Thread : \A i \in DOMAIN tasks[u] : tasks[u][i].kind = "analysis"
    <3>1. \A i \in DOMAIN tasks'[t] : tasks'[t][i].kind = "analysis"
      BY <1>4, <1>6, <1>7, <2>1
    <3>2. \A u \in Thread : \A i \in DOMAIN tasks'[u] : tasks'[u][i].kind = "analysis"
      BY <1>5, <2>1, <3>1
    <3>. QED
      BY <3>2 DEF ModeInv
  <2>2. CASE \A u \in Thread \ {MainThread} : tasks[u] = <<>> /\ u \notin waiting
    <3>1. t = MainThread
      BY <1>2, <2>2
    <3>2. \A u \in Thread \ {MainThread} : tasks'[u] = <<>> /\ u \notin waiting'
      BY <1>2, <1>5, <2>2, <3>1
    <3>. QED
      BY <3>2 DEF ModeInv, MainThread
  <2>. QED
    BY <2>1, <2>2 DEF IInv, OwnerInv, ModeInv
<1>11. KindInv'
  <2>1. \A i \in DOMAIN tasks'[t] : tasks'[t][i].kind = "turfc" => i = 1
    BY <1>4, <1>6, <1>7 DEF IInv, OwnerInv, KindInv
  <2>. QED
    BY <1>5, <2>1 DEF IInv, OwnerInv, KindInv
<1>12. LockInv'
  <2>1. n0 + 1 \in Analyses(t)'
    BY <1>4, <1>6 DEF Analyses
  <2>2. \A u \in Thread \ {t} : Analyses(u)' = {}
    BY <1>8 DEF Analyses
  <2>. QED
    BY <1>2, <2>1, <2>2 DEF LockInv
<1>13. /\ saved \in Seq(CompileState)
       /\ tasks[t] = <<>> => saved = <<>>
       /\ tasks[t] # <<>> => Len(saved) = Interrupted(t)
  BY <1>2, SavedCount
<1>14. /\ Len(saved) \in Nat /\ Len(saved') = Len(saved) + 1
       /\ DOMAIN saved' = 1 .. Len(saved) + 1
       /\ \A i \in 1 .. Len(saved) : saved'[i] = saved[i]
       /\ saved'[Len(saved) + 1] = compile
  BY <1>2, <1>3, <1>13, AppendFacts
<1>15. SavedInv'
  <2>1. CASE tasks[t] = <<>>
    <3>1. n0 = 0 /\ Len(saved) = 0
      BY <1>13, <2>1 DEF n0
    <3>2. Interrupted(t)' = 1
      BY <1>4, <1>6, <3>1 DEF Interrupted
    <3>. QED
      BY <1>2, <1>14, <3>1, <3>2, NoneAssumption DEF SavedInv, Interrupted
  <2>2. CASE tasks[t] # <<>>
    <3>1. n0 # 0 /\ 1 \in 1 .. n0
      BY <1>3, <1>6, <2>2 DEF n0
    <3>2. tasks'[t][1] = tasks[t][1]
      BY <1>6, <3>1
    <3>3. Len(saved) = IF tasks[t][1].kind = "turfc" THEN n0 - 1 ELSE n0
      BY <1>13, <2>2 DEF Interrupted, n0
    <3>4. Len(saved') = IF tasks'[t][1].kind = "turfc" THEN Len(tasks'[t]) - 1
                                                         ELSE Len(tasks'[t])
      BY <1>6, <1>14, <3>2, <3>3
    <3>. QED
      BY <1>2, <3>4, NoneAssumption DEF SavedInv, Interrupted
  <2>. QED
    BY <2>1, <2>2
<1>16. PairInv'
  <2>1. Matched(compile', Top(t)')
    <3>1. Top(t)' = new
      BY <1>6 DEF Top, Last
    <3>2. compile'.stack = <<>> /\ compile'.imported = {} /\ compile'.errorLines = {}
      BY <1>2 DEF Opened, Fresh
    <3>3. Paired(compile', new)
      BY <1>4, <3>2, NewCall, FreshPairs
    <3>4. Settled(compile', new)
      BY <1>4, <3>2, FreshSettled
    <3>. QED
      BY <3>1, <3>3, <3>4 DEF Matched
  <2>2. ASSUME NEW n \in 1 .. n0
        PROVE  /\ Under(t, n)' \in DOMAIN saved'
               /\ Matched(saved'[Under(t, n)'], tasks'[t][n])
    <3>1. tasks[t] # <<>>
      BY <1>6, <2>2
    <3>2. Under(t, n)' = Len(saved) + 1 - n0 + n
      BY <1>6, <1>14 DEF Under
    <3>3. CASE n = n0
      <4>1. Under(t, n)' = Len(saved) + 1
        BY <1>6, <1>14, <3>2, <3>3
      <4>2. tasks'[t][n] = Top(t)
        BY <1>6, <2>2, <3>3 DEF Top, Last, n0
      <4>3. Matched(compile, Top(t))
        BY <3>1 DEF IInv, PairInv
      <4>. QED
        BY <1>14, <4>1, <4>2, <4>3
    <3>4. CASE n # n0
      <4>1. n \in 1 .. n0 - 1
        BY <1>6, <2>2, <3>4
      <4>2. Under(t, n) \in DOMAIN saved /\ Matched(saved[Under(t, n)], tasks[t][n])
        BY <3>1, <4>1 DEF IInv, PairInv, n0
      <4>3. Under(t, n)' = Under(t, n)
        BY <1>6, <1>14, <3>2 DEF Under, n0
      <4>4. Under(t, n) \in 1 .. Len(saved)
        BY <1>13, <4>2
      <4>. QED
        BY <1>6, <1>14, <4>2, <4>3, <4>4
    <3>. QED
      BY <3>3, <3>4
  <2>3. Len(tasks'[t]) - 1 = n0
    BY <1>6
  <2>4. \A u \in Thread : tasks'[u] # <<>> => u = t
    BY <1>8
  <2>. QED
    BY <2>1, <2>2, <2>3, <2>4 DEF PairInv
<1>. QED
  BY <1>9, <1>10, <1>11, <1>12, <1>15, <1>16 DEF IInv, OwnerInv

LEMMA ReturnStep ==
  ASSUME IInv, NEW t \in Thread, Return(t) PROVE IInv'
<1> DEFINE L == Len(tasks[t])
           S == Len(saved)
<1>1. /\ tasks[t] # <<>> /\ tasks' = [tasks EXCEPT ![t] = Front(@)]
      /\ Top(t).kind = "analysis"
      /\ compile' = Last(saved) /\ saved' = Front(saved)
      /\ owner' = IF Analyses(t) = {L} THEN None ELSE owner
      /\ waiting' = waiting /\ dead' = dead
  BY DEF Return, Over, Running
<1>2. /\ tasks' \in [Thread -> Seq(TaskState)]
      /\ \A u \in Thread \ {t} : tasks'[u] = tasks[u]
      /\ L \in Nat \ {0} /\ DOMAIN tasks[t] = 1 .. L
      /\ Len(tasks'[t]) = L - 1 /\ DOMAIN tasks'[t] = 1 .. L - 1
      /\ \A i \in 1 .. L - 1 : tasks'[t][i] = tasks[t][i]
      /\ ModeInv' /\ KindInv'
  BY <1>1, PoppedKinds
<1>3. \A u \in Thread \ {t} : tasks[u] = <<>> /\ tasks'[u] = <<>>
                              /\ Analyses(u) = {} /\ Analyses(u)' = {}
  <2>1. \A u \in Thread \ {t} : tasks[u] = <<>> /\ Analyses(u) = {}
    BY <1>1, NobodyElse
  <2>. QED
    BY <1>2, <2>1 DEF Analyses
<1>4. L \in Analyses(t) /\ tasks[t][L].kind = "analysis"
  BY <1>1, <1>2 DEF Top, Last, Analyses
<1>. HIDE DEF L
<1>5. owner = t /\ t # None
  BY <1>4, NoneAssumption DEF IInv, OwnerInv, LockInv
<1>6. saved \in Seq(CompileState) /\ S = Interrupted(t) /\ S \in Nat
  <2>1. saved \in Seq(CompileState) /\ S = Interrupted(t)
    BY <1>1, <1>5, SavedCount
  <2>. QED
    BY <2>1
<1>7. S # 0 /\ saved # <<>>
  <2>1. tasks[t][1].kind = "turfc" => L # 1
    BY <1>4
  <2>2. S # 0
    BY <1>2, <1>6, <2>1 DEF Interrupted, L
  <2>. QED
    BY <2>2
<1>8. /\ saved' \in Seq(CompileState) /\ Len(saved') = S - 1
      /\ DOMAIN saved' = 1 .. S - 1
      /\ \A i \in 1 .. S - 1 : saved'[i] = saved[i]
      /\ Last(saved) \in CompileState /\ Last(saved) = saved[S]
  <2>1. /\ Front(saved) \in Seq(CompileState) /\ Len(Front(saved)) = S - 1
        /\ \A i \in 1 .. S - 1 : Front(saved)[i] = saved[i]
        /\ Last(saved) \in CompileState
    BY <1>6, <1>7, FrontFacts
  <2>. QED
    BY <1>1, <2>1 DEF Last
<1>. HIDE DEF S
<1>9. TypeOK'
  BY <1>1, <1>2, <1>8 DEF IInv, TypeOK
<1>10. Analyses(t)' = Analyses(t) \ {L}
  <2>1. \A i : i \in 1 .. L - 1 <=> i \in 1 .. L /\ i # L
    BY <1>2
  <2>2. \A i : i \in Analyses(t)' <=> i \in Analyses(t) /\ i # L
    BY <1>2, <2>1 DEF Analyses
  <2>. QED
    BY <2>2
<1>11. ASSUME Analyses(t) = {L} PROVE LockInv' /\ SavedInv'
  <2>1. owner' = None /\ Analyses(t)' = {}
    BY <1>1, <1>10, <1>11
  <2>2. LockInv'
    BY <1>3, <2>1, NoneAssumption DEF LockInv
  <2>3. S = 1
    <3>1. CASE tasks[t][1].kind = "turfc"
      <4>1. \A i \in 1 .. L : i # 1 => i \in Analyses(t)
        <5>1. \A i \in 1 .. L : tasks[t][i] \in TaskState
          BY <1>2 DEF IInv, TypeOK
        <5>. QED
          BY <1>2, <5>1 DEF Analyses, TaskState, IInv, OwnerInv, KindInv
      <4>2. \A i \in 1 .. L : i = 1 \/ i = L
        BY <1>11, <4>1
      <4>3. L # 1
        BY <1>4, <3>1
      <4>4. L = 2
        <5>1. 2 \in 1 .. L
          BY <1>2, <4>3
        <5>. QED
          BY <4>2, <5>1
      <4>. QED
        BY <1>6, <3>1, <4>4 DEF Interrupted, L
    <3>2. CASE tasks[t][1].kind # "turfc"
      <4>1. tasks[t][1] \in TaskState /\ 1 \in DOMAIN tasks[t]
        BY <1>2 DEF IInv, TypeOK
      <4>2. 1 \in Analyses(t)
        BY <3>2, <4>1 DEF Analyses, TaskState
      <4>3. L = 1
        BY <1>11, <4>2
      <4>. QED
        BY <1>6, <3>2, <4>3 DEF Interrupted, L
    <3>. QED
      BY <3>1, <3>2
  <2>4. saved' = <<>>
    BY <1>8, <2>3
  <2>. QED
    BY <2>1, <2>2, <2>4 DEF SavedInv
<1>12. ASSUME Analyses(t) # {L} PROVE LockInv' /\ SavedInv'
  <2>1. owner' = t
    BY <1>1, <1>5, <1>12
  <2>2. PICK i \in Analyses(t) : i # L
    BY <1>4, <1>12
  <2>3. i \in Analyses(t)' /\ L # 1
    <3>1. i \in 1 .. L
      BY <1>2, <2>2 DEF Analyses
    <3>. QED
      BY <1>2, <1>10, <2>2, <3>1
  <2>4. LockInv'
    BY <1>3, <2>1, <2>3 DEF LockInv
  <2>5. tasks'[t][1] = tasks[t][1]
    BY <1>2, <2>3
  <2>6. Len(saved') = IF tasks'[t][1].kind = "turfc" THEN Len(tasks'[t]) - 1
                                                      ELSE Len(tasks'[t])
    BY <1>2, <1>6, <1>8, <2>5 DEF Interrupted, L
  <2>. QED
    BY <1>5, <2>1, <2>4, <2>6 DEF SavedInv, Interrupted
<1>13. LockInv' /\ SavedInv'
  BY <1>11, <1>12
<1>14. PairInv'
  <2>1. ASSUME NEW n \in 1 .. L - 1
        PROVE  /\ Under(t, n) \in DOMAIN saved /\ Matched(saved[Under(t, n)], tasks[t][n])
               /\ Under(t, n) = S - L + 1 + n
    BY <1>1 DEF IInv, PairInv, Under, S, L
  <2>2. ASSUME L # 1 PROVE Matched(compile', Top(t)')
    <3>1. L - 1 \in 1 .. L - 1
      BY <1>2, <2>2
    <3>2. Under(t, L - 1) = S
      BY <1>2, <1>6, <2>1, <3>1 DEF S
    <3>3. Matched(saved[S], tasks[t][L - 1])
      BY <2>1, <3>1, <3>2
    <3>4. Top(t)' = tasks[t][L - 1]
      BY <1>2, <3>1 DEF Top, Last
    <3>. QED
      BY <1>1, <1>8, <3>3, <3>4
  <2>3. ASSUME NEW n \in 1 .. L - 2
        PROVE  /\ Under(t, n)' \in DOMAIN saved'
               /\ Matched(saved'[Under(t, n)'], tasks'[t][n])
    <3>1. n \in 1 .. L - 1
      BY <1>2
    <3>2. Under(t, n)' = Under(t, n)
      BY <1>2, <1>6, <1>8 DEF Under, S, L
    <3>3. Under(t, n) \in 1 .. S - 1
      <4>1. Under(t, n) \in 1 .. S /\ Under(t, n) = S - L + 1 + n
        BY <1>6, <2>1, <3>1 DEF S
      <4>. QED
        BY <1>2, <1>6, <4>1 DEF S
    <3>. QED
      BY <1>2, <1>8, <2>1, <3>1, <3>2, <3>3
  <2>4. \A u \in Thread : tasks'[u] # <<>> => u = t
    BY <1>3
  <2>5. tasks'[t] # <<>> => L # 1
    <3> DEFINE s == tasks'[t]
    <3>1. s \in Seq(TaskState) /\ Len(s) = L - 1
      BY <1>2
    <3>. HIDE DEF s
    <3>2. s # <<>> => Len(s) # 0
      BY <3>1
    <3>. QED
      BY <1>2, <3>1, <3>2 DEF s
  <2>6. Len(tasks'[t]) - 1 = L - 2
    BY <1>2
  <2>. QED
    BY <2>2, <2>3, <2>4, <2>5, <2>6 DEF PairInv
<1>. QED
  BY <1>2, <1>9, <1>13, <1>14 DEF IInv, OwnerInv

(***************************************************************************)
(* The invariant                                                           *)
(***************************************************************************)
LEMMA InitInv == Init => IInv
<1> SUFFICES ASSUME Init PROVE IInv
  OBVIOUS
<1>1. compile = Fresh /\ saved = <<>> /\ owner = None /\ dead = FALSE
  BY DEF Init
<1>2. Fresh \in CompileState
  <2>1. <<>> \in Seq(File) /\ <<>> \in Seq(Error) /\ {} \in SUBSET File /\ {} \in SUBSET Nat
    OBVIOUS
  <2>. QED
    BY <2>1 DEF Fresh, CompileState
<1>3. CASE /\ waiting = {}
           /\ \E text \in Compiled :
                tasks = [t \in Thread |->
                           IF t = MainThread THEN <<Task("turfc", text)>> ELSE <<>>]
  <2>1. PICK text \in Compiled :
          tasks = [t \in Thread |->
                     IF t = MainThread THEN <<Task("turfc", text)>> ELSE <<>>]
    BY <1>3
  <2> DEFINE task == Task("turfc", text)
  <2>2. /\ task \in TaskState /\ task.kind = "turfc" /\ task.calls = <<CallOf(Main, 0)>>
        /\ task.at = "prelude" /\ ~task.failing /\ task.text = text
    <3>1. text \in Text
      BY ProgramAssumption
    <3>. QED
      BY <3>1, NewTask
  <2>. HIDE DEF task
  <2>3. <<task>> \in Seq(TaskState) /\ <<>> \in Seq(TaskState) /\ Len(<<task>>) = 1
        /\ DOMAIN <<task>> = {1} /\ <<task>>[1] = task
    BY <2>2
  <2>4. \A t \in Thread : tasks[t] \in {<<task>>, <<>>}
    BY <2>1 DEF task
  <2>5. \A t \in Thread \ {MainThread} : tasks[t] = <<>>
    BY <2>1
  <2>6. TypeOK
    <3>1. tasks \in [Thread -> Seq(TaskState)]
      BY <2>1, <2>3, <2>4
    <3>2. <<>> \in Seq(CompileState)
      OBVIOUS
    <3>. QED
      BY <1>1, <1>2, <1>3, <3>1, <3>2 DEF TypeOK
  <2>7. \A t \in Thread : Analyses(t) = {}
    BY <2>2, <2>3, <2>4 DEF Analyses
  <2>8. ModeInv /\ KindInv
    BY <1>3, <2>3, <2>4, <2>5 DEF ModeInv, KindInv
  <2>9. LockInv /\ SavedInv
    BY <1>1, <2>7, NoneAssumption DEF LockInv, SavedInv
  <2>10. PairInv
    <3>1. ASSUME NEW t \in Thread, tasks[t] = <<task>>
          PROVE  Matched(compile, Top(t)) /\ Len(tasks[t]) = 1
      <4>1. Top(t) = task /\ Len(tasks[t]) = 1
        BY <2>3, <3>1 DEF Top, Last
      <4>2. compile.stack = <<>> /\ compile.imported = {} /\ compile.errorLines = {}
        BY <1>1 DEF Fresh
      <4>3. Paired(compile, task)
        BY <2>2, <4>2, NewCall, FreshPairs
      <4>4. Settled(compile, task)
        BY <2>2, <4>2, FreshSettled
      <4>. QED
        BY <4>1, <4>3, <4>4 DEF Matched
    <3>2. \A t \in Thread : tasks[t] # <<>> => Matched(compile, Top(t)) /\ Len(tasks[t]) = 1
      BY <2>4, <3>1
    <3>3. \A n : n \notin 1 .. 1 - 1
      OBVIOUS
    <3>4. \A t \in Thread : tasks[t] # <<>> => \A n \in 1 .. Len(tasks[t]) - 1 : FALSE
      BY <3>2, <3>3
    <3>. QED
      BY <3>2, <3>4 DEF PairInv
  <2>. QED
    BY <2>6, <2>8, <2>9, <2>10 DEF IInv, OwnerInv
<1>4. CASE waiting = Thread /\ tasks = [t \in Thread |-> <<>>]
  <2>1. \A t \in Thread : tasks[t] = <<>> /\ Analyses(t) = {}
    BY <1>4 DEF Analyses
  <2>2. TypeOK
    <3>1. /\ <<>> \in Seq(TaskState) /\ <<>> \in Seq(CompileState)
          /\ \A t \in Thread : tasks[t] = <<>>
      BY <1>4
    <3>2. tasks \in [Thread -> Seq(TaskState)]
      BY <1>4, <3>1
    <3>. QED
      BY <1>1, <1>2, <1>4, <3>1, <3>2 DEF TypeOK
  <2>3. ModeInv /\ KindInv
    BY <2>1 DEF ModeInv, KindInv
  <2>4. LockInv /\ SavedInv /\ PairInv
    BY <1>1, <2>1, NoneAssumption DEF LockInv, SavedInv, PairInv
  <2>. QED
    BY <2>2, <2>3, <2>4 DEF IInv, OwnerInv
<1>. QED
  BY <1>3, <1>4 DEF Init

LEMMA NextInv == IInv /\ [Next]_vars => IInv'
<1> SUFFICES ASSUME IInv, [Next]_vars PROVE IInv'
  OBVIOUS
<1>1. CASE UNCHANGED vars
  BY <1>1 DEF vars, IInv, TypeOK, OwnerInv, ModeInv, KindInv, LockInv, SavedInv, PairInv,
              Interrupted, Under, Analyses, Top
<1>2. ASSUME NEW t \in Thread, ParseStep(t) PROVE IInv'
  BY <1>2, ParseStepKeeps
<1>3. ASSUME NEW t \in Thread, NextPass(t) PROVE IInv'
  BY <1>3, NextPassStep
<1>4. ASSUME NEW t \in Thread, Exit(t) PROVE IInv'
  BY <1>4, ExitStep
<1>5. ASSUME NEW t \in Thread, Ask(t) PROVE IInv'
  BY <1>5, AskStep
<1>6. ASSUME NEW t \in Thread, Begin(t) PROVE IInv'
  BY <1>6, BeginStep
<1>7. ASSUME NEW t \in Thread, Return(t) PROVE IInv'
  BY <1>7, ReturnStep
<1>. QED
  BY <1>1, <1>2, <1>3, <1>4, <1>5, <1>6, <1>7 DEF Next

\* Every state of a load, with an analysis inside it or beside it, is paired
\* with what it is in the middle of and with who runs it.
THEOREM Invariance == Spec => []IInv
<1>1. Init => IInv
  BY InitInv
<1>2. IInv /\ [Next]_vars => IInv'
  BY NextInv
<1>. QED
  BY <1>1, <1>2, PTL DEF Spec

\* Whatever is loaded, the state has its type.
THEOREM TypeCorrect == Spec => []TypeOK
<1>1. IInv => TypeOK
  BY DEF IInv
<1>. QED
  BY <1>1, Invariance, PTL

\* AnalysisMutex does what it is there for, with any number of threads and
\* analyses inside one another: the process-wide state of a compile is one
\* thread's at a time (AnalysisFacade.cpp:159, 698).
THEOREM OneAtATimeAlways == Spec => []OneAtATime
<1>1. IInv => OneAtATime
  BY LockExcludes DEF IInv
<1>. QED
  BY <1>1, Invariance, PTL

\* For any import graph, broken or looping files and the entry file among its
\* own imports included: no program holds a file's declarations twice, and no
\* file is parsed inside itself (ParserModule.cpp:395-408, 1488).
THEOREM NoBodyTwiceAlways == Spec => []NoBodyTwice
<1>1. ASSUME IInv PROVE NoBodyTwice
  <2> SUFFICES ASSUME NEW t \in Thread, tasks[t] # <<>>
               PROVE  /\ \A c \in DOMAIN Top(t).calls : Once(Top(t).calls[c].bodies)
                      /\ Once(compile.stack)
    BY DEF NoBodyTwice, Once
  <2>1. Paired(compile, Top(t))
    BY <1>1 DEF IInv, PairInv, Matched
  <2>. QED
    BY <2>1 DEF Paired, BodiesOnce, StackApart, Once
<1>. QED
  BY <1>1, Invariance, PTL

\* For any import graph: the program a compile, its second pass or an analysis
\* ends with has each file once, and if nothing was reported it has exactly the
\* files that the prelude and the entry file lead to, whose modules import each
\* other in no circle (ParserModule.cpp:395-408, 1468-1489).
THEOREM EveryBodyOnceAlways == Spec => []EveryBodyOnce
<1>1. ASSUME IInv PROVE EveryBodyOnce
  <2> SUFFICES ASSUME NEW t \in Thread, Over(t)
               PROVE  /\ Once(Call(t).bodies)
                      /\ compile.errors = <<>> =>
                           /\ Range(Call(t).bodies) = Reached(Top(t).text)
                           /\ InNoCircle(Top(t).text)
    BY DEF EveryBodyOnce, Once
  <2>1. tasks[t] # <<>> /\ Top(t).at = "over"
    BY DEF Over, Running
  <2>2. TypeOK /\ compile \in CompileState
    BY <1>1 DEF IInv, TypeOK
  <2>3. Top(t) \in TaskState /\ Top(t).calls \in Seq(CallState) /\ Top(t).calls # <<>>
    BY <2>1, <2>2, TopFacts
  <2>4. Matched(compile, Top(t))
    BY <1>1, <2>1, TopSettled
  <2>5. Once(Call(t).bodies)
    <3>1. Len(Top(t).calls) \in DOMAIN Top(t).calls
      BY <2>3
    <3>. QED
      BY <2>4, <3>1 DEF Matched, Paired, BodiesOnce, Call, Last
  <2>6. ASSUME compile.errors = <<>>
        PROVE  Range(Call(t).bodies) = Reached(Top(t).text) /\ InNoCircle(Top(t).text)
    BY <2>1, <2>2, <2>3, <2>4, <2>6, OverIsWhole DEF Call
  <2>. QED
    BY <2>5, <2>6
<1>. QED
  BY <1>1, Invariance, PTL

=============================================================================
