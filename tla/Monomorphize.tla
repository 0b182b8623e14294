---------------------------- MODULE Monomorphize ----------------------------
(***************************************************************************)
(* Monomorphization (src/sema/Monomorphize.cpp and the loop that drives it *)
(* in src/driver/main.cpp).  Checking ordinary code records what instances *)
(* of generic declarations it calls.  Four drains then take turns; each    *)
(* sweeps the cache of requests, which grows under it, clones the template *)
(* of a request that is its own, checks the clone, which records what the  *)
(* clone calls, and points the requesting call sites at the clone.  They   *)
(* go on until a round in which none did any work.                         *)
(*                                                                         *)
(* Programs, calls and types are those of GenericCalls.                    *)
(***************************************************************************)
EXTENDS GenericCalls

CONSTANTS
    Kind,        \* of each template: "function", "method", "constructor", "struct"
    MaxDepth,    \* kMaxInstantiationDepth
    MaxTotal     \* kMaxTotalInstantiations

Drains == <<"function", "method", "constructor", "struct">>

ASSUME KindAssumption ==
    Kind \in [Template -> {"function", "method", "constructor", "struct"}]
ASSUME LimitAssumption == MaxDepth \in Nat \ {0} /\ MaxTotal \in Nat

VARIABLES
    program,
    cache,      \* Cache_: the requests, in the order they were first made
    asts,       \* PrePassASTs: the clones appended to it, as cache indices
    target,     \* ResolvedCallTarget: the pairs of a call site and a clone
    phase,      \* "check", "sweep", "clone", "done", "failed"
    position,   \* the next call of the body being checked
    drain,      \* the drain that sweeps
    index,      \* Idx: where it is
    didWork,    \* DidWork
    progress    \* Progress

vars == <<program, cache, asts, target, phase, position, drain, index, didWork,
          progress>>

I == INSTANCE Instances WITH
       Plenty <- IF MaxDepth < MaxTotal THEN MaxDepth ELSE MaxTotal,
       made <- {cache[i].request : i \in {j \in DOMAIN cache : cache[j].drained}},
       verdict <- IF phase \in {"done", "failed"} THEN phase ELSE "open"

(***************************************************************************)
(* The collector.  An entry of the cache holds its request, the request    *)
(* whose clone was being checked when it was first made (Root for none),   *)
(* the call sites that ask for it and those already rewritten.  A site is  *)
(* the code it is in, Root or the entry whose clone it is in, and the      *)
(* call's place there.                                                     *)
(***************************************************************************)
Root == 0

Entry(request, parent, site) ==
    [request |-> request, parent |-> parent, sites |-> {site}, rewritten |-> {},
     drained |-> FALSE]

\* Mutant: a repeated request takes its latest parent.
RecordLatestParent(entries, request, parent, site) ==
    IF \E i \in DOMAIN entries : entries[i].request = request
      THEN [i \in DOMAIN entries |->
              IF entries[i].request = request
                THEN [entries[i] EXCEPT !.sites = @ \cup {site}, !.parent = parent]
                ELSE entries[i]]
      ELSE Append(entries, Entry(request, parent, site))

\* InstantiationCollector::record.  A repeated request keeps its parent, but
\* for ordinary code that asks for what a clone had asked for.
Record(entries, request, parent, site) ==
    IF \E i \in DOMAIN entries : entries[i].request = request
      THEN [i \in DOMAIN entries |->
              IF entries[i].request = request
                THEN [entries[i] EXCEPT !.sites = @ \cup {site},
                                        !.parent = IF parent = Root THEN Root ELSE @]
                ELSE entries[i]]
      ELSE Append(entries, Entry(request, parent, site))

\* Mutant: the site stays with the instance it was first taken for.
ForgetNothing(entries, site) == entries

\* InstantiationCollector::forgetSite
ForgetSite(entries, site) ==
    [i \in DOMAIN entries |->
       [entries[i] EXCEPT !.sites = (@ \ {site}) \cup entries[i].rewritten]]

\* A call is visited: it is recorded with what its argument's type says, and
\* recorded again (noteConstructed) when what it builds turns out wider.
Visit(entries, call, own, parent, site) ==
    LET seen == Record(entries, Inferred(call, own), parent, site)
    IN  IF Widens(call, own)
          THEN Record(ForgetSite(seen, site), Needed(call, own), parent, site)
          ELSE seen

\* chainTo: how many requests lead to entry i, itself included.
Depth[i \in DOMAIN cache] ==
    IF cache[i].parent = Root THEN 1 ELSE 1 + Depth[cache[i].parent]

\* Mutant: the depth's limit is one for how many instances there are.
TooMany(i) == Len(cache) > MaxDepth \/ Len(cache) > MaxTotal

\* exceedsInstantiationLimit
TooMuch(i) == Depth[i] > MaxDepth \/ Len(cache) > MaxTotal

Code == OrdinaryCalls(program)
Body(i) == program.body[cache[i].request.to]
KindOf(i) == Kind[cache[i].request.to]

\* rewriteNewFuncCallSites and rewriteNewMethodCallSites: point the sites not
\* yet rewritten at the clone.
Retarget(i) ==
    {t \in target : t[1] \notin cache[i].sites \ cache[i].rewritten} \cup
    {<<site, i>> : site \in cache[i].sites \ cache[i].rewritten}

Init ==
    /\ program \in Programs
    /\ cache = << >>
    /\ asts = << >>
    /\ target = {}
    /\ phase = "check"
    /\ position = 1
    /\ drain = 1
    /\ index = 1
    /\ didWork = FALSE
    /\ progress = FALSE

\* TypeChecker::checkAll, one call.
CheckCall ==
    /\ phase = "check"
    /\ position <= Len(Code)
    /\ cache' = Visit(cache, Code[position], IntType, Root, <<Root, position>>)
    /\ position' = position + 1
    /\ UNCHANGED <<program, asts, target, phase, drain, index, didWork, progress>>

\* Nothing was wrong: the loop over the drains begins.
StartDraining ==
    /\ phase = "check"
    /\ position > Len(Code)
    /\ phase' = "sweep"
    /\ UNCHANGED <<program, cache, asts, target, position, drain, index, didWork,
                   progress>>

(***************************************************************************)
(* One sweep of a drain.  The drains for functions and for constructors    *)
(* see the same requests, those of kind FreeFunction.                      *)
(***************************************************************************)
Sweeping == phase = "sweep" /\ index <= Len(cache)

Owns(i) == KindOf(i) = Drains[drain]

Sees(i) ==
    \/ Owns(i)
    \/ {KindOf(i), Drains[drain]} = {"function", "constructor"}

\* A request of another drain; one no site asks for any more; a struct that is
\* drained, which has no sites to rewrite.
Skip ==
    /\ Sweeping
    /\ \/ ~Sees(index)
       \/ cache[index].drained /\ KindOf(index) = "struct"
       \/ ~cache[index].drained /\ (cache[index].sites = {} \/ ~Owns(index))
    /\ index' = index + 1
    /\ UNCHANGED <<program, cache, asts, target, phase, position, drain, didWork,
                   progress>>

\* Mutant: what is drained is done with.
PassLateSites ==
    /\ Sweeping
    /\ Sees(index)
    /\ cache[index].drained
    /\ KindOf(index) # "struct"
    /\ index' = index + 1
    /\ UNCHANGED <<program, cache, asts, target, phase, position, drain, didWork,
                   progress>>

\* The request has its clone already; sites may have come since.
RewriteLateSites ==
    /\ Sweeping
    /\ Sees(index)
    /\ cache[index].drained
    /\ KindOf(index) # "struct"
    /\ target' = Retarget(index)
    /\ cache' = [cache EXCEPT ![index].rewritten = cache[index].sites]
    /\ index' = index + 1
    /\ UNCHANGED <<program, asts, phase, position, drain, didWork, progress>>

ToInstantiate ==
    /\ Sweeping
    /\ Owns(index)
    /\ ~cache[index].drained
    /\ cache[index].sites # {}

\* GenericInstantiationDepthError: the driver catches what it raises.
RaiseLimit ==
    /\ ToInstantiate
    /\ TooMuch(index)
    /\ phase' = "failed"
    /\ UNCHANGED <<program, cache, asts, target, position, drain, index, didWork,
                   progress>>

\* CloneExprAST and the substitution; what remains is to check the clone.
StartClone ==
    /\ ToInstantiate
    /\ ~TooMuch(index)
    /\ phase' = "clone"
    /\ position' = 1
    /\ UNCHANGED <<program, cache, asts, target, drain, index, didWork, progress>>

(***************************************************************************)
(* finishInstantiation: the clone's body is checked with its entry as the  *)
(* parent of what it asks for.  A struct has fields and no body:           *)
(* drainStructRequests records the instances they name with no parent.     *)
(***************************************************************************)
CloneCall == Body(index)[position]
CloneType == cache[index].request.type
CurrentParent == IF KindOf(index) = "struct" THEN Root ELSE index

CheckCloneCall ==
    /\ phase = "clone"
    /\ position <= Len(Body(index))
    /\ ~Wrong(CloneCall, CloneType)
    /\ cache' = Visit(cache, CloneCall, CloneType, CurrentParent, <<index, position>>)
    /\ position' = position + 1
    /\ UNCHANGED <<program, asts, target, phase, drain, index, didWork, progress>>

\* The call is recorded before the error is seen.
RejectClone ==
    /\ phase = "clone"
    /\ position <= Len(Body(index))
    /\ Wrong(CloneCall, CloneType)
    /\ cache' = Visit(cache, CloneCall, CloneType, CurrentParent, <<index, position>>)
    /\ phase' = "failed"
    /\ UNCHANGED <<program, asts, target, position, drain, index, didWork, progress>>

\* Mutant: a struct, which has no sites to rewrite, is not marked drained.
FinishCloneForgetsStruct ==
    /\ phase = "clone"
    /\ position > Len(Body(index))
    /\ asts' = Append(asts, index)
    /\ IF KindOf(index) = "struct"
         THEN UNCHANGED <<cache, target>>
         ELSE /\ cache' = [cache EXCEPT ![index].drained = TRUE,
                                        ![index].rewritten = cache[index].sites]
              /\ target' = Retarget(index)
    /\ didWork' = TRUE
    /\ phase' = "sweep"
    /\ index' = index + 1
    /\ UNCHANGED <<program, position, drain, progress>>

\* The clone is appended and its sites rewritten, those included that its own
\* body added.
FinishClone ==
    /\ phase = "clone"
    /\ position > Len(Body(index))
    /\ asts' = Append(asts, index)
    /\ IF KindOf(index) = "struct"
         THEN /\ cache' = [cache EXCEPT ![index].drained = TRUE]
              /\ target' = target
         ELSE /\ cache' = [cache EXCEPT ![index].drained = TRUE,
                                        ![index].rewritten = cache[index].sites]
              /\ target' = Retarget(index)
    /\ didWork' = TRUE
    /\ phase' = "sweep"
    /\ index' = index + 1
    /\ UNCHANGED <<program, position, drain, progress>>

(***************************************************************************)
(* The loop of the driver: the four drains in turn, while any did work.    *)
(***************************************************************************)
Swept == phase = "sweep" /\ index > Len(cache)

NextDrain ==
    /\ Swept
    /\ drain < Len(Drains)
    /\ drain' = drain + 1
    /\ index' = 1
    /\ progress' = (progress \/ didWork)
    /\ didWork' = FALSE
    /\ UNCHANGED <<program, cache, asts, target, phase, position>>

\* Mutant: Progress is not cleared before the drains take turns again.
NextRoundKeepsProgress ==
    /\ Swept
    /\ drain = Len(Drains)
    /\ progress \/ didWork
    /\ drain' = 1
    /\ index' = 1
    /\ didWork' = FALSE
    /\ UNCHANGED <<program, cache, asts, target, phase, position, progress>>

NextRound ==
    /\ Swept
    /\ drain = Len(Drains)
    /\ progress \/ didWork
    /\ drain' = 1
    /\ index' = 1
    /\ progress' = FALSE
    /\ didWork' = FALSE
    /\ UNCHANGED <<program, cache, asts, target, phase, position>>

StopDraining ==
    /\ Swept
    /\ drain = Len(Drains)
    /\ ~(progress \/ didWork)
    /\ phase' = "done"
    /\ UNCHANGED <<program, cache, asts, target, position, drain, index, didWork,
                   progress>>

Next ==
    \/ CheckCall \/ StartDraining
    \/ Skip \/ RewriteLateSites \/ RaiseLimit \/ StartClone
    \/ CheckCloneCall \/ RejectClone \/ FinishClone
    \/ NextDrain \/ NextRound \/ StopDraining

Spec == Init /\ [][Next]_vars

\* The compiler is one thread that nothing blocks.
FairSpec == Spec /\ WF_vars(Next)

(***************************************************************************)
(* Properties.                                                             *)
(***************************************************************************)
Site == (Nat \X Nat)

CacheEntry ==
    [request : Request, parent : Nat, sites : SUBSET Site,
     rewritten : SUBSET Site, drained : BOOLEAN]

TypeOK ==
    /\ cache \in Seq(CacheEntry)
    /\ asts \in Seq(DOMAIN cache)
    /\ target \subseteq Site \X DOMAIN cache
    /\ phase \in {"check", "sweep", "clone", "done", "failed"}
    /\ position \in Nat \ {0}
    /\ drain \in DOMAIN Drains
    /\ index \in Nat \ {0}
    /\ didWork \in BOOLEAN
    /\ progress \in BOOLEAN

\* No instance is compiled twice, whichever drains see its request and however
\* often it is recorded and swept over (two clones would be two definitions of
\* one name), and no entry counts as drained whose clone was not appended.
OneClone ==
    /\ \A i, j \in DOMAIN cache : cache[i].request = cache[j].request => i = j
    /\ \A j, k \in DOMAIN asts : asts[j] = asts[k] => j = k
    /\ \A i \in DOMAIN cache : cache[i].drained <=> \E k \in DOMAIN asts : asts[k] = i

\* When the drains have come to rest, each call of ordinary code and of every
\* clone leads to the clone that the call's types ask for, and to no other,
\* also one recorded after that clone was made, and one first taken for another
\* instance; the struct types are all laid out.
Leads(code, calls, own) ==
    \A k \in DOMAIN calls :
      \E i \in DOMAIN cache :
        /\ cache[i].request = Needed(calls[k], own)
        /\ cache[i].drained
        /\ KindOf(i) # "struct" =>
             {t \in target : t[1] = <<code, k>>} = {<<<<code, k>>, i>>}

CallsLeadToClones ==
    phase = "done" =>
      /\ Leads(Root, Code, IntType)
      /\ \A i \in DOMAIN cache :
           cache[i].drained => Leads(i, Body(i), cache[i].request.type)

\* The body of entry p's template, in p's instance, calls for entry i's, or was
\* taken to.
CallsFor(p, i) ==
    \E call \in CallsOf(Body(p)) :
      cache[i].request \in {Inferred(call, cache[p].request.type),
                           Needed(call, cache[p].request.type)}

\* The chain an error prints is one of instances that call each other, and it
\* ends: an entry's parent is an earlier one that was instantiated, or is being,
\* and whose body calls for the entry's instance.
ParentsCall ==
    \A i \in DOMAIN cache : cache[i].parent # Root =>
      LET p == cache[i].parent
      IN  /\ p < i
          /\ cache[p].drained \/ p = index
          /\ CallsFor(p, i)

\* A program is refused only for a body that is wrong, for a chain of instances
\* that is too deep, each calling the next, or for too many in all: calls that
\* have nothing to do with each other never add up to a chain.
Chain(length, last) ==
    {chain \in [1 .. length -> 1 .. last] :
        /\ chain[length] = last
        /\ \A k \in 1 .. length - 1 : /\ chain[k] < chain[k + 1]
                                      /\ CallsFor(chain[k], chain[k + 1])}

RefusalIsEarned ==
    phase = "failed" =>
      \/ \E call \in CallsOf(Body(index)) : Wrong(call, cache[index].request.type)
      \/ Len(cache) > MaxTotal
      \/ Chain(MaxDepth + 1, index) # {}

\* The drains come to rest or an error is raised, however the templates call
\* each other.
DrainsEnd == <>(phase \in {"done", "failed"})

\* The instances made are those Instances would make, and compilation fails
\* only where it would.
ImplementsInstances == I!Spec
=============================================================================
