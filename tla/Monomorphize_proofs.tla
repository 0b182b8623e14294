------------------------ MODULE Monomorphize_proofs ------------------------
(***************************************************************************)
(* Proofs about Monomorphize.  The lemmas on Record, ForgetSite and Visit  *)
(* say what recording one call does to the cache; the inductive invariant  *)
(* says where the sites of all calls visited so far are to be found, which *)
(* of them were rewritten, and what a round without work has settled.      *)
(***************************************************************************)
EXTENDS Monomorphize, FiniteSetTheorems, TLAPS

(***************************************************************************)
(* The cache                                                               *)
(***************************************************************************)
Unique(entries) ==
    \A i, j \in DOMAIN entries : entries[i].request = entries[j].request => i = j

\* A site is with one entry only.
SitesApart(entries) ==
    \A i, j \in DOMAIN entries :
      entries[i].sites \cap entries[j].sites # {} => i = j

RewrittenAreSites(entries) ==
    \A i \in DOMAIN entries :
      /\ entries[i].rewritten \subseteq entries[i].sites
      /\ ~entries[i].drained => entries[i].rewritten = {}

\* What entry i keeps when a call at `site` is recorded.
Kept(before, after, site) ==
    /\ after.request = before.request
    /\ after.drained = before.drained
    /\ after.rewritten = before.rewritten
    /\ after.sites \in {before.sites, before.sites \cup {site}}
    /\ after.parent \in {before.parent, Root}

LEMMA RequestTypes ==
  ASSUME NEW call \in Call, NEW own \in Type
  PROVE  Inferred(call, own) \in Request /\ Needed(call, own) \in Request
<1>1. Substituted(call.arg, own) \in Type
  BY DEF Substituted, Call, Type, Own, Boxed, IntType, DoubleType, BoxOf
<1>2. call.to \in Template
  BY DEF Call
<1>. QED
  BY <1>1, <1>2 DEF Inferred, Needed, Request, Type, DoubleType

LEMMA MappedSeq ==
  ASSUME NEW S, NEW c \in Seq(S), NEW r, r = [i \in DOMAIN c |-> r[i]],
         \A i \in DOMAIN c : r[i] \in S
  PROVE  r \in Seq(S) /\ Len(r) = Len(c) /\ DOMAIN r = DOMAIN c
<1>1. DOMAIN c = 1 .. Len(c) /\ Len(c) \in Nat
  OBVIOUS
<1>2. r \in [1 .. Len(c) -> S]
  BY <1>1
<1>. QED
  BY <1>1, <1>2

Recorded(c, r, request, parent, site) ==
    /\ r \in Seq(CacheEntry)
    /\ Len(r) >= Len(c)
    /\ \A i \in DOMAIN c :
         /\ Kept(c[i], r[i], site)
         /\ c[i].request # request => r[i].sites = c[i].sites
    /\ \A i \in DOMAIN r \ DOMAIN c : r[i] = Entry(request, parent, site)
    /\ Unique(r)
    /\ \E j \in DOMAIN r : r[j].request = request /\ site \in r[j].sites

Forgotten(c, f, site) ==
    /\ f \in Seq(CacheEntry) /\ Len(f) = Len(c) /\ Unique(f)
    /\ \A i \in DOMAIN c :
         /\ f[i].request = c[i].request /\ f[i].drained = c[i].drained
         /\ f[i].rewritten = c[i].rewritten /\ f[i].parent = c[i].parent
         /\ f[i].sites = (c[i].sites \ {site}) \cup c[i].rewritten
         /\ site \notin f[i].sites

LEMMA RecordFacts ==
  ASSUME NEW c \in Seq(CacheEntry), Unique(c), NEW request \in Request,
         NEW parent \in Nat, NEW site \in Site,
         NEW r, r = Record(c, request, parent, site)
  PROVE  Recorded(c, r, request, parent, site)
<1>1. CASE \E i \in DOMAIN c : c[i].request = request
  <2>1. r = [i \in DOMAIN c |->
               IF c[i].request = request
                 THEN [c[i] EXCEPT !.sites = @ \cup {site},
                                   !.parent = IF parent = Root THEN Root ELSE @]
                 ELSE c[i]]
    BY <1>1 DEF Record
  <2>2. \A i \in DOMAIN c : c[i] \in CacheEntry
    OBVIOUS
  <2>3. \A i \in DOMAIN c : r[i] \in CacheEntry
    <3> SUFFICES ASSUME NEW i \in DOMAIN c PROVE r[i] \in CacheEntry
      OBVIOUS
    <3>1. CASE c[i].request # request
      BY <3>1, <2>1, <2>2
    <3>2. CASE c[i].request = request
      <4>1. r[i] = [c[i] EXCEPT !.sites = c[i].sites \cup {site},
                                !.parent = IF parent = Root THEN Root
                                           ELSE c[i].parent]
        BY <3>2, <2>1, <2>2 DEF CacheEntry
      <4>2. c[i].sites \cup {site} \in SUBSET Site
        BY <2>2 DEF CacheEntry
      <4>3. (IF parent = Root THEN Root ELSE c[i].parent) \in Nat
        BY <2>2 DEF CacheEntry, Root
      <4>. QED
        BY <4>1, <4>2, <4>3, <2>2 DEF CacheEntry
    <3>. QED
      BY <3>1, <3>2
  <2>4. r \in Seq(CacheEntry) /\ Len(r) = Len(c) /\ DOMAIN r = DOMAIN c
    <3>1. r = [i \in DOMAIN c |-> r[i]]
      BY <2>1
    <3>. QED
      BY <3>1, <2>3, MappedSeq
  <2>5. \A i \in DOMAIN c :
          /\ Kept(c[i], r[i], site)
          /\ c[i].request # request => r[i].sites = c[i].sites
          /\ c[i].request = request => site \in r[i].sites
    BY <2>1, <2>2 DEF Kept, CacheEntry
  <2>6. Unique(r)
    BY <2>4, <2>5 DEF Unique, Kept
  <2>7. \E j \in DOMAIN r : r[j].request = request /\ site \in r[j].sites
    BY <1>1, <2>4, <2>5 DEF Kept
  <2>. QED
    BY <2>4, <2>5, <2>6, <2>7 DEF Recorded
<1>2. CASE ~\E i \in DOMAIN c : c[i].request = request
  <2>1. r = Append(c, Entry(request, parent, site))
    BY <1>2 DEF Record
  <2>2. Entry(request, parent, site) \in CacheEntry
    BY DEF Entry, CacheEntry
  <2>3. /\ r \in Seq(CacheEntry) /\ Len(r) = Len(c) + 1
        /\ \A i \in DOMAIN c : r[i] = c[i]
        /\ r[Len(c) + 1] = Entry(request, parent, site)
    BY <2>1, <2>2
  <2>4. Entry(request, parent, site).request = request
        /\ site \in Entry(request, parent, site).sites
    BY DEF Entry
  <2>5. DOMAIN r = DOMAIN c \cup {Len(c) + 1} /\ Len(c) + 1 \notin DOMAIN c
    BY <2>3
  <2>6. Unique(r)
    BY <1>2, <2>3, <2>4, <2>5 DEF Unique
  <2>7. \A i \in DOMAIN c : Kept(c[i], r[i], site)
    BY <2>3 DEF Kept
  <2>. QED
    BY <2>3, <2>4, <2>5, <2>6, <2>7 DEF Recorded
<1>. QED
  BY <1>1, <1>2

LEMMA ForgetFacts ==
  ASSUME NEW c \in Seq(CacheEntry), NEW site \in Site, Unique(c),
         \A i \in DOMAIN c : site \notin c[i].rewritten,
         NEW f, f = ForgetSite(c, site)
  PROVE  Forgotten(c, f, site)
<1>1. \A i \in DOMAIN c : c[i] \in CacheEntry
  OBVIOUS
<1>2. f = [i \in DOMAIN c |->
             [c[i] EXCEPT !.sites = (c[i].sites \ {site}) \cup c[i].rewritten]]
  BY <1>1 DEF ForgetSite, CacheEntry
<1>3. \A i \in DOMAIN c :
        /\ f[i] \in CacheEntry
        /\ f[i].request = c[i].request /\ f[i].drained = c[i].drained
        /\ f[i].rewritten = c[i].rewritten /\ f[i].parent = c[i].parent
        /\ f[i].sites = (c[i].sites \ {site}) \cup c[i].rewritten
  BY <1>1, <1>2 DEF CacheEntry
<1>4. f \in Seq(CacheEntry) /\ Len(f) = Len(c) /\ DOMAIN f = DOMAIN c
  <2>1. f = [i \in DOMAIN c |-> f[i]]
    BY <1>2
  <2>. QED
    BY <2>1, <1>3, MappedSeq
<1>. QED
  BY <1>3, <1>4 DEF Unique, Forgotten

Fresh(entries, site) == \A i \in DOMAIN entries : site \notin entries[i].sites

\* What an entry is that a visit adds.
New(entry, call, own, parent, site) ==
    /\ entry.request \in {Inferred(call, own), Needed(call, own)}
    /\ ~entry.drained
    /\ entry.rewritten = {}
    /\ entry.sites \subseteq {site}
    /\ entry.parent \in {parent, Root}

LEMMA RecordFresh ==
  ASSUME NEW c \in Seq(CacheEntry), Unique(c), SitesApart(c), RewrittenAreSites(c),
         NEW request \in Request, NEW parent \in Nat, NEW site \in Site,
         Fresh(c, site), NEW r, r = Record(c, request, parent, site)
  PROVE  SitesApart(r) /\ RewrittenAreSites(r)
<1>1. /\ r \in Seq(CacheEntry) /\ Len(r) >= Len(c) /\ Unique(r)
      /\ \A i \in DOMAIN c :
           /\ Kept(c[i], r[i], site)
           /\ c[i].request # request => r[i].sites = c[i].sites
      /\ \A i \in DOMAIN r \ DOMAIN c : r[i] = Entry(request, parent, site)
  <2>1. Recorded(c, r, request, parent, site)
    BY RecordFacts
  <2>. QED
    BY <2>1 DEF Recorded
<1>2. \A i \in DOMAIN r :
        /\ site \in r[i].sites => r[i].request = request
        /\ i \in DOMAIN c => r[i].sites \ {site} = c[i].sites
        /\ i \notin DOMAIN c => r[i].sites \subseteq {site}
  BY <1>1 DEF Kept, Entry, Fresh
<1>3. SitesApart(r)
  <2> SUFFICES ASSUME NEW i \in DOMAIN r, NEW j \in DOMAIN r,
                      NEW t \in r[i].sites \cap r[j].sites
               PROVE  i = j
    BY DEF SitesApart
  <2>1. CASE t = site
    BY <2>1, <1>1, <1>2 DEF Unique
  <2>2. CASE t # site
    <3>1. i \in DOMAIN c /\ j \in DOMAIN c /\ t \in c[i].sites \cap c[j].sites
      BY <2>2, <1>2
    <3>. QED
      BY <3>1 DEF SitesApart
  <2>. QED
    BY <2>1, <2>2
<1>4. RewrittenAreSites(r)
  <2> SUFFICES ASSUME NEW i \in DOMAIN r
               PROVE  /\ r[i].rewritten \subseteq r[i].sites
                      /\ ~r[i].drained => r[i].rewritten = {}
    BY DEF RewrittenAreSites
  <2>1. CASE i \in DOMAIN c
    BY <2>1, <1>1 DEF Kept, RewrittenAreSites
  <2>2. CASE i \notin DOMAIN c
    BY <2>2, <1>1 DEF Entry
  <2>. QED
    BY <2>1, <2>2
<1>. QED
  BY <1>3, <1>4

Seen(c, v, call, own, parent, site) ==
    /\ v \in Seq(CacheEntry)
    /\ Len(v) >= Len(c)
    /\ \A i \in DOMAIN c : Kept(c[i], v[i], site)
    /\ \A i \in DOMAIN v \ DOMAIN c : New(v[i], call, own, parent, site)
    /\ Unique(v) /\ SitesApart(v) /\ RewrittenAreSites(v)
    /\ \E j \in DOMAIN v :
         v[j].request = Needed(call, own) /\ site \in v[j].sites

LEMMA VisitFacts ==
  ASSUME NEW c \in Seq(CacheEntry), Unique(c), SitesApart(c), RewrittenAreSites(c),
         NEW call \in Call, NEW own \in Type, NEW parent \in Nat, NEW site \in Site,
         Fresh(c, site), NEW v, v = Visit(c, call, own, parent, site)
  PROVE  Seen(c, v, call, own, parent, site)
<1>. USE DEF Seen
<1>a. PICK seen : seen = Record(c, Inferred(call, own), parent, site)
  OBVIOUS
<1>b. PICK f : f = ForgetSite(seen, site)
  OBVIOUS
<1>0. Inferred(call, own) \in Request /\ Needed(call, own) \in Request
  BY RequestTypes
<1>1. /\ seen \in Seq(CacheEntry) /\ Len(seen) >= Len(c) /\ Unique(seen)
      /\ \A i \in DOMAIN c : Kept(c[i], seen[i], site)
      /\ \A i \in DOMAIN seen \ DOMAIN c :
           seen[i] = Entry(Inferred(call, own), parent, site)
      /\ \E j \in DOMAIN seen :
           seen[j].request = Inferred(call, own) /\ site \in seen[j].sites
  <2>1. Recorded(c, seen, Inferred(call, own), parent, site)
    BY <1>0, <1>a, RecordFacts
  <2>. QED
    BY <2>1 DEF Recorded
<1>2. SitesApart(seen) /\ RewrittenAreSites(seen)
  BY <1>0, <1>a, RecordFresh
<1>3. CASE ~Widens(call, own)
  <2>1. v = seen /\ Needed(call, own) = Inferred(call, own)
    BY <1>a, <1>3 DEF Visit, Needed
  <2>2. \A i \in DOMAIN seen \ DOMAIN c : New(seen[i], call, own, parent, site)
    BY <1>1 DEF New, Entry
  <2>. QED
    BY <2>1, <2>2, <1>1, <1>2
<1>4. CASE Widens(call, own)
  <2>1. v = Record(f, Needed(call, own), parent, site)
    BY <1>a, <1>b, <1>4 DEF Visit
  <2>2. \A i \in DOMAIN seen : site \notin seen[i].rewritten
    <3> SUFFICES ASSUME NEW i \in DOMAIN seen PROVE site \notin seen[i].rewritten
      OBVIOUS
    <3>1. CASE i \in DOMAIN c
      BY <3>1, <1>1 DEF Kept, RewrittenAreSites, Fresh
    <3>2. CASE i \notin DOMAIN c
      BY <3>2, <1>1 DEF Entry
    <3>. QED
      BY <3>1, <3>2
  <2>3. /\ f \in Seq(CacheEntry) /\ Len(f) = Len(seen) /\ Unique(f)
        /\ \A i \in DOMAIN seen :
             /\ f[i].request = seen[i].request /\ f[i].drained = seen[i].drained
             /\ f[i].rewritten = seen[i].rewritten /\ f[i].parent = seen[i].parent
             /\ f[i].sites = (seen[i].sites \ {site}) \cup seen[i].rewritten
             /\ site \notin f[i].sites
    <3>1. Forgotten(seen, f, site)
      BY <1>1, <1>b, <2>2, ForgetFacts
    <3>. QED
      BY <3>1 DEF Forgotten
  <2>4. DOMAIN f = DOMAIN seen
    BY <2>3, <1>1
  <2>5. Fresh(f, site) /\ SitesApart(f) /\ RewrittenAreSites(f)
    <3>1. \A i \in DOMAIN f : f[i].sites \subseteq seen[i].sites
      BY <2>3, <2>4, <1>2 DEF RewrittenAreSites
    <3>. QED
      BY <3>1, <2>3, <2>4, <1>2 DEF Fresh, SitesApart, RewrittenAreSites
  <2>6. \A i \in DOMAIN c :
          /\ f[i].request = c[i].request /\ f[i].drained = c[i].drained
          /\ f[i].rewritten = c[i].rewritten /\ f[i].parent \in {c[i].parent, Root}
          /\ f[i].sites = c[i].sites
    <3> SUFFICES ASSUME NEW i \in DOMAIN c
                 PROVE  /\ f[i].request = c[i].request
                        /\ f[i].drained = c[i].drained
                        /\ f[i].rewritten = c[i].rewritten
                        /\ f[i].parent \in {c[i].parent, Root}
                        /\ f[i].sites = c[i].sites
      OBVIOUS
    <3>1. i \in DOMAIN seen
      BY <1>1
    <3>2. c[i].rewritten \subseteq c[i].sites /\ site \notin c[i].sites
      BY DEF RewrittenAreSites, Fresh
    <3>3. Kept(c[i], seen[i], site)
      BY <1>1
    <3>4. /\ f[i].request = seen[i].request /\ f[i].drained = seen[i].drained
          /\ f[i].rewritten = seen[i].rewritten /\ f[i].parent = seen[i].parent
          /\ f[i].sites = (seen[i].sites \ {site}) \cup seen[i].rewritten
      BY <3>1, <2>3
    <3>5. f[i].sites = c[i].sites
      BY <3>2, <3>3, <3>4 DEF Kept
    <3>. QED
      BY <3>3, <3>4, <3>5 DEF Kept
  <2>7. \A i \in DOMAIN f \ DOMAIN c :
          /\ f[i].request = Inferred(call, own) /\ ~f[i].drained
          /\ f[i].rewritten = {} /\ f[i].sites = {} /\ f[i].parent = parent
    <3> SUFFICES ASSUME NEW i \in DOMAIN f \ DOMAIN c
                 PROVE  /\ f[i].request = Inferred(call, own) /\ ~f[i].drained
                        /\ f[i].rewritten = {} /\ f[i].sites = {}
                        /\ f[i].parent = parent
      OBVIOUS
    <3>1. seen[i] = Entry(Inferred(call, own), parent, site)
      BY <2>4, <1>1
    <3>2. /\ f[i].request = seen[i].request /\ f[i].drained = seen[i].drained
          /\ f[i].rewritten = seen[i].rewritten /\ f[i].parent = seen[i].parent
          /\ f[i].sites = (seen[i].sites \ {site}) \cup seen[i].rewritten
      BY <2>3, <2>4
    <3>. QED
      BY <3>1, <3>2 DEF Entry
  <2>8. /\ v \in Seq(CacheEntry) /\ Len(v) >= Len(f) /\ Unique(v)
        /\ \A i \in DOMAIN f : Kept(f[i], v[i], site)
        /\ \A i \in DOMAIN v \ DOMAIN f :
             v[i] = Entry(Needed(call, own), parent, site)
        /\ \E j \in DOMAIN v :
             v[j].request = Needed(call, own) /\ site \in v[j].sites
    <3>1. Recorded(f, v, Needed(call, own), parent, site)
      BY <1>0, <2>1, <2>3, RecordFacts
    <3>. QED
      BY <3>1 DEF Recorded
  <2>9. SitesApart(v) /\ RewrittenAreSites(v)
    BY <1>0, <2>1, <2>3, <2>5, RecordFresh
  <2>10. DOMAIN c \subseteq DOMAIN f /\ Len(v) >= Len(c)
    BY <2>3, <2>8, <1>1
  <2>11. \A i \in DOMAIN c : Kept(c[i], v[i], site)
    BY <2>6, <2>8, <2>10 DEF Kept
  <2>12. \A i \in DOMAIN v \ DOMAIN c : New(v[i], call, own, parent, site)
    <3> SUFFICES ASSUME NEW i \in DOMAIN v \ DOMAIN c
                 PROVE  New(v[i], call, own, parent, site)
      OBVIOUS
    <3>1. CASE i \in DOMAIN f
      BY <3>1, <2>7, <2>8 DEF Kept, New
    <3>2. CASE i \notin DOMAIN f
      BY <3>2, <2>8 DEF Entry, New
    <3>. QED
      BY <3>1, <3>2
  <2>. QED
    BY <2>8, <2>9, <2>10, <2>11, <2>12
<1>. QED
  BY <1>3, <1>4

(***************************************************************************)
(* The inductive invariant                                                 *)
(***************************************************************************)
TypeInv ==
    /\ program \in Programs
    /\ cache \in Seq(CacheEntry)
    /\ asts \in Seq(Nat)
    /\ target \subseteq Site \X Nat
    /\ phase \in {"check", "sweep", "clone", "done", "failed"}
    /\ position \in Nat \ {0}
    /\ drain \in 1 .. 4
    /\ index \in Nat \ {0}
    /\ didWork \in BOOLEAN
    /\ progress \in BOOLEAN

\* What each phase is about to work on.
PhaseInv ==
    /\ phase = "check" => drain = 1 /\ index = 1
    /\ phase = "clone" => /\ index \in DOMAIN cache
                          /\ ~cache[index].drained
                          /\ cache[index].sites # {}

CacheInv == Unique(cache) /\ SitesApart(cache) /\ RewrittenAreSites(cache)

\* The sites in the cache are of calls visited.
SitesKnown ==
    phase # "failed" =>
      \A i \in DOMAIN cache : \A s \in cache[i].sites :
        \/ s[1] = Root /\ (phase = "check" => s[2] < position)
        \/ s[1] \in DOMAIN cache /\ cache[s[1]].drained
        \/ s[1] = index /\ phase = "clone" /\ s[2] < position

ClonesInv ==
    /\ \A k \in DOMAIN asts : asts[k] \in DOMAIN cache /\ cache[asts[k]].drained
    /\ \A j, k \in DOMAIN asts : asts[j] = asts[k] => j = k
    /\ \A i \in DOMAIN cache : cache[i].drained => \E k \in DOMAIN asts : asts[k] = i

ParentInv ==
    \A i \in DOMAIN cache : cache[i].parent # Root =>
      LET p == cache[i].parent
      IN  /\ p \in DOMAIN cache /\ p < i
          /\ cache[p].drained \/ (p = index /\ phase \in {"clone", "failed"})
          /\ CallsFor(p, i)

\* Every call visited has its site with the entry for the instance it needs.
At(site, request) ==
    \E i \in DOMAIN cache : cache[i].request = request /\ site \in cache[i].sites

Placed(code, calls, own, k) == At(<<code, k>>, Needed(calls[k], own))

CallsPlaced ==
    /\ \A k \in 1 .. Len(Code) :
         (phase = "check" => k < position) => Placed(Root, Code, IntType, k)
    /\ \A i \in DOMAIN cache : cache[i].drained =>
         \A k \in 1 .. Len(Body(i)) : Placed(i, Body(i), cache[i].request.type, k)
    /\ phase = "clone" =>
         \A k \in 1 .. Len(Body(index)) :
           k < position => Placed(index, Body(index), cache[index].request.type, k)

TargetInv ==
    /\ \A t \in target : t[2] \in DOMAIN cache /\ t[1] \in cache[t[2]].rewritten
    /\ \A i \in DOMAIN cache : \A s \in cache[i].rewritten : <<s, i>> \in target

\* A round that has done no work has settled what it has passed.
Settled(i) ==
    \/ cache[i].sites = {}
    \/ cache[i].drained /\ (KindOf(i) = "struct" \/ cache[i].rewritten = cache[i].sites)

Passed(i) ==
    \E d \in 1 .. 4 : /\ Drains[d] = KindOf(i)
                      /\ d < drain \/ (d = drain /\ i < index)

SettledInv ==
    /\ phase = "sweep" /\ ~progress /\ ~didWork =>
         \A i \in DOMAIN cache : Passed(i) => Settled(i)
    /\ phase = "done" => \A i \in DOMAIN cache : Settled(i)

IInv == /\ TypeInv /\ PhaseInv /\ CacheInv /\ SitesKnown /\ ClonesInv /\ ParentInv
        /\ CallsPlaced /\ TargetInv /\ SettledInv

LEMMA InitInv == Init => IInv
<1> SUFFICES ASSUME Init PROVE IInv
  OBVIOUS
<1>. USE DEF Init
<1>1. TypeInv
  <2>1. cache \in Seq(CacheEntry) /\ asts \in Seq(Nat)
    OBVIOUS
  <2>2. target \subseteq Site \X Nat /\ didWork \in BOOLEAN /\ progress \in BOOLEAN
    OBVIOUS
  <2>3. position \in Nat \ {0} /\ drain \in 1 .. 4 /\ index \in Nat \ {0}
    OBVIOUS
  <2>4. program \in Programs /\ phase \in {"check", "sweep", "clone", "done", "failed"}
    OBVIOUS
  <2>. QED
    BY <2>1, <2>2, <2>3, <2>4 DEF TypeInv
<1>4. PhaseInv /\ CacheInv
  BY DEF PhaseInv, CacheInv, Unique, SitesApart, RewrittenAreSites
<1>2. SitesKnown /\ ClonesInv /\ ParentInv /\ TargetInv /\ SettledInv
  BY DEF SitesKnown, ClonesInv, ParentInv, TargetInv, SettledInv
<1>3. CallsPlaced
  BY DEF CallsPlaced
<1>. QED
  BY <1>1, <1>2, <1>3, <1>4 DEF IInv

LEMMA Bodies ==
  ASSUME TypeInv
  PROVE  /\ Code \in Seq(Call)
         /\ \A i \in DOMAIN cache :
              /\ Body(i) \in Seq(Call)
              /\ cache[i] \in CacheEntry
              /\ cache[i].request.type \in Type
<1>1. \A i \in DOMAIN cache : cache[i] \in CacheEntry
  BY DEF TypeInv
<1>2. \A i \in DOMAIN cache :
        cache[i].request.type \in Type /\ cache[i].request.to \in Template
  BY <1>1 DEF CacheEntry, Request
<1>. QED
  BY <1>1, <1>2, ProgramAssumption DEF TypeInv, Code, Body

(***************************************************************************)
(* Steps that leave cache, clones and targets alone                        *)
(***************************************************************************)
Quiet == UNCHANGED <<program, cache, asts, target>>

LEMMA QuietKeeps ==
  ASSUME IInv, Quiet
  PROVE  CacheInv' /\ ClonesInv' /\ TargetInv'
BY DEF IInv, Quiet, CacheInv, Unique, SitesApart, RewrittenAreSites, ClonesInv, TargetInv

LEMMA SkipStep == IInv /\ Skip => IInv'
<1> SUFFICES ASSUME IInv, Skip PROVE IInv'
  OBVIOUS
<1>1. CacheInv' /\ ClonesInv' /\ TargetInv'
  BY QuietKeeps DEF Skip, Quiet
<1>2. TypeInv' /\ PhaseInv'
  BY DEF IInv, TypeInv, PhaseInv, Skip, Sweeping
<1>3. SitesKnown'
  BY DEF IInv, SitesKnown, Skip, Sweeping
<1>4. ParentInv'
  BY DEF IInv, ParentInv, CallsFor, Body, Skip, Sweeping
<1>5. CallsPlaced'
  BY DEF IInv, CallsPlaced, Placed, At, Code, Body, Skip, Sweeping
<1>6. SettledInv'
  <2>1. Settled(index) \/ ~Owns(index)
    BY DEF Skip, Sees, Settled
  <2>2. ~progress /\ ~didWork =>
          \A i \in DOMAIN cache : Passed(i)' => Settled(i)
    <3> SUFFICES ASSUME ~progress, ~didWork, NEW i \in DOMAIN cache, Passed(i)'
                 PROVE  Settled(i)
      OBVIOUS
    <3>1. CASE Passed(i)
      BY <3>1 DEF IInv, SettledInv, Skip, Sweeping
    <3>2. CASE ~Passed(i)
      <4>1. i = index /\ Owns(i)
        BY <3>2 DEF Passed, Owns, Skip, KindOf, IInv, TypeInv
      <4>. QED
        BY <4>1, <2>1
    <3>. QED
      BY <3>1, <3>2
  <2>3. \A i \in DOMAIN cache : Settled(i)' <=> Settled(i)
    BY DEF Skip, Settled, KindOf
  <2>. QED
    BY <2>2, <2>3 DEF SettledInv, Skip, Sweeping
<1>. QED
  BY <1>1, <1>2, <1>3, <1>4, <1>5, <1>6 DEF IInv

LEMMA StartDrainingStep == IInv /\ StartDraining => IInv'
<1> SUFFICES ASSUME IInv, StartDraining PROVE IInv'
  OBVIOUS
<1>. USE DEF StartDraining, ToInstantiate, Sweeping, Swept
<1>1. CacheInv' /\ ClonesInv' /\ TargetInv'
  BY QuietKeeps DEF Quiet
<1>2. TypeInv' /\ PhaseInv'
  BY DEF IInv, TypeInv, PhaseInv, Drains
<1>3. SitesKnown'
  BY DEF IInv, SitesKnown, PhaseInv
<1>4. ParentInv'
  BY DEF IInv, ParentInv, CallsFor, Body
<1>5. CallsPlaced'
  BY DEF IInv, TypeInv, CallsPlaced, Placed, At, Code, Body
<1>6. SettledInv'
  <2>1. \A i \in DOMAIN cache : ~Passed(i)'
    BY DEF IInv, TypeInv, PhaseInv, Passed
  <2>. QED
    BY <2>1 DEF SettledInv
<1>. QED
  BY <1>1, <1>2, <1>3, <1>4, <1>5, <1>6 DEF IInv

LEMMA RaiseLimitStep == IInv /\ RaiseLimit => IInv'
<1> SUFFICES ASSUME IInv, RaiseLimit PROVE IInv'
  OBVIOUS
<1>. USE DEF RaiseLimit, ToInstantiate, Sweeping, Swept
<1>1. CacheInv' /\ ClonesInv' /\ TargetInv'
  BY QuietKeeps DEF Quiet
<1>2. TypeInv' /\ PhaseInv'
  BY DEF IInv, TypeInv, PhaseInv, Drains
<1>3. SitesKnown'
  BY DEF IInv, SitesKnown, PhaseInv
<1>4. ParentInv'
  BY DEF IInv, ParentInv, CallsFor, Body
<1>5. CallsPlaced'
  BY DEF IInv, TypeInv, CallsPlaced, Placed, At, Code, Body
<1>6. SettledInv'
  BY DEF SettledInv
<1>. QED
  BY <1>1, <1>2, <1>3, <1>4, <1>5, <1>6 DEF IInv

LEMMA StartCloneStep == IInv /\ StartClone => IInv'
<1> SUFFICES ASSUME IInv, StartClone PROVE IInv'
  OBVIOUS
<1>. USE DEF StartClone, ToInstantiate, Sweeping, Swept
<1>1. CacheInv' /\ ClonesInv' /\ TargetInv'
  BY QuietKeeps DEF Quiet
<1>2. TypeInv' /\ PhaseInv'
  BY DEF IInv, TypeInv, PhaseInv, Drains
<1>3. SitesKnown'
  BY DEF IInv, SitesKnown, PhaseInv
<1>4. ParentInv'
  BY DEF IInv, ParentInv, CallsFor, Body
<1>5. CallsPlaced'
  BY DEF IInv, TypeInv, CallsPlaced, Placed, At, Code, Body
<1>6. SettledInv'
  BY DEF SettledInv
<1>. QED
  BY <1>1, <1>2, <1>3, <1>4, <1>5, <1>6 DEF IInv

LEMMA NextDrainStep == IInv /\ NextDrain => IInv'
<1> SUFFICES ASSUME IInv, NextDrain PROVE IInv'
  OBVIOUS
<1>. USE DEF NextDrain, ToInstantiate, Sweeping, Swept
<1>1. CacheInv' /\ ClonesInv' /\ TargetInv'
  BY QuietKeeps DEF Quiet
<1>2. TypeInv' /\ PhaseInv'
  <2>1. Len(Drains) = 4
    BY DEF Drains
  <2>2. drain' \in 1 .. 4 /\ index' \in Nat \ {0}
    BY <2>1 DEF IInv, TypeInv
  <2>3. didWork' \in BOOLEAN /\ progress' \in BOOLEAN
    BY DEF IInv, TypeInv
  <2>. QED
    BY <2>2, <2>3 DEF IInv, TypeInv, PhaseInv
<1>3. SitesKnown'
  BY DEF IInv, SitesKnown, PhaseInv
<1>4. ParentInv'
  BY DEF IInv, ParentInv, CallsFor, Body
<1>5. CallsPlaced'
  BY DEF IInv, TypeInv, CallsPlaced, Placed, At, Code, Body
<1>6. SettledInv'
  <2>1. ASSUME progress' = FALSE, NEW i \in DOMAIN cache, Passed(i)'
        PROVE  Passed(i) /\ ~progress /\ ~didWork
    BY <2>1 DEF IInv, TypeInv, Passed, KindOf
  <2>2. \A i \in DOMAIN cache : Settled(i)' <=> Settled(i)
    BY DEF Settled, KindOf
  <2>. QED
    BY <2>1, <2>2 DEF IInv, SettledInv
<1>. QED
  BY <1>1, <1>2, <1>3, <1>4, <1>5, <1>6 DEF IInv

LEMMA NextRoundStep == IInv /\ NextRound => IInv'
<1> SUFFICES ASSUME IInv, NextRound PROVE IInv'
  OBVIOUS
<1>. USE DEF NextRound, ToInstantiate, Sweeping, Swept
<1>1. CacheInv' /\ ClonesInv' /\ TargetInv'
  BY QuietKeeps DEF Quiet
<1>2. TypeInv' /\ PhaseInv'
  <2>1. Len(Drains) = 4
    BY DEF Drains
  <2>2. drain' \in 1 .. 4 /\ index' \in Nat \ {0}
    BY <2>1 DEF IInv, TypeInv
  <2>3. didWork' \in BOOLEAN /\ progress' \in BOOLEAN
    BY DEF IInv, TypeInv
  <2>. QED
    BY <2>2, <2>3 DEF IInv, TypeInv, PhaseInv
<1>3. SitesKnown'
  BY DEF IInv, SitesKnown, PhaseInv
<1>4. ParentInv'
  BY DEF IInv, ParentInv, CallsFor, Body
<1>5. CallsPlaced'
  BY DEF IInv, TypeInv, CallsPlaced, Placed, At, Code, Body
<1>6. SettledInv'
  <2>1. \A i \in DOMAIN cache : ~Passed(i)'
    BY DEF IInv, TypeInv, Passed
  <2>. QED
    BY <2>1 DEF SettledInv
<1>. QED
  BY <1>1, <1>2, <1>3, <1>4, <1>5, <1>6 DEF IInv

LEMMA StopDrainingStep == IInv /\ StopDraining => IInv'
<1> SUFFICES ASSUME IInv, StopDraining PROVE IInv'
  OBVIOUS
<1>. USE DEF StopDraining, ToInstantiate, Sweeping, Swept
<1>1. CacheInv' /\ ClonesInv' /\ TargetInv'
  BY QuietKeeps DEF Quiet
<1>2. TypeInv' /\ PhaseInv'
  BY DEF IInv, TypeInv, PhaseInv, Drains
<1>3. SitesKnown'
  BY DEF IInv, SitesKnown, PhaseInv
<1>4. ParentInv'
  BY DEF IInv, ParentInv, CallsFor, Body
<1>5. CallsPlaced'
  BY DEF IInv, TypeInv, CallsPlaced, Placed, At, Code, Body
<1>6. SettledInv'
  <2>1. ASSUME NEW i \in DOMAIN cache PROVE Passed(i)
    BY KindAssumption, Bodies DEF IInv, TypeInv, Passed, KindOf, Drains, CacheEntry, Request
  <2>2. \A i \in DOMAIN cache : Settled(i)' <=> Settled(i)
    BY DEF Settled, KindOf
  <2>. QED
    BY <2>1, <2>2 DEF IInv, SettledInv
<1>. QED
  BY <1>1, <1>2, <1>3, <1>4, <1>5, <1>6 DEF IInv

(***************************************************************************)
(* Steps that drain an entry or rewrite its sites                          *)
(***************************************************************************)
Touched ==
    /\ index \in DOMAIN cache
    /\ cache' \in Seq(CacheEntry)
    /\ Len(cache') = Len(cache)
    /\ \A i \in DOMAIN cache :
         /\ cache'[i].request = cache[i].request
         /\ cache'[i].parent = cache[i].parent
         /\ cache'[i].sites = cache[i].sites
         /\ cache'[i].drained = (cache[i].drained \/ i = index)
         /\ cache'[i].rewritten = IF i = index /\ KindOf(index) # "struct"
                                    THEN cache[i].sites ELSE cache[i].rewritten
    /\ target' = IF KindOf(index) = "struct" THEN target ELSE Retarget(index)
    /\ program' = program

LEMMA TouchedByRewrite ==
  ASSUME IInv, RewriteLateSites
  PROVE  Touched
<1>1. index \in DOMAIN cache /\ cache[index] \in CacheEntry
  BY DEF IInv, TypeInv, RewriteLateSites, Sweeping
<1>2. \A i \in DOMAIN cache : cache[i] \in CacheEntry
  BY DEF IInv, TypeInv
<1>3. cache' = [i \in DOMAIN cache |->
                  IF i = index THEN [cache[i] EXCEPT !.rewritten = cache[i].sites]
                               ELSE cache[i]]
  BY <1>1 DEF RewriteLateSites
<1>4. \A i \in DOMAIN cache : cache'[i] \in CacheEntry
  BY <1>2, <1>3 DEF CacheEntry
<1>5. cache' \in Seq(CacheEntry) /\ Len(cache') = Len(cache)
  <2>1. cache' = [i \in DOMAIN cache |-> cache'[i]]
    BY <1>3
  <2>2. cache \in Seq(CacheEntry)
    BY DEF IInv, TypeInv
  <2>. QED
    BY <2>1, <2>2, <1>4, MappedSeq
<1>6. \A i \in DOMAIN cache :
         /\ cache'[i].request = cache[i].request
         /\ cache'[i].parent = cache[i].parent
         /\ cache'[i].sites = cache[i].sites
         /\ cache'[i].drained = (cache[i].drained \/ i = index)
         /\ cache'[i].rewritten = IF i = index /\ KindOf(index) # "struct"
                                    THEN cache[i].sites ELSE cache[i].rewritten
  BY <1>2, <1>3 DEF CacheEntry, RewriteLateSites
<1>. QED
  BY <1>1, <1>5, <1>6 DEF Touched, RewriteLateSites

LEMMA TouchedByFinish ==
  ASSUME IInv, FinishClone
  PROVE  Touched
<1>1. index \in DOMAIN cache /\ cache \in Seq(CacheEntry)
  BY DEF IInv, TypeInv, PhaseInv, FinishClone
<1>2. \A i \in DOMAIN cache : cache[i] \in CacheEntry
  BY DEF IInv, TypeInv
<1>3. CASE KindOf(index) = "struct"
  <2>1. cache' = [i \in DOMAIN cache |->
                    IF i = index THEN [cache[i] EXCEPT !.drained = TRUE]
                                 ELSE cache[i]]
    BY <1>1, <1>3 DEF FinishClone
  <2>2. \A i \in DOMAIN cache : cache'[i] \in CacheEntry
    BY <1>2, <2>1 DEF CacheEntry
  <2>3. cache' \in Seq(CacheEntry) /\ Len(cache') = Len(cache)
    <3>1. cache' = [i \in DOMAIN cache |-> cache'[i]]
      BY <2>1
    <3>. QED
      BY <3>1, <1>1, <2>2, MappedSeq
  <2>4. \A i \in DOMAIN cache :
           /\ cache'[i].request = cache[i].request
           /\ cache'[i].parent = cache[i].parent
           /\ cache'[i].sites = cache[i].sites
           /\ cache'[i].drained = (cache[i].drained \/ i = index)
           /\ cache'[i].rewritten = cache[i].rewritten
    BY <1>2, <2>1 DEF CacheEntry
  <2>. QED
    BY <1>1, <1>3, <2>3, <2>4 DEF Touched, FinishClone
<1>4. CASE KindOf(index) # "struct"
  <2>1. cache' = [i \in DOMAIN cache |->
                    IF i = index
                      THEN [cache[i] EXCEPT !.drained = TRUE,
                                            !.rewritten = cache[i].sites]
                      ELSE cache[i]]
    BY <1>1, <1>4 DEF FinishClone
  <2>2. \A i \in DOMAIN cache : cache'[i] \in CacheEntry
    BY <1>2, <2>1 DEF CacheEntry
  <2>3. cache' \in Seq(CacheEntry) /\ Len(cache') = Len(cache)
    <3>1. cache' = [i \in DOMAIN cache |-> cache'[i]]
      BY <2>1
    <3>. QED
      BY <3>1, <1>1, <2>2, MappedSeq
  <2>4. \A i \in DOMAIN cache :
           /\ cache'[i].request = cache[i].request
           /\ cache'[i].parent = cache[i].parent
           /\ cache'[i].sites = cache[i].sites
           /\ cache'[i].drained = (cache[i].drained \/ i = index)
           /\ cache'[i].rewritten = IF i = index THEN cache[i].sites
                                                 ELSE cache[i].rewritten
    BY <1>2, <2>1 DEF CacheEntry
  <2>. QED
    BY <1>1, <1>4, <2>3, <2>4 DEF Touched, FinishClone
<1>. QED
  BY <1>3, <1>4

LEMMA TouchedKeeps ==
  ASSUME IInv, Touched
  PROVE  /\ CacheInv' /\ TargetInv' /\ target' \subseteq Site \X Nat
         /\ \A i \in DOMAIN cache : Settled(i) \/ i = index => Settled(i)'
<1>. USE DEF Touched
<1>1. DOMAIN cache' = DOMAIN cache
  BY DEF IInv, TypeInv
<1>2. \A i \in DOMAIN cache : KindOf(i)' = KindOf(i)
  BY <1>1 DEF KindOf
<1>3. CacheInv'
  BY <1>1 DEF IInv, CacheInv, Unique, SitesApart, RewrittenAreSites
<1>4. \A i \in DOMAIN cache : Settled(i) \/ i = index => Settled(i)'
  <2> SUFFICES ASSUME NEW i \in DOMAIN cache, Settled(i) \/ i = index
               PROVE  Settled(i)'
    OBVIOUS
  <2>1. CASE i = index
    BY <2>1, <1>2 DEF Settled
  <2>2. CASE i # index
    BY <2>2, <1>2 DEF Settled
  <2>. QED
    BY <2>1, <2>2
<1>5. CASE KindOf(index) = "struct"
  BY <1>1, <1>5, <1>3, <1>4 DEF IInv, TypeInv, TargetInv
<1>6. CASE KindOf(index) # "struct"
  <2>1. target' = target \cup {<<site, index>> : site \in cache[index].sites \
                                                          cache[index].rewritten}
    <3>1. \A t \in target : t[1] \notin cache[index].sites \ cache[index].rewritten
      BY DEF IInv, TargetInv, CacheInv, SitesApart, RewrittenAreSites
    <3>. QED
      BY <3>1, <1>6 DEF Retarget
  <2>2. target' \subseteq Site \X Nat
    <3>1. cache[index] \in CacheEntry /\ index \in Nat
      BY DEF IInv, TypeInv
    <3>. QED
      BY <3>1, <2>1 DEF IInv, TypeInv, CacheEntry
  <2>3. TargetInv'
    <3>1. ASSUME NEW t \in target'
          PROVE  t[2] \in DOMAIN cache /\ t[1] \in cache'[t[2]].rewritten
      <4>1. CASE t \in target
        BY <4>1, <1>6 DEF IInv, TargetInv, CacheInv, RewrittenAreSites
      <4>2. CASE t \notin target
        BY <4>2, <2>1, <1>6
      <4>. QED
        BY <4>1, <4>2
    <3>2. ASSUME NEW i \in DOMAIN cache, NEW s \in cache'[i].rewritten
          PROVE  <<s, i>> \in target'
      <4>1. CASE s \in cache[i].rewritten
        BY <4>1, <2>1 DEF IInv, TargetInv
      <4>2. CASE s \notin cache[i].rewritten
        BY <4>2, <2>1, <1>6
      <4>. QED
        BY <4>1, <4>2
    <3>. QED
      BY <3>1, <3>2, <1>1 DEF TargetInv
  <2>. QED
    BY <2>2, <2>3, <1>3, <1>4
<1>. QED
  BY <1>5, <1>6

\* What was placed stays so, and nothing else is asked for by the entries.
LEMMA TouchedPlaces ==
  ASSUME IInv, Touched
  PROVE  /\ DOMAIN cache' = DOMAIN cache
         /\ Code' = Code
         /\ \A i \in DOMAIN cache :
              /\ cache'[i].request = cache[i].request
              /\ program'.body[cache'[i].request.to] = program.body[cache[i].request.to]
         /\ \A site, request : At(site, request) => At(site, request)'
<1>. USE DEF Touched
<1>1. DOMAIN cache' = DOMAIN cache
  BY DEF IInv, TypeInv
<1>. QED
  BY <1>1 DEF At, Code

LEMMA RewriteLateSitesStep == IInv /\ RewriteLateSites => IInv'
<1> SUFFICES ASSUME IInv, RewriteLateSites PROVE IInv'
  OBVIOUS
<1>1. Touched
  BY TouchedByRewrite
<1>2. /\ CacheInv' /\ TargetInv' /\ target' \subseteq Site \X Nat
      /\ \A i \in DOMAIN cache : Settled(i) \/ i = index => Settled(i)'
  BY <1>1, TouchedKeeps
<1>3. /\ DOMAIN cache' = DOMAIN cache
      /\ Code' = Code
      /\ \A i \in DOMAIN cache :
           /\ cache'[i].request = cache[i].request
           /\ program'.body[cache'[i].request.to] = program.body[cache[i].request.to]
      /\ \A site, request : At(site, request) => At(site, request)'
  BY <1>1, TouchedPlaces
<1>4. /\ index \in DOMAIN cache /\ cache[index].drained
      /\ phase = "sweep" /\ index' = index + 1
      /\ UNCHANGED <<program, asts, phase, position, drain, didWork, progress>>
  BY <1>1 DEF RewriteLateSites, Sweeping, Touched
<1>5. \A i \in DOMAIN cache :
        /\ cache'[i].sites = cache[i].sites
        /\ cache'[i].drained = cache[i].drained
        /\ cache'[i].parent = cache[i].parent
  BY <1>1, <1>4, Bodies DEF Touched, IInv, CacheEntry
<1>6. TypeInv' /\ PhaseInv'
  BY <1>1, <1>2, <1>4 DEF Touched, IInv, TypeInv, PhaseInv
<1>7. SitesKnown'
  BY <1>3, <1>4, <1>5 DEF IInv, SitesKnown
<1>8. ClonesInv'
  BY <1>3, <1>4, <1>5 DEF IInv, ClonesInv
<1>9. ParentInv'
  BY <1>3, <1>4, <1>5 DEF IInv, ParentInv, CallsFor, Body
<1>10. CallsPlaced'
  BY <1>3, <1>4, <1>5 DEF IInv, CallsPlaced, Placed, Body
<1>11. SettledInv'
  <2> SUFFICES ASSUME ~progress, ~didWork, NEW i \in DOMAIN cache, Passed(i)'
               PROVE  Settled(i)'
    BY <1>3, <1>4 DEF SettledInv
  <2>1. Passed(i) \/ i = index
    BY <1>3, <1>4 DEF Passed, KindOf, IInv, TypeInv
  <2>. QED
    BY <2>1, <1>2, <1>4 DEF IInv, SettledInv
<1>. QED
  BY <1>2, <1>6, <1>7, <1>8, <1>9, <1>10, <1>11 DEF IInv

LEMMA FinishCloneStep == IInv /\ FinishClone => IInv'
<1> SUFFICES ASSUME IInv, FinishClone PROVE IInv'
  OBVIOUS
<1>1. Touched
  BY TouchedByFinish
<1>2. CacheInv' /\ TargetInv' /\ target' \subseteq Site \X Nat
  BY <1>1, TouchedKeeps
<1>3. /\ DOMAIN cache' = DOMAIN cache
      /\ Code' = Code
      /\ \A i \in DOMAIN cache :
           /\ cache'[i].request = cache[i].request
           /\ program'.body[cache'[i].request.to] = program.body[cache[i].request.to]
      /\ \A site, request : At(site, request) => At(site, request)'
  BY <1>1, TouchedPlaces
<1>4. /\ index \in DOMAIN cache /\ ~cache[index].drained
      /\ phase = "clone" /\ phase' = "sweep" /\ index' = index + 1
      /\ position > Len(Body(index)) /\ asts' = Append(asts, index)
      /\ UNCHANGED <<program, position, drain, progress>> /\ didWork' = TRUE
  BY DEF FinishClone, IInv, PhaseInv
<1>5. \A i \in DOMAIN cache :
        /\ cache'[i].sites = cache[i].sites
        /\ cache'[i].drained <=> (cache[i].drained \/ i = index)
        /\ cache'[i].parent = cache[i].parent
  BY <1>1 DEF Touched
<1>6. TypeInv' /\ PhaseInv'
  BY <1>1, <1>2, <1>4 DEF Touched, IInv, TypeInv, PhaseInv
<1>7. SitesKnown'
  BY <1>3, <1>4, <1>5 DEF IInv, SitesKnown
<1>8. ClonesInv'
  <2>1. /\ asts \in Seq(Nat) /\ DOMAIN asts' = DOMAIN asts \cup {Len(asts) + 1}
        /\ Len(asts) + 1 \notin DOMAIN asts /\ asts'[Len(asts) + 1] = index
        /\ \A k \in DOMAIN asts : asts'[k] = asts[k]
    BY <1>4 DEF IInv, TypeInv
  <2>2. \A k \in DOMAIN asts : asts[k] \in DOMAIN cache /\ cache[asts[k]].drained
    BY DEF IInv, ClonesInv
  <2>3. \A k \in DOMAIN asts' : asts'[k] \in DOMAIN cache' /\ cache'[asts'[k]].drained
    BY <2>1, <2>2, <1>3, <1>4, <1>5
  <2>4. \A k \in DOMAIN asts : asts[k] # index
    BY <2>2, <1>4
  <2>5. \A j, k \in DOMAIN asts' : asts'[j] = asts'[k] => j = k
    BY <2>1, <2>4 DEF IInv, ClonesInv
  <2>6. ASSUME NEW i \in DOMAIN cache, cache'[i].drained
        PROVE  \E k \in DOMAIN asts' : asts'[k] = i
    <3>1. CASE i = index
      BY <3>1, <2>1
    <3>2. CASE i # index
      BY <3>2, <2>1, <2>6, <1>5 DEF IInv, ClonesInv
    <3>. QED
      BY <3>1, <3>2
  <2>. QED
    BY <2>3, <2>5, <2>6, <1>3 DEF ClonesInv
<1>9. ParentInv'
  <2>1. \A i \in DOMAIN cache : cache[i].parent # Root =>
          /\ cache[i].parent \in DOMAIN cache /\ cache[i].parent < i
          /\ cache'[cache[i].parent].drained
          /\ CallsFor(cache[i].parent, i)
    BY <1>5 DEF IInv, ParentInv
  <2>2. \A i, p \in DOMAIN cache : CallsFor(p, i) =>
          \E call \in CallsOf(program'.body[cache'[p].request.to]) :
            cache'[i].request \in {Inferred(call, cache'[p].request.type),
                                  Needed(call, cache'[p].request.type)}
    BY <1>3 DEF CallsFor, Body
  <2>3. ASSUME NEW i \in DOMAIN cache', cache'[i].parent # Root
        PROVE  /\ cache'[i].parent \in DOMAIN cache' /\ cache'[i].parent < i
               /\ cache'[cache'[i].parent].drained
               /\ \E call \in CallsOf(program'.body[cache'[cache'[i].parent].request.to]) :
                    cache'[i].request \in
                      {Inferred(call, cache'[cache'[i].parent].request.type),
                       Needed(call, cache'[cache'[i].parent].request.type)}
    <3>1. i \in DOMAIN cache /\ cache'[i].parent = cache[i].parent
      BY <1>3, <1>5
    <3>. QED
      BY <2>1, <2>2, <2>3, <3>1, <1>3
  <2>. QED
    BY <2>3 DEF ParentInv, CallsFor, Body
<1>10. CallsPlaced'
  <2>1. \A k \in 1 .. Len(Code') : Placed(Root, Code, IntType, k)'
    BY <1>3, <1>4 DEF IInv, CallsPlaced, Placed
  <2>2. ASSUME NEW i \in DOMAIN cache, cache'[i].drained,
               NEW k \in 1 .. Len(Body(i))
        PROVE  Placed(i, Body(i), cache[i].request.type, k)
    <3>1. CASE i = index
      BY <3>1, <2>2, <1>4, Bodies DEF IInv, TypeInv, CallsPlaced
    <3>2. CASE i # index
      BY <3>2, <2>2, <1>5 DEF IInv, CallsPlaced
    <3>. QED
      BY <3>1, <3>2
  <2>3. \A i \in DOMAIN cache' : cache'[i].drained =>
          \A k \in 1 .. Len(Body(i)') :
            At(<<i, k>>, Needed(Body(i)[k], cache[i].request.type))'
    BY <2>2, <1>3 DEF Placed, Body
  <2>4. \A i \in DOMAIN cache' : cache'[i].drained =>
          \A k \in 1 .. Len(Body(i)') :
            Placed(i, Body(i), cache[i].request.type, k)'
    BY <2>3, <1>3 DEF Placed, Body
  <2>5. phase' # "clone"
    BY <1>4
  <2>. QED
    BY <2>1, <2>4, <2>5 DEF CallsPlaced
<1>11. SettledInv'
  BY <1>4 DEF SettledInv
<1>. QED
  BY <1>2, <1>6, <1>7, <1>8, <1>9, <1>10, <1>11 DEF IInv

(***************************************************************************)
(* Steps that visit a call                                                 *)
(***************************************************************************)
\* What a visit at `site`, in code whose entry is `parent`, leaves of the cache.
Visited(call, own, parent, site) ==
    /\ cache' \in Seq(CacheEntry)
    /\ DOMAIN cache \subseteq DOMAIN cache'
    /\ \A i \in DOMAIN cache :
         /\ Kept(cache[i], cache'[i], site)
         /\ program'.body[cache'[i].request.to] = program.body[cache[i].request.to]
    /\ \A i \in DOMAIN cache' \ DOMAIN cache : New(cache'[i], call, own, parent, site)
    /\ \A s, request : At(s, request) => At(s, request)'
    /\ At(site, Needed(call, own))'
    /\ Code' = Code

LEMMA VisitKeeps ==
  ASSUME IInv, NEW call \in Call, NEW own \in Type, NEW parent \in Nat,
         NEW site \in Site, Fresh(cache, site),
         cache' = Visit(cache, call, own, parent, site),
         UNCHANGED <<program, asts, target>>
  PROVE  /\ Visited(call, own, parent, site)
         /\ CacheInv' /\ ClonesInv' /\ TargetInv'
<1>1. /\ cache' \in Seq(CacheEntry)
      /\ Len(cache') >= Len(cache)
      /\ \A i \in DOMAIN cache : Kept(cache[i], cache'[i], site)
      /\ \A i \in DOMAIN cache' \ DOMAIN cache :
           New(cache'[i], call, own, parent, site)
      /\ Unique(cache') /\ SitesApart(cache') /\ RewrittenAreSites(cache')
      /\ \E j \in DOMAIN cache' :
           cache'[j].request = Needed(call, own) /\ site \in cache'[j].sites
  <2>1. /\ cache \in Seq(CacheEntry)
        /\ Unique(cache) /\ SitesApart(cache) /\ RewrittenAreSites(cache)
    BY DEF IInv, TypeInv, CacheInv
  <2>2. Seen(cache, cache', call, own, parent, site)
    BY <2>1, VisitFacts
  <2>. QED
    BY <2>2 DEF Seen
<1>2. DOMAIN cache \subseteq DOMAIN cache'
  BY <1>1 DEF IInv, TypeInv
<1>3. \A s, request : At(s, request) => At(s, request)'
  BY <1>1, <1>2 DEF At, Kept
<1>4. At(site, Needed(call, own))'
  BY <1>1 DEF At
<1>5. CacheInv'
  BY <1>1 DEF CacheInv
<1>6. ClonesInv'
  <2>1. \A i \in DOMAIN cache' : cache'[i].drained => i \in DOMAIN cache
    BY <1>1 DEF New
  <2>2. \A i \in DOMAIN cache : cache'[i].drained = cache[i].drained
    BY <1>1 DEF Kept
  <2>. QED
    BY <2>1, <2>2, <1>2 DEF IInv, ClonesInv
<1>7. TargetInv'
  <2>1. \A i \in DOMAIN cache' \ DOMAIN cache : cache'[i].rewritten = {}
    BY <1>1 DEF New
  <2>2. \A i \in DOMAIN cache : cache'[i].rewritten = cache[i].rewritten
    BY <1>1 DEF Kept
  <2>. QED
    BY <2>1, <2>2, <1>2 DEF IInv, TargetInv
<1>8. Code' = Code
  BY DEF Code
<1>9. \A i \in DOMAIN cache :
        program'.body[cache'[i].request.to] = program.body[cache[i].request.to]
  BY <1>1 DEF Kept
<1>. QED
  BY <1>1, <1>2, <1>3, <1>4, <1>5, <1>6, <1>7, <1>8, <1>9 DEF Visited

LEMMA VisitedKeeps ==
  ASSUME IInv, NEW call \in Call, NEW own \in Type, NEW parent \in Nat,
         NEW site \in Site, Visited(call, own, parent, site)
  PROVE  /\ \A k \in 1 .. Len(Code) : Placed(Root, Code, IntType, k) =>
              Placed(Root, Code, IntType, k)'
         /\ \A i \in DOMAIN cache' : cache'[i].drained =>
              \A k \in 1 .. Len(Body(i)') :
                 At(<<i, k>>, Needed(Body(i)[k], cache[i].request.type))'
         /\ \A i \in DOMAIN cache' : \A s \in cache'[i].sites :
              s # site => i \in DOMAIN cache /\ s \in cache[i].sites
         /\ \A i \in DOMAIN cache : \A p \in DOMAIN cache : CallsFor(p, i) =>
              \E c \in CallsOf(program'.body[cache'[p].request.to]) :
                cache'[i].request \in {Inferred(c, cache'[p].request.type),
                                     Needed(c, cache'[p].request.type)}
<1>. USE DEF Visited
<1>1. \A k \in 1 .. Len(Code) : Placed(Root, Code, IntType, k) =>
        Placed(Root, Code, IntType, k)'
  BY DEF Placed
<1>2. ASSUME NEW i \in DOMAIN cache', cache'[i].drained,
             NEW k \in 1 .. Len(Body(i)')
      PROVE  At(<<i, k>>, Needed(Body(i)[k], cache[i].request.type))'
  <2>1. i \in DOMAIN cache /\ cache[i].drained /\ cache'[i].request = cache[i].request
    BY <1>2 DEF New, Kept
  <2>2. Body(i)' = Body(i)
    BY <2>1 DEF Body
  <2>3. At(<<i, k>>, Needed(Body(i)[k], cache[i].request.type))
    BY <2>1, <2>2, <1>2 DEF IInv, CallsPlaced, Placed
  <2>. QED
    BY <2>1, <2>2, <2>3
<1>3. \A i \in DOMAIN cache' : \A s \in cache'[i].sites :
        s # site => i \in DOMAIN cache /\ s \in cache[i].sites
  BY DEF New, Kept
<1>4. \A i \in DOMAIN cache : \A p \in DOMAIN cache : CallsFor(p, i) =>
        \E c \in CallsOf(program'.body[cache'[p].request.to]) :
          cache'[i].request \in {Inferred(c, cache'[p].request.type),
                               Needed(c, cache'[p].request.type)}
  <2>1. \A i \in DOMAIN cache : cache'[i].request = cache[i].request
    BY DEF Kept
  <2>. QED
    BY <2>1 DEF CallsFor, Body
<1>. QED
  BY <1>1, <1>2, <1>3, <1>4

LEMMA CheckCallStep == IInv /\ CheckCall => IInv'
<1> SUFFICES ASSUME IInv, CheckCall PROVE IInv'
  OBVIOUS
<1>a. PICK call : call = Code[position]
  OBVIOUS
<1>b. PICK site : site = <<Root, position>>
  OBVIOUS
<1>1. /\ phase = "check" /\ position \in 1 .. Len(Code)
      /\ cache' = Visit(cache, call, IntType, Root, site)
      /\ position' = position + 1
      /\ UNCHANGED <<program, asts, target, phase, drain, index, didWork, progress>>
  BY <1>a, <1>b, Bodies DEF CheckCall, IInv, TypeInv
<1>2. call \in Call /\ IntType \in Type /\ Root \in Nat /\ site \in Site
  BY <1>a, <1>b, <1>1, Bodies DEF IInv, Type, IntType, Root, Site
<1>3. Fresh(cache, site)
  BY <1>b, <1>1 DEF IInv, TypeInv, SitesKnown, Fresh, Root
<1>4. /\ Visited(call, IntType, Root, site)
      /\ CacheInv' /\ ClonesInv' /\ TargetInv'
  BY <1>1, <1>2, <1>3, VisitKeeps
<1>5. /\ \A k \in 1 .. Len(Code) : Placed(Root, Code, IntType, k) =>
           Placed(Root, Code, IntType, k)'
      /\ \A i \in DOMAIN cache' : cache'[i].drained =>
           \A k \in 1 .. Len(Body(i)') :
              At(<<i, k>>, Needed(Body(i)[k], cache[i].request.type))'
      /\ \A i \in DOMAIN cache' : \A s \in cache'[i].sites :
           s # site => i \in DOMAIN cache /\ s \in cache[i].sites
      /\ \A i \in DOMAIN cache : \A p \in DOMAIN cache : CallsFor(p, i) =>
           \E c \in CallsOf(program'.body[cache'[p].request.to]) :
             cache'[i].request \in {Inferred(c, cache'[p].request.type),
                                  Needed(c, cache'[p].request.type)}
  BY <1>2, <1>4, VisitedKeeps
<1>6. TypeInv' /\ PhaseInv'
  BY <1>1, <1>4 DEF Visited, IInv, TypeInv, PhaseInv
<1>7. SitesKnown'
  <2> SUFFICES ASSUME NEW i \in DOMAIN cache', NEW s \in cache'[i].sites
               PROVE  \/ s[1] = Root /\ s[2] < position'
                      \/ s[1] \in DOMAIN cache' /\ cache'[s[1]].drained
    BY DEF SitesKnown
  <2>1. CASE s = site
    BY <2>1, <1>b, <1>1 DEF IInv, TypeInv
  <2>2. CASE s # site
    <3>1. \/ s[1] = Root /\ s[2] < position
          \/ s[1] \in DOMAIN cache /\ cache[s[1]].drained
      BY <2>2, <1>1, <1>5 DEF IInv, SitesKnown
    <3>2. s[2] \in Nat
      BY <2>2, <1>5, Bodies DEF IInv, CacheEntry, Site
    <3>3. CASE s[1] = Root /\ s[2] < position
      BY <3>2, <3>3, <1>1 DEF IInv, TypeInv
    <3>4. CASE s[1] \in DOMAIN cache /\ cache[s[1]].drained
      BY <3>4, <1>4 DEF Visited, Kept
    <3>. QED
      BY <3>1, <3>3, <3>4
  <2>. QED
    BY <2>1, <2>2
<1>8. ParentInv'
  <2>1. ASSUME NEW i \in DOMAIN cache', cache'[i].parent # Root
        PROVE  /\ i \in DOMAIN cache /\ cache'[i].parent = cache[i].parent
               /\ cache[i].parent # Root
    BY <2>1, <1>4 DEF Visited, New, Kept
  <2>2. \A i \in DOMAIN cache : cache[i].parent # Root =>
          /\ cache[i].parent \in DOMAIN cache /\ cache[i].parent < i
          /\ cache[cache[i].parent].drained
          /\ CallsFor(cache[i].parent, i)
    BY <1>1 DEF IInv, ParentInv
  <2>3. DOMAIN cache \subseteq DOMAIN cache' /\
        \A i \in DOMAIN cache : cache'[i].drained = cache[i].drained
    BY <1>4 DEF Visited, Kept
  <2>. QED
    BY <2>1, <2>2, <2>3, <1>5 DEF ParentInv, CallsFor, Body
<1>9. CallsPlaced'
  <2>1. Code' = Code /\ position \in Nat
    BY <1>4 DEF Visited, IInv, TypeInv
  <2>2. \A k : k = position => Placed(Root, Code, IntType, k)'
    BY <1>a, <1>b, <1>4, <2>1 DEF Visited, Placed
  <2>3. ASSUME NEW k \in 1 .. Len(Code'), k < position'
        PROVE  Placed(Root, Code, IntType, k)'
    <3>1. CASE k < position
      <4>1. k \in 1 .. Len(Code) /\ Placed(Root, Code, IntType, k)
        BY <2>1, <3>1, <1>1 DEF IInv, CallsPlaced
      <4>. QED
        BY <4>1, <1>5
    <3>2. CASE k = position
      BY <3>2, <2>2
    <3>3. k < position \/ k = position
      BY <2>1, <2>3, <1>1
    <3>. QED
      BY <3>1, <3>2, <3>3
  <2>4. \A i \in DOMAIN cache' : cache'[i].drained =>
          \A k \in 1 .. Len(Body(i)') :
            Placed(i, Body(i), cache[i].request.type, k)'
    BY <1>5 DEF Placed
  <2>. QED
    BY <2>3, <2>4, <1>1 DEF CallsPlaced
<1>10. SettledInv'
  BY <1>1 DEF SettledInv
<1>. QED
  BY <1>4, <1>6, <1>7, <1>8, <1>9, <1>10 DEF IInv

\* A call of the clone's body, also one that is found to be wrong.
VisitCloneCall ==
    /\ phase = "clone"
    /\ position <= Len(Body(index))
    /\ cache' = Visit(cache, CloneCall, CloneType, CurrentParent, <<index, position>>)
    /\ \/ phase' = "clone" /\ position' = position + 1
       \/ phase' = "failed" /\ position' = position
    /\ UNCHANGED <<program, asts, target, drain, index, didWork, progress>>

LEMMA VisitCloneCallStep == IInv /\ VisitCloneCall => IInv'
<1> SUFFICES ASSUME IInv, VisitCloneCall PROVE IInv'
  OBVIOUS
<1>a. PICK call : call = CloneCall
  OBVIOUS
<1>b. PICK own : own = CloneType
  OBVIOUS
<1>c. PICK parent : parent = CurrentParent
  OBVIOUS
<1>d. PICK site : site = <<index, position>>
  OBVIOUS
<1>1. /\ phase = "clone" /\ position \in 1 .. Len(Body(index)) /\ index \in DOMAIN cache
      /\ ~cache[index].drained /\ cache[index] \in CacheEntry
      /\ cache' = Visit(cache, call, own, parent, site)
      /\ UNCHANGED <<program, asts, target, drain, index, didWork, progress>>
  BY <1>a, <1>b, <1>c, <1>d, Bodies DEF VisitCloneCall, IInv, TypeInv, PhaseInv
<1>2. call \in Call /\ own \in Type /\ parent \in Nat /\ site \in Site
  BY <1>a, <1>b, <1>c, <1>d, <1>1, Bodies
  DEF IInv, TypeInv, CloneCall, CloneType, CurrentParent, Root, Site
<1>3. Fresh(cache, site)
  BY <1>d, <1>1 DEF IInv, TypeInv, SitesKnown, Fresh, Root
<1>4. /\ Visited(call, own, parent, site)
      /\ CacheInv' /\ ClonesInv' /\ TargetInv'
  BY <1>1, <1>2, <1>3, VisitKeeps
<1>5. /\ \A k \in 1 .. Len(Code) : Placed(Root, Code, IntType, k) =>
           Placed(Root, Code, IntType, k)'
      /\ \A i \in DOMAIN cache' : cache'[i].drained =>
           \A k \in 1 .. Len(Body(i)') :
              At(<<i, k>>, Needed(Body(i)[k], cache[i].request.type))'
      /\ \A i \in DOMAIN cache' : \A s \in cache'[i].sites :
           s # site => i \in DOMAIN cache /\ s \in cache[i].sites
      /\ \A i \in DOMAIN cache : \A p \in DOMAIN cache : CallsFor(p, i) =>
           \E c \in CallsOf(program'.body[cache'[p].request.to]) :
             cache'[i].request \in {Inferred(c, cache'[p].request.type),
                                  Needed(c, cache'[p].request.type)}
  BY <1>2, <1>4, VisitedKeeps
<1>6. /\ DOMAIN cache \subseteq DOMAIN cache' /\ cache' \in Seq(CacheEntry)
      /\ \A i \in DOMAIN cache :
           /\ cache'[i].request = cache[i].request
           /\ cache'[i].drained = cache[i].drained
           /\ cache[i].sites \subseteq cache'[i].sites
           /\ cache'[i].parent \in {cache[i].parent, Root}
      /\ \A i \in DOMAIN cache' \ DOMAIN cache :
           /\ cache'[i].request \in {Inferred(call, own), Needed(call, own)}
           /\ cache'[i].parent \in {parent, Root}
  BY <1>4 DEF Visited, Kept, New
<1>7. TypeInv' /\ PhaseInv'
  <2>1. /\ position' \in Nat \ {0}
        /\ phase' \in {"check", "sweep", "clone", "done", "failed"}
    BY DEF VisitCloneCall, IInv, TypeInv
  <2>2. cache'[index].sites # {} /\ ~cache'[index].drained /\ index \in DOMAIN cache'
    BY <1>1, <1>6 DEF IInv, PhaseInv
  <2>3. phase' # "check"
    BY DEF VisitCloneCall
  <2>. QED
    BY <1>1, <1>6, <2>1, <2>2, <2>3 DEF IInv, TypeInv, PhaseInv
<1>8. SitesKnown'
  <2> SUFFICES ASSUME phase' = "clone", position' = position + 1,
                      NEW i \in DOMAIN cache', NEW s \in cache'[i].sites
               PROVE  \/ s[1] = Root
                      \/ s[1] \in DOMAIN cache' /\ cache'[s[1]].drained
                      \/ s[1] = index /\ s[2] < position'
    BY <1>1 DEF SitesKnown, VisitCloneCall
  <2>1. CASE s = site
    BY <2>1, <1>d, <1>1 DEF IInv, TypeInv
  <2>2. CASE s # site
    <3>1. \/ s[1] = Root
          \/ s[1] \in DOMAIN cache /\ cache[s[1]].drained
          \/ s[1] = index /\ s[2] < position
      BY <2>2, <1>1, <1>5 DEF IInv, SitesKnown
    <3>2. s[2] \in Nat
      BY <2>2, <1>5, Bodies DEF IInv, CacheEntry, Site
    <3>3. CASE s[1] = index /\ s[2] < position
      BY <3>2, <3>3 DEF IInv, TypeInv
    <3>4. CASE s[1] \in DOMAIN cache /\ cache[s[1]].drained
      BY <3>4, <1>6
    <3>. QED
      BY <3>1, <3>3, <3>4
  <2>. QED
    BY <2>1, <2>2
<1>9. ParentInv'
  <2>1. ASSUME NEW i \in DOMAIN cache', cache'[i].parent # Root
        PROVE  /\ cache'[i].parent \in DOMAIN cache' /\ cache'[i].parent < i
               /\ cache'[cache'[i].parent].drained \/ cache'[i].parent = index
               /\ \E c \in CallsOf(program'.body[cache'[cache'[i].parent].request.to]) :
                    cache'[i].request \in
                      {Inferred(c, cache'[cache'[i].parent].request.type),
                       Needed(c, cache'[cache'[i].parent].request.type)}
    <3>1. CASE i \in DOMAIN cache
      <4>1. cache'[i].parent = cache[i].parent /\ cache[i].parent # Root
        BY <2>1, <3>1, <1>6
      <4>2. /\ cache[i].parent \in DOMAIN cache /\ cache[i].parent < i
            /\ cache[cache[i].parent].drained \/ cache[i].parent = index
            /\ CallsFor(cache[i].parent, i)
        BY <3>1, <4>1 DEF IInv, ParentInv
      <4>. QED
        BY <3>1, <4>1, <4>2, <1>5, <1>6
    <3>2. CASE i \notin DOMAIN cache
      <4>1. cache'[i].parent = index
        BY <2>1, <3>2, <1>6, <1>c DEF CurrentParent
      <4>2. index < i
        BY <3>2, <1>1, <1>6 DEF IInv, TypeInv
      <4>3. call \in CallsOf(Body(index)) /\ own = cache[index].request.type
        BY <1>a, <1>b, <1>1, Bodies DEF IInv, CloneCall, CloneType, CallsOf
      <4>4. /\ cache'[index].request = cache[index].request
            /\ program'.body[cache'[index].request.to] = Body(index)
        BY <1>1, <1>6 DEF Body
      <4>5. cache'[i].request \in {Inferred(call, own), Needed(call, own)}
        BY <3>2, <1>6
      <4>6. index \in DOMAIN cache'
        BY <1>1, <1>6
      <4>. QED
        BY <4>1, <4>2, <4>3, <4>4, <4>5, <4>6
    <3>. QED
      BY <3>1, <3>2
  <2>2. phase' \in {"clone", "failed"} /\ index' = index
    BY <1>1 DEF VisitCloneCall
  <2>. QED
    BY <2>1, <2>2 DEF ParentInv, CallsFor, Body
<1>10. CallsPlaced'
  <2>1. Code' = Code /\ phase' # "check"
    BY <1>4 DEF Visited, VisitCloneCall
  <2>2. \A k \in 1 .. Len(Code') : Placed(Root, Code, IntType, k)'
    BY <2>1, <1>1, <1>5 DEF IInv, CallsPlaced
  <2>3. \A i \in DOMAIN cache' : cache'[i].drained =>
          \A k \in 1 .. Len(Body(i)') :
            Placed(i, Body(i), cache[i].request.type, k)'
    BY <1>5 DEF Placed
  <2>4. ASSUME phase' = "clone", NEW k \in 1 .. Len(Body(index)'), k < position'
        PROVE  Placed(index, Body(index), cache[index].request.type, k)'
    <3>1. /\ Body(index)' = Body(index) /\ cache'[index].request = cache[index].request
          /\ index' = index /\ position' = position + 1 /\ position \in Nat
      BY <2>4, <1>1, <1>6 DEF Body, VisitCloneCall, IInv, TypeInv
    <3>2. CASE k < position
      <4>1. At(<<index, k>>, Needed(Body(index)[k], cache[index].request.type))
        BY <2>4, <3>1, <3>2, <1>1 DEF IInv, CallsPlaced, Placed
      <4>2. \A s, request : At(s, request) => At(s, request)'
        BY <1>4 DEF Visited
      <4>. QED
        BY <3>1, <4>1, <4>2 DEF Placed
    <3>3. CASE k = position
      <4>1. \A s, request : s = site /\ request = Needed(call, own) => At(s, request)'
        BY <1>4 DEF Visited
      <4>. QED
        BY <3>1, <3>3, <4>1, <1>a, <1>b, <1>d DEF Placed, CloneCall, CloneType
    <3>4. k < position \/ k = position
      BY <2>4, <3>1
    <3>. QED
      BY <3>2, <3>3, <3>4
  <2>. QED
    BY <2>2, <2>3, <2>4 DEF CallsPlaced
<1>11. SettledInv'
  BY DEF SettledInv, VisitCloneCall
<1>. QED
  BY <1>4, <1>7, <1>8, <1>9, <1>10, <1>11 DEF IInv

LEMMA StutterStep == IInv /\ UNCHANGED vars => IInv'
<1> SUFFICES ASSUME IInv, UNCHANGED vars PROVE IInv'
  OBVIOUS
<1>. USE DEF vars
<1>1. CacheInv' /\ ClonesInv' /\ TargetInv'
  BY QuietKeeps DEF Quiet
<1>2. TypeInv' /\ PhaseInv'
  BY DEF IInv, TypeInv, PhaseInv
<1>3. SitesKnown'
  BY DEF IInv, SitesKnown
<1>4. ParentInv'
  BY DEF IInv, ParentInv, CallsFor, Body
<1>5. CallsPlaced'
  BY DEF IInv, CallsPlaced, Placed, At, Code, Body
<1>6. SettledInv'
  BY DEF IInv, SettledInv, Settled, Passed, KindOf
<1>. QED
  BY <1>1, <1>2, <1>3, <1>4, <1>5, <1>6 DEF IInv

LEMMA StepInv == IInv /\ [Next]_vars => IInv'
<1> SUFFICES ASSUME IInv, [Next]_vars PROVE IInv'
  OBVIOUS
<1>1. CASE CheckCall
  BY <1>1, CheckCallStep
<1>2. CASE StartDraining
  BY <1>2, StartDrainingStep
<1>3. CASE Skip
  BY <1>3, SkipStep
<1>4. CASE RewriteLateSites
  BY <1>4, RewriteLateSitesStep
<1>5. CASE RaiseLimit
  BY <1>5, RaiseLimitStep
<1>6. CASE StartClone
  BY <1>6, StartCloneStep
<1>7. CASE CheckCloneCall
  <2>1. VisitCloneCall
    BY <1>7 DEF CheckCloneCall, VisitCloneCall
  <2>. QED
    BY <2>1, VisitCloneCallStep
<1>8. CASE RejectClone
  <2>1. VisitCloneCall
    BY <1>8 DEF RejectClone, VisitCloneCall
  <2>. QED
    BY <2>1, VisitCloneCallStep
<1>9. CASE FinishClone
  BY <1>9, FinishCloneStep
<1>10. CASE NextDrain
  BY <1>10, NextDrainStep
<1>11. CASE NextRound
  BY <1>11, NextRoundStep
<1>12. CASE StopDraining
  BY <1>12, StopDrainingStep
<1>13. CASE UNCHANGED vars
  BY <1>13, StutterStep
<1>. QED
  BY <1>1, <1>2, <1>3, <1>4, <1>5, <1>6, <1>7, <1>8, <1>9, <1>10, <1>11, <1>12, <1>13
  DEF Next

(***************************************************************************)
(* Theorems                                                                *)
(***************************************************************************)
\* The inductive invariant, for every set of programs and every limit: every
\* call visited so far has its site with the entry for the instance it needs
\* and with no other, the targets are those of the rewritten sites, and a round
\* in which no drain worked leaves nothing unsettled behind it
\* (InstantiationCollector and the drains of Monomorphize.cpp).
THEOREM Invariance == Spec => []IInv
<1>1. Init => IInv
  BY InitInv
<1>2. IInv /\ [Next]_vars => IInv'
  BY StepInv
<1>. QED
  BY <1>1, <1>2, PTL DEF Spec

\* No instance is cloned twice (record finds a request made before, the drains
\* pass what is drained), and none is drained without its clone.
THEOREM OneCloneAlways == Spec => []OneClone
<1>1. IInv => OneClone
  BY DEF IInv, CacheInv, Unique, ClonesInv, OneClone
<1>. QED
  BY <1>1, Invariance, PTL

\* What chainTo walks is a chain of calls that ends (record keeps the parent a
\* request has first, setCurrentParent names the clone being checked).
THEOREM ParentsAlwaysCall == Spec => []ParentsCall
<1>1. IInv => ParentsCall
  BY DEF IInv, ParentInv, ParentsCall
<1>. QED
  BY <1>1, Invariance, PTL

LeadsTo(code, k, request) ==
    \E i \in DOMAIN cache :
      /\ cache[i].request = request
      /\ cache[i].drained
      /\ KindOf(i) # "struct" =>
           {t \in target : t[1] = <<code, k>>} = {<<<<code, k>>, i>>}

LEMMA SettledLeads ==
  ASSUME IInv, phase = "done", NEW code, NEW k, NEW request,
         At(<<code, k>>, request)
  PROVE  LeadsTo(code, k, request)
<1>1. PICK i \in DOMAIN cache :
        cache[i].request = request /\ <<code, k>> \in cache[i].sites
  BY DEF At
<1>2. /\ cache[i].drained
      /\ KindOf(i) = "struct" \/ cache[i].rewritten = cache[i].sites
  BY <1>1 DEF IInv, SettledInv, Settled
<1>3. ASSUME KindOf(i) # "struct"
      PROVE  {t \in target : t[1] = <<code, k>>} = {<<<<code, k>>, i>>}
  <2>1. <<<<code, k>>, i>> \in target
    BY <1>1, <1>2, <1>3 DEF IInv, TargetInv
  <2>2. ASSUME NEW t \in target, t[1] = <<code, k>>
        PROVE  t = <<<<code, k>>, i>>
    <3>1. t[2] \in DOMAIN cache /\ <<code, k>> \in cache[t[2]].sites
      BY <2>2 DEF IInv, TargetInv, CacheInv, RewrittenAreSites
    <3>2. t[2] = i
      BY <3>1, <1>1 DEF IInv, CacheInv, SitesApart
    <3>. QED
      BY <2>2, <3>2 DEF IInv, TypeInv
  <2>. QED
    BY <2>1, <2>2
<1>. QED
  BY <1>1, <1>2, <1>3 DEF LeadsTo

\* When the drains stop, every call of ordinary code and of every clone leads to
\* its instance's clone alone (rewriteNewFuncCallSites, rewriteNewMethodCallSites,
\* forgetSite).
THEOREM CallsAlwaysLead == Spec => []CallsLeadToClones
<1>1. ASSUME IInv, phase = "done" PROVE Leads(Root, Code, IntType)
  <2>1. \A k \in DOMAIN Code : At(<<Root, k>>, Needed(Code[k], IntType))
    BY <1>1, Bodies DEF IInv, CallsPlaced, Placed
  <2>2. \A k \in DOMAIN Code : LeadsTo(Root, k, Needed(Code[k], IntType))
    BY <1>1, <2>1, SettledLeads
  <2>. QED
    BY <2>2 DEF Leads, LeadsTo
<1>2. ASSUME IInv, phase = "done", NEW i \in DOMAIN cache, cache[i].drained
      PROVE  Leads(i, Body(i), cache[i].request.type)
  <2>1. \A k \in DOMAIN Body(i) :
          At(<<i, k>>, Needed(Body(i)[k], cache[i].request.type))
    BY <1>2, Bodies DEF IInv, CallsPlaced, Placed
  <2>2. \A k \in DOMAIN Body(i) :
          LeadsTo(i, k, Needed(Body(i)[k], cache[i].request.type))
    BY <1>2, <2>1, SettledLeads
  <2>. QED
    BY <2>2 DEF Leads, LeadsTo
<1>3. IInv => CallsLeadToClones
  BY <1>1, <1>2 DEF CallsLeadToClones
<1>. QED
  BY <1>3, Invariance, PTL

(***************************************************************************)
(* Refusals                                                                *)
(***************************************************************************)
\* Induction along the cache, for a set of its indices.
LEMMA AlongCache ==
  ASSUME NEW n \in Nat, NEW T,
         \A i \in 1 .. n : (\A j \in 1 .. n : j < i => j \in T) => i \in T
  PROVE  \A i \in 1 .. n : i \in T
<1> SUFFICES ASSUME NEW i \in (1 .. n) \ T PROVE FALSE
  OBVIOUS
<1> DEFINE R == OpToRel(<, Nat)
<1>1. IsWellFoundedOn(R, Nat)
  BY NatLessThanWellFounded
<1>2. \A x, y \in Nat : y < x => <<y, x>> \in R
  BY DEF OpToRel
<1>. HIDE DEF R
<1>3. (1 .. n) \ T \in SUBSET Nat /\ (1 .. n) \ T # {}
  OBVIOUS
<1>4. PICK x \in (1 .. n) \ T : \A y \in (1 .. n) \ T : ~(<<y, x>> \in R)
  BY <1>1, <1>3, WFMin
<1>5. ASSUME NEW j \in 1 .. n, j < x PROVE j \in T
  <2>1. j \in Nat /\ x \in Nat
    OBVIOUS
  <2>2. <<j, x>> \in R
    BY <1>2, <1>5, <2>1
  <2>. QED
    BY <1>4, <2>2
<1>. QED
  BY <1>4, <1>5

ParentsBefore ==
    /\ cache \in Seq(CacheEntry)
    /\ \A i \in DOMAIN cache : cache[i].parent # Root =>
         cache[i].parent \in DOMAIN cache /\ cache[i].parent < i

\* The depths of the first n entries, as Depth defines them.
Depths(n, f) ==
    \A i \in 1 .. n :
      f[i] = IF cache[i].parent = Root THEN 1 ELSE 1 + f[cache[i].parent]

LEMMA DepthsExist ==
  ASSUME ParentsBefore, NEW n \in 0 .. Len(cache)
  PROVE  \E f \in [1 .. n -> Nat] : Depths(n, f)
<1> DEFINE T == {m \in 1 .. Len(cache) + 1 : \E f \in [1 .. m - 1 -> Nat] : Depths(m - 1, f)}
<1>0. Len(cache) \in Nat /\ DOMAIN cache = 1 .. Len(cache)
  BY DEF ParentsBefore
<1>1. ASSUME NEW m \in 1 .. Len(cache) + 1,
             \A j \in 1 .. Len(cache) + 1 : j < m => j \in T
      PROVE  m \in T
  <2>1. CASE m = 1
    <3> DEFINE f == [i \in 1 .. 0 |-> 0]
    <3>1. f \in [1 .. m - 1 -> Nat] /\ Depths(m - 1, f)
      BY <2>1 DEF Depths
    <3>. QED
      BY <3>1
  <2>2. CASE m # 1
    <3>1. PICK k \in 1 .. Len(cache) : k = m - 1
      BY <2>2, <1>0
    <3>2. k \in 1 .. Len(cache) + 1 /\ k < m /\ m = k + 1
      BY <3>1, <1>0
    <3>3. PICK g \in [1 .. k - 1 -> Nat] : Depths(k - 1, g)
      BY <1>1, <3>2
    <3> DEFINE x == IF cache[k].parent = Root THEN 1 ELSE 1 + g[cache[k].parent]
               f == [i \in 1 .. k |-> IF i = k THEN x ELSE g[i]]
    <3>4. x \in Nat
      BY <1>0, <3>1, <3>3 DEF ParentsBefore
    <3>. HIDE DEF x
    <3>5. /\ f \in [1 .. k -> Nat] /\ f[k] = x
          /\ \A i \in 1 .. k - 1 : f[i] = g[i]
      BY <3>4
    <3>. HIDE DEF f
    <3>6. ASSUME NEW i \in 1 .. k
          PROVE  f[i] = IF cache[i].parent = Root THEN 1 ELSE 1 + f[cache[i].parent]
      <4>1. i \in DOMAIN cache /\ i \in Nat
        BY <1>0
      <4>2. cache[i].parent # Root => cache[i].parent \in 1 .. k - 1
                                      /\ cache[i].parent < i
        BY <1>0, <4>1 DEF ParentsBefore
      <4>3. CASE i = k
        BY <4>2, <4>3, <3>5 DEF x
      <4>4. CASE i # k
        <5>1. i \in 1 .. k - 1
          BY <4>4
        <5>. QED
          BY <5>1, <4>2, <3>3, <3>5 DEF Depths
      <4>. QED
        BY <4>3, <4>4
    <3>7. Depths(k, f)
      BY <3>6 DEF Depths
    <3>8. m - 1 = k
      BY <3>1
    <3>. QED
      BY <3>5, <3>7, <3>8
  <2>. QED
    BY <2>1, <2>2
<1>. HIDE DEF T
<1>2. Len(cache) + 1 \in Nat
  BY <1>0
<1>3. \A m \in 1 .. Len(cache) + 1 : m \in T
  BY <1>1, <1>2, AlongCache
<1>4. n + 1 \in 1 .. Len(cache) + 1 /\ (n + 1) - 1 = n
  BY <1>0
<1>5. n + 1 \in T
  BY <1>3, <1>4
<1>. QED
  BY <1>4, <1>5 DEF T

\* chainTo's walk along the parents ends: Depth is what its definition says.
LEMMA DepthFacts ==
  ASSUME ParentsBefore
  PROVE  /\ Depth \in [DOMAIN cache -> Nat]
         /\ \A i \in DOMAIN cache :
              Depth[i] = IF cache[i].parent = Root THEN 1
                                                   ELSE 1 + Depth[cache[i].parent]
<1> DEFINE Def(f) == f = [i \in DOMAIN cache |->
                            IF cache[i].parent = Root THEN 1 ELSE 1 + f[cache[i].parent]]
<1>0. Len(cache) \in Nat /\ DOMAIN cache = 1 .. Len(cache)
  BY DEF ParentsBefore
<1>1. PICK g \in [1 .. Len(cache) -> Nat] : Depths(Len(cache), g)
  BY <1>0, DepthsExist
<1>2. Def(g)
  BY <1>0, <1>1 DEF Depths
<1>3. Depth = CHOOSE f : Def(f)
  BY DEF Depth
<1>. HIDE DEF Def
<1>4. Def(Depth)
  BY <1>2, <1>3
<1>5. /\ DOMAIN Depth = DOMAIN cache /\ Depth = [i \in DOMAIN cache |-> Depth[i]]
      /\ \A i \in DOMAIN cache :
           Depth[i] = IF cache[i].parent = Root THEN 1 ELSE 1 + Depth[cache[i].parent]
  BY <1>4 DEF Def
<1> DEFINE T == {i \in DOMAIN cache : Depth[i] \in Nat}
<1>6. ASSUME NEW i \in 1 .. Len(cache), \A j \in 1 .. Len(cache) : j < i => j \in T
      PROVE  i \in T
  <2>1. CASE cache[i].parent = Root
    BY <2>1, <1>0, <1>5
  <2>2. CASE cache[i].parent # Root
    <3>1. cache[i].parent \in 1 .. Len(cache) /\ cache[i].parent < i
      BY <2>2, <1>0 DEF ParentsBefore
    <3>2. Depth[cache[i].parent] \in Nat
      BY <3>1, <1>6
    <3>. QED
      BY <2>2, <3>2, <1>0, <1>5
  <2>. QED
    BY <2>1, <2>2
<1>. HIDE DEF T
<1>7. \A i \in 1 .. Len(cache) : i \in T
  BY <1>0, <1>6, AlongCache
<1>8. \A i \in DOMAIN cache : Depth[i] \in Nat
  BY <1>0, <1>7 DEF T
<1>. QED
  BY <1>5, <1>8

\* Entry i has a chain of as many requests behind it as its depth.
LEMMA DeepChain ==
  ASSUME IInv, NEW m \in Nat \ {0}
  PROVE  \A i \in DOMAIN cache : Depth[i] >= m => Chain(m, i) # {}
<1> DEFINE T == {k \in 1 .. m : \A i \in DOMAIN cache : Depth[i] >= k => Chain(k, i) # {}}
<1>0. ParentsBefore
  BY DEF IInv, TypeInv, ParentInv, ParentsBefore
<1>1. /\ Depth \in [DOMAIN cache -> Nat]
      /\ \A i \in DOMAIN cache :
           Depth[i] = IF cache[i].parent = Root THEN 1
                                                ELSE 1 + Depth[cache[i].parent]
  BY <1>0, DepthFacts
<1>2. DOMAIN cache \subseteq Nat \ {0}
  BY DEF IInv, TypeInv
<1>3. ASSUME NEW k \in 1 .. m, \A j \in 1 .. m : j < k => j \in T
      PROVE  k \in T
  <2> SUFFICES ASSUME NEW i \in DOMAIN cache, Depth[i] >= k
               PROVE  Chain(k, i) # {}
    OBVIOUS
  <2>1. CASE k = 1
    <3> DEFINE chain == [l \in 1 .. 1 |-> i]
    <3>1. chain \in Chain(1, i)
      BY <1>2 DEF Chain
    <3>. QED
      BY <2>1, <3>1
  <2>2. CASE k # 1
    <3> DEFINE p == cache[i].parent
    <3>1. p # Root
      BY <2>2, <1>1
    <3>2. p \in DOMAIN cache /\ p < i /\ CallsFor(p, i) /\ Depth[i] = 1 + Depth[p]
      BY <3>1, <1>1 DEF IInv, ParentInv
    <3>. HIDE DEF p
    <3>3. PICK j \in 1 .. m : k = j + 1
      <4>1. k - 1 \in 1 .. m /\ k = (k - 1) + 1
        BY <2>2
      <4>. QED
        BY <4>1
    <3>4. Depth[p] >= j /\ j \in T
      BY <3>2, <3>3, <1>1, <1>3
    <3>5. PICK before : before \in Chain(j, p)
      BY <3>2, <3>4
    <3>6. /\ before \in [1 .. j -> 1 .. p] /\ before[j] = p
          /\ \A l \in 1 .. j - 1 : /\ before[l] < before[l + 1]
                                   /\ CallsFor(before[l], before[l + 1])
      BY <3>5 DEF Chain
    <3> DEFINE chain == [l \in 1 .. k |-> IF l = k THEN i ELSE before[l]]
    <3>7. chain[k] = i /\ \A l \in 1 .. j : chain[l] = before[l]
      BY <3>3
    <3>8. chain \in [1 .. k -> 1 .. i]
      <4>1. \A l \in 1 .. k : l = k \/ l \in 1 .. j
        BY <3>3
      <4>2. i \in 1 .. i /\ \A l \in 1 .. j : before[l] \in 1 .. i
        BY <3>2, <3>6, <1>2
      <4>. QED
        BY <4>1, <4>2, <3>7
    <3>. HIDE DEF chain
    <3>9. ASSUME NEW l \in 1 .. k - 1
          PROVE  chain[l] < chain[l + 1] /\ CallsFor(chain[l], chain[l + 1])
      <4>1. CASE l = j
        BY <4>1, <3>2, <3>3, <3>6, <3>7
      <4>2. CASE l # j
        <5>1. l \in 1 .. j - 1 /\ l \in 1 .. j /\ l + 1 \in 1 .. j
          BY <4>2, <3>3
        <5>. QED
          BY <5>1, <3>6, <3>7
      <4>. QED
        BY <4>1, <4>2
    <3>10. chain \in Chain(k, i)
      BY <3>7, <3>8, <3>9 DEF Chain
    <3>. QED
      BY <3>10
  <2>. QED
    BY <2>1, <2>2
<1>. HIDE DEF T
<1>4. \A k \in 1 .. m : k \in T
  BY <1>3, AlongCache
<1>5. m \in 1 .. m
  OBVIOUS
<1>. QED
  BY <1>4, <1>5 DEF T

\* What a call of the clone's body does to the cache.
LEMMA CloneCallVisited ==
  ASSUME IInv, VisitCloneCall
  PROVE  /\ index \in DOMAIN cache /\ ~cache[index].drained
         /\ position \in 1 .. Len(Body(index))
         /\ CloneCall \in CallsOf(Body(index))
         /\ CloneCall \in Call /\ CloneType \in Type /\ CurrentParent \in Nat
         /\ <<index, position>> \in Site
         /\ Visited(CloneCall, CloneType, CurrentParent, <<index, position>>)
<1>1. /\ phase = "clone" /\ position \in 1 .. Len(Body(index)) /\ index \in DOMAIN cache
      /\ ~cache[index].drained /\ cache[index] \in CacheEntry
      /\ UNCHANGED <<program, asts, target>>
  BY Bodies DEF VisitCloneCall, IInv, TypeInv, PhaseInv
<1>2. CloneCall \in Call /\ CloneCall \in CallsOf(Body(index))
  BY <1>1, Bodies DEF IInv, CloneCall, CallsOf
<1>3. CloneType \in Type /\ CurrentParent \in Nat /\ <<index, position>> \in Site
  BY <1>1, Bodies DEF IInv, TypeInv, CloneType, CurrentParent, Root, Site
<1>4. Fresh(cache, <<index, position>>)
  BY <1>1 DEF IInv, TypeInv, SitesKnown, Fresh, Root
<1>5. Visited(CloneCall, CloneType, CurrentParent, <<index, position>>)
  BY <1>1, <1>2, <1>3, <1>4, VisitKeeps DEF VisitCloneCall
<1>. QED
  BY <1>1, <1>2, <1>3, <1>5

LEMMA RefusalStep == IInv /\ RefusalIsEarned /\ [Next]_vars => RefusalIsEarned'
<1> SUFFICES ASSUME IInv, RefusalIsEarned, [Next]_vars, phase' = "failed"
             PROVE  RefusalIsEarned'
  BY DEF RefusalIsEarned
<1>1. CASE RaiseLimit
  <2>1. index \in DOMAIN cache /\ UNCHANGED <<program, cache, index>>
    BY <1>1 DEF RaiseLimit, ToInstantiate, Sweeping, IInv, TypeInv
  <2>2. Len(cache) > MaxTotal \/ Depth[index] > MaxDepth
    BY <1>1 DEF RaiseLimit, TooMuch
  <2>3. CASE Len(cache) > MaxTotal
    BY <2>1, <2>3 DEF RefusalIsEarned
  <2>4. CASE Depth[index] > MaxDepth
    <3>1. ParentsBefore
      BY DEF IInv, TypeInv, ParentInv, ParentsBefore
    <3>2. Depth[index] \in Nat
      BY <2>1, <3>1, DepthFacts
    <3>3. MaxDepth + 1 \in Nat \ {0} /\ Depth[index] >= MaxDepth + 1
      BY <2>4, <3>2, LimitAssumption
    <3>4. Chain(MaxDepth + 1, index) # {}
      BY <2>1, <3>3, DeepChain
    <3>5. Chain(MaxDepth + 1, index)' = Chain(MaxDepth + 1, index)
      BY <2>1 DEF Chain, CallsFor, Body
    <3>. QED
      BY <3>4, <3>5 DEF RefusalIsEarned
  <2>. QED
    BY <2>2, <2>3, <2>4
<1>2. CASE RejectClone
  <2>1. VisitCloneCall /\ Wrong(CloneCall, CloneType) /\ index' = index
    BY <1>2 DEF RejectClone, VisitCloneCall
  <2>2. /\ index \in DOMAIN cache /\ CloneCall \in CallsOf(Body(index))
        /\ Visited(CloneCall, CloneType, CurrentParent, <<index, position>>)
    BY <2>1, CloneCallVisited
  <2>3. /\ cache'[index].request = cache[index].request
        /\ program'.body[cache'[index].request.to] = program.body[cache[index].request.to]
    BY <2>2 DEF Visited, Kept
  <2>4. CallsOf(Body(index))' = CallsOf(Body(index))
    BY <2>1, <2>3 DEF Body, CallsOf
  <2>5. \E call \in CallsOf(Body(index)) : Wrong(call, cache[index].request.type)
    BY <2>1, <2>2 DEF CloneType
  <2>6. (\E call \in CallsOf(Body(index)) : Wrong(call, cache[index].request.type))'
    BY <2>1, <2>3, <2>4, <2>5
  <2>. QED
    BY <2>6 DEF RefusalIsEarned
<1>3. CASE UNCHANGED vars
  <2>1. UNCHANGED <<program, cache, phase, index>>
    BY <1>3 DEF vars
  <2>2. Chain(MaxDepth + 1, index)' = Chain(MaxDepth + 1, index)
    BY <2>1 DEF Chain, CallsFor, Body
  <2>3. (\E call \in CallsOf(Body(index)) : Wrong(call, cache[index].request.type))' <=>
        (\E call \in CallsOf(Body(index)) : Wrong(call, cache[index].request.type))
    BY <2>1 DEF Body
  <2>. QED
    BY <2>1, <2>2, <2>3 DEF RefusalIsEarned
<1>4. RaiseLimit \/ RejectClone \/ UNCHANGED vars
  <2>1. ~CheckCall /\ ~StartDraining /\ ~StopDraining
    BY DEF CheckCall, StartDraining, StopDraining
  <2>2. ~Skip /\ ~RewriteLateSites /\ ~StartClone /\ ~NextDrain /\ ~NextRound
    BY DEF Skip, RewriteLateSites, StartClone, ToInstantiate, Sweeping, NextDrain,
           NextRound, Swept
  <2>3. ~CheckCloneCall /\ ~FinishClone
    BY DEF CheckCloneCall, FinishClone
  <2>. QED
    BY <2>1, <2>2, <2>3 DEF Next
<1>. QED
  BY <1>1, <1>2, <1>3, <1>4

\* Whatever the program: it is refused only for a body that is wrong, for more
\* instances than the limit, or for a chain longer than the limit in which each
\* instance's body calls for the next (exceedsInstantiationLimit, chainTo).
THEOREM RefusalAlwaysEarned == Spec => []RefusalIsEarned
<1>1. Init => RefusalIsEarned
  BY DEF Init, RefusalIsEarned
<1>2. IInv /\ RefusalIsEarned /\ [Next]_vars => RefusalIsEarned'
  BY RefusalStep
<1>. QED
  BY <1>1, <1>2, Invariance, PTL DEF Spec

(***************************************************************************)
(* Refinement of Instances                                                 *)
(***************************************************************************)
Made == {cache[i].request : i \in {j \in DOMAIN cache : cache[j].drained}}
Verdict == IF phase \in {"done", "failed"} THEN phase ELSE "open"
Plenty == IF MaxDepth < MaxTotal THEN MaxDepth ELSE MaxTotal

\* What ordinary code and the code of what is made need, and are taken to need.
NeededThere ==
    {Needed(call, IntType) : call \in CallsOf(Code)} \cup
    UNION {{Needed(call, i.type) : call \in CallsOf(program.body[i.to])} : i \in Made}

InferredThere ==
    {Inferred(call, IntType) : call \in CallsOf(Code)} \cup
    UNION {{Inferred(call, i.type) : call \in CallsOf(program.body[i.to])} : i \in Made}

\* The words of GenericCalls mean the same in Instances.
LEMMA SameWords ==
  /\ I!IntType = IntType
  /\ \A call, own : /\ I!Inferred(call, own) = Inferred(call, own)
                    /\ I!Needed(call, own) = Needed(call, own)
                    /\ I!Wrong(call, own) = Wrong(call, own)
  /\ \A calls : I!CallsOf(calls) = CallsOf(calls)
  /\ \A p : I!OrdinaryCalls(p) = OrdinaryCalls(p)
<1>1. I!IntType = IntType /\ \A calls : I!CallsOf(calls) = CallsOf(calls)
  BY DEF I!IntType, IntType, I!CallsOf, CallsOf
<1>2. \A call, own : /\ I!Inferred(call, own) = Inferred(call, own)
                     /\ I!Needed(call, own) = Needed(call, own)
                     /\ I!Wrong(call, own) = Wrong(call, own)
  BY DEF I!Inferred, Inferred, I!Needed, Needed, I!Wrong, Wrong, I!Widens, Widens,
         I!Substituted, Substituted, I!IntType, IntType, I!DoubleType, DoubleType,
         I!Own, Own, I!Boxed, Boxed, I!NoType, NoType, I!BoxOf, BoxOf
<1>3. \A p : I!OrdinaryCalls(p) = OrdinaryCalls(p)
  BY DEF I!OrdinaryCalls, OrdinaryCalls, I!Concrete, Concrete, I!IsOpen, IsOpen,
         I!FlattenSeq, FlattenSeq, I!Own, Own, I!Boxed, Boxed, I!NoType, NoType
<1>. QED
  BY <1>1, <1>2, <1>3

LEMMA SameCalled ==
  I!Called(I!Needed) = NeededThere /\ I!Called(I!Inferred) = InferredThere
<1>1. I!CallsOf(I!OrdinaryCalls(program)) = CallsOf(Code)
  BY SameWords DEF Code
<1>2. /\ {I!Needed(call, I!IntType) : call \in I!CallsOf(I!OrdinaryCalls(program))}
         = {Needed(call, IntType) : call \in CallsOf(Code)}
      /\ {I!Inferred(call, I!IntType) : call \in I!CallsOf(I!OrdinaryCalls(program))}
         = {Inferred(call, IntType) : call \in CallsOf(Code)}
  BY <1>1, SameWords
<1>3. ASSUME NEW i
      PROVE  /\ {I!Needed(call, i.type) : call \in I!CallsOf(program.body[i.to])}
                = {Needed(call, i.type) : call \in CallsOf(program.body[i.to])}
             /\ {I!Inferred(call, i.type) : call \in I!CallsOf(program.body[i.to])}
                = {Inferred(call, i.type) : call \in CallsOf(program.body[i.to])}
  BY SameWords
<1>4. I!Called(I!Needed) = NeededThere
  <2> DEFINE A(i) == {I!Needed(call, i.type) : call \in I!CallsOf(program.body[i.to])}
             B(i) == {Needed(call, i.type) : call \in CallsOf(program.body[i.to])}
  <2>1. \A i : A(i) = B(i)
    BY <1>3
  <2>. HIDE DEF A, B
  <2>2. UNION {A(i) : i \in Made} = UNION {B(i) : i \in Made}
    BY <2>1
  <2>. USE DEF A, B
  <2>. QED
    BY <1>2, <2>2 DEF I!Called, NeededThere, Made
<1>5. I!Called(I!Inferred) = InferredThere
  <2> DEFINE A(i) == {I!Inferred(call, i.type) : call \in I!CallsOf(program.body[i.to])}
             B(i) == {Inferred(call, i.type) : call \in CallsOf(program.body[i.to])}
  <2>1. \A i : A(i) = B(i)
    BY <1>3
  <2>. HIDE DEF A, B
  <2>2. UNION {A(i) : i \in Made} = UNION {B(i) : i \in Made}
    BY <2>1
  <2>. USE DEF A, B
  <2>. QED
    BY <1>2, <2>2 DEF I!Called, InferredThere, Made
<1>. QED
  BY <1>4, <1>5

(***************************************************************************)
(* Who asks for the entries of the cache                                   *)
(***************************************************************************)
\* A site is the place of a call.
SitesInCode ==
    \A i \in DOMAIN cache : \A s \in cache[i].sites :
      /\ s[1] = Root => s[2] \in DOMAIN Code
      /\ s[1] \in DOMAIN cache => s[2] \in DOMAIN Body(s[1])

\* The entry being cloned is not asked for by its own clone alone.
AskedByAnother ==
    phase = "clone" => \E s \in cache[index].sites : s[1] # index

CalledByCode(i) ==
    \E call \in CallsOf(Code) :
      cache[i].request \in {Inferred(call, IntType), Needed(call, IntType)}

\* An entry is called by ordinary code, by a clone or by what is being cloned.
AllCalled ==
    \A i \in DOMAIN cache :
      \/ CalledByCode(i)
      \/ \E p \in DOMAIN cache :
           /\ cache[p].drained \/ (p = index /\ phase \in {"clone", "failed"})
           /\ CallsFor(p, i)

AskedInv == SitesInCode /\ AskedByAnother /\ AllCalled

LEMMA AskedQuiet ==
  ASSUME IInv, AskedInv, UNCHANGED <<program, cache>>, phase # "clone",
         phase = "failed" => phase' = "failed" /\ index' = index,
         phase' # "clone"
  PROVE  AskedInv'
<1>1. SitesInCode'
  BY DEF AskedInv, SitesInCode, Code, Body
<1>2. AskedByAnother'
  BY DEF AskedByAnother
<1>3. AllCalled'
  BY DEF AskedInv, AllCalled, CalledByCode, CallsFor, Body, Code
<1>. QED
  BY <1>1, <1>2, <1>3 DEF AskedInv

LEMMA AskedStartClone ==
  ASSUME IInv, AskedInv, StartClone
  PROVE  AskedInv'
<1>. USE DEF StartClone, ToInstantiate, Sweeping
<1>1. SitesInCode'
  BY DEF AskedInv, SitesInCode, Code, Body
<1>2. AskedByAnother'
  <2>1. index \in DOMAIN cache /\ ~cache[index].drained /\ index # Root
    BY DEF IInv, TypeInv, Root
  <2>2. PICK s \in cache[index].sites : TRUE
    OBVIOUS
  <2>3. s[1] = Root \/ (s[1] \in DOMAIN cache /\ cache[s[1]].drained)
    BY <2>1, <2>2 DEF IInv, SitesKnown
  <2>4. s[1] # index
    BY <2>1, <2>3
  <2>. QED
    BY <2>2, <2>4 DEF AskedByAnother
<1>3. AllCalled'
  BY DEF AskedInv, AllCalled, CalledByCode, CallsFor, Body, Code
<1>. QED
  BY <1>1, <1>2, <1>3 DEF AskedInv

LEMMA AskedTouched ==
  ASSUME IInv, AskedInv, Touched, phase \in {"sweep", "clone"}, phase' = "sweep"
  PROVE  AskedInv'
<1>1. /\ DOMAIN cache' = DOMAIN cache
      /\ Code' = Code
      /\ \A i \in DOMAIN cache :
           /\ cache'[i].request = cache[i].request
           /\ program'.body[cache'[i].request.to] = program.body[cache[i].request.to]
  BY TouchedPlaces
<1>2. \A i \in DOMAIN cache :
        /\ cache'[i].sites = cache[i].sites
        /\ cache'[i].drained = (cache[i].drained \/ i = index)
  BY DEF Touched
<1>3. SitesInCode'
  BY <1>1, <1>2 DEF AskedInv, SitesInCode, Body
<1>4. AskedByAnother'
  BY DEF AskedByAnother
<1>5. ASSUME NEW i \in DOMAIN cache, CalledByCode(i) PROVE CalledByCode(i)'
  BY <1>1, <1>5 DEF CalledByCode
<1>6. ASSUME NEW i \in DOMAIN cache, NEW p \in DOMAIN cache, CallsFor(p, i)
      PROVE  CallsFor(p, i)'
  <2>1. Body(p)' = Body(p)
    BY <1>1 DEF Body
  <2>. QED
    BY <2>1, <1>1, <1>6 DEF CallsFor
<1>7. AllCalled'
  <2> SUFFICES ASSUME NEW i \in DOMAIN cache, ~CalledByCode(i)
               PROVE  \E p \in DOMAIN cache : cache'[p].drained /\ CallsFor(p, i)'
    BY <1>1, <1>5 DEF AllCalled
  <2>1. PICK p \in DOMAIN cache : /\ cache[p].drained \/ p = index
                                  /\ CallsFor(p, i)
    BY DEF AskedInv, AllCalled
  <2>. QED
    BY <2>1, <1>2, <1>6
<1>. QED
  BY <1>3, <1>4, <1>7 DEF AskedInv

\* What a visit keeps of who asks.
LEMMA VisitedAsks ==
  ASSUME IInv, AskedInv, phase # "failed", NEW call \in Call, NEW own \in Type,
         NEW parent \in Nat, NEW site \in Site, Visited(call, own, parent, site)
  PROVE  /\ \A i \in DOMAIN cache' : \A s \in cache'[i].sites : s # site =>
              /\ s[1] = Root => s[2] \in DOMAIN Code'
              /\ s[1] # Root => /\ s[1] \in DOMAIN cache
                                /\ s[2] \in DOMAIN Body(s[1])
                                /\ Body(s[1])' = Body(s[1])
         /\ \A i \in DOMAIN cache : cache[i].sites \subseteq cache'[i].sites
         /\ \A i \in DOMAIN cache : CalledByCode(i) => CalledByCode(i)'
         /\ \A i, p \in DOMAIN cache : CallsFor(p, i) => CallsFor(p, i)'
         /\ \A p \in DOMAIN cache : /\ p \in DOMAIN cache'
                                    /\ cache'[p].drained = cache[p].drained
<1>1. /\ DOMAIN cache \subseteq DOMAIN cache' /\ Code' = Code
      /\ \A i \in DOMAIN cache :
           /\ Kept(cache[i], cache'[i], site)
           /\ program'.body[cache'[i].request.to] = program.body[cache[i].request.to]
  BY DEF Visited
<1>2. \A i \in DOMAIN cache : /\ cache'[i].request = cache[i].request
                              /\ cache'[i].drained = cache[i].drained
                              /\ cache[i].sites \subseteq cache'[i].sites
  BY <1>1 DEF Kept
<1>3. \A p \in DOMAIN cache : Body(p)' = Body(p)
  BY <1>1 DEF Body
<1>4. \A i \in DOMAIN cache' : \A s \in cache'[i].sites :
        s # site => i \in DOMAIN cache /\ s \in cache[i].sites
  BY VisitedKeeps
<1>5. ASSUME NEW i \in DOMAIN cache', NEW s \in cache'[i].sites, s # site
      PROVE  /\ s[1] = Root => s[2] \in DOMAIN Code'
             /\ s[1] # Root => /\ s[1] \in DOMAIN cache
                               /\ s[2] \in DOMAIN Body(s[1])
                               /\ Body(s[1])' = Body(s[1])
  <2>1. i \in DOMAIN cache /\ s \in cache[i].sites
    BY <1>4, <1>5
  <2>2. /\ s[1] = Root => s[2] \in DOMAIN Code
        /\ s[1] \in DOMAIN cache => s[2] \in DOMAIN Body(s[1])
    BY <2>1 DEF AskedInv, SitesInCode
  <2>3. s[1] # Root => s[1] \in DOMAIN cache
    BY <2>1 DEF IInv, SitesKnown, PhaseInv
  <2>. QED
    BY <2>2, <2>3, <1>1, <1>3
<1>6. \A i \in DOMAIN cache : CalledByCode(i) => CalledByCode(i)'
  BY <1>1, <1>2 DEF CalledByCode
<1>7. \A i, p \in DOMAIN cache : CallsFor(p, i) => CallsFor(p, i)'
  BY <1>2, <1>3 DEF CallsFor
<1>. QED
  BY <1>1, <1>2, <1>5, <1>6, <1>7

LEMMA AskedCheckCall ==
  ASSUME IInv, AskedInv, CheckCall
  PROVE  AskedInv'
<1>a. PICK call : call = Code[position]
  OBVIOUS
<1>b. PICK site : site = <<Root, position>>
  OBVIOUS
<1>1. /\ phase = "check" /\ position \in 1 .. Len(Code) /\ phase' = "check"
      /\ cache' = Visit(cache, call, IntType, Root, site)
      /\ UNCHANGED <<program, asts, target>>
  BY <1>a, <1>b, Bodies DEF CheckCall, IInv, TypeInv
<1>2. call \in Call /\ IntType \in Type /\ Root \in Nat /\ site \in Site
      /\ call \in CallsOf(Code) /\ position \in DOMAIN Code
  BY <1>a, <1>b, <1>1, Bodies DEF IInv, Type, IntType, Root, Site, CallsOf
<1>3. Fresh(cache, site)
  BY <1>b, <1>1 DEF IInv, TypeInv, SitesKnown, Fresh, Root
<1>4. Visited(call, IntType, Root, site)
  BY <1>1, <1>2, <1>3, VisitKeeps
<1>5. /\ \A i \in DOMAIN cache' : \A s \in cache'[i].sites : s # site =>
           /\ s[1] = Root => s[2] \in DOMAIN Code'
           /\ s[1] # Root => /\ s[1] \in DOMAIN cache
                             /\ s[2] \in DOMAIN Body(s[1])
                             /\ Body(s[1])' = Body(s[1])
      /\ \A i \in DOMAIN cache : CalledByCode(i) => CalledByCode(i)'
      /\ \A i, p \in DOMAIN cache : CallsFor(p, i) => CallsFor(p, i)'
      /\ \A p \in DOMAIN cache : /\ p \in DOMAIN cache'
                                 /\ cache'[p].drained = cache[p].drained
  BY <1>1, <1>2, <1>4, VisitedAsks
<1>6. Code' = Code /\ \A i \in DOMAIN cache' \ DOMAIN cache :
                        New(cache'[i], call, IntType, Root, site)
  BY <1>4 DEF Visited
<1>7. SitesInCode'
  <2> SUFFICES ASSUME NEW i \in DOMAIN cache', NEW s \in cache'[i].sites
               PROVE  /\ s[1] = Root => s[2] \in DOMAIN Code'
                      /\ s[1] \in DOMAIN cache' => s[2] \in DOMAIN Body(s[1])'
    BY DEF SitesInCode
  <2>1. Root \notin DOMAIN cache'
    BY <1>4 DEF Visited, Root
  <2>2. CASE s = site
    BY <2>1, <2>2, <1>b, <1>2, <1>6
  <2>3. CASE s # site
    BY <2>1, <2>3, <1>5
  <2>. QED
    BY <2>2, <2>3
<1>8. AllCalled'
  <2>1. ASSUME NEW i \in DOMAIN cache' \ DOMAIN cache PROVE CalledByCode(i)'
    BY <1>2, <1>6 DEF CalledByCode, New
  <2>2. ASSUME NEW i \in DOMAIN cache, ~CalledByCode(i)
        PROVE  \E p \in DOMAIN cache' : cache'[p].drained /\ CallsFor(p, i)'
    <3>1. PICK p \in DOMAIN cache : cache[p].drained /\ CallsFor(p, i)
      BY <2>2, <1>1 DEF AskedInv, AllCalled
    <3>. QED
      BY <3>1, <1>5
  <2>. QED
    BY <2>1, <2>2, <1>5 DEF AllCalled
<1>9. AskedByAnother'
  BY <1>1 DEF AskedByAnother
<1>. QED
  BY <1>7, <1>8, <1>9 DEF AskedInv

LEMMA AskedCloneCall ==
  ASSUME IInv, AskedInv, VisitCloneCall
  PROVE  AskedInv'
<1>a. PICK call, own, parent, site :
        call = CloneCall /\ own = CloneType /\ parent = CurrentParent
        /\ site = <<index, position>>
  OBVIOUS
<1>1. /\ phase = "clone" /\ phase' \in {"clone", "failed"} /\ index' = index
      /\ index \in DOMAIN cache
  BY DEF VisitCloneCall, IInv, PhaseInv
<1>2. /\ position \in DOMAIN Body(index)
      /\ call \in CallsOf(Body(index)) /\ own = cache[index].request.type
      /\ call \in Call /\ own \in Type /\ parent \in Nat /\ site \in Site
      /\ Visited(call, own, parent, site)
  <2>1. /\ position \in 1 .. Len(Body(index))
        /\ call \in CallsOf(Body(index))
        /\ call \in Call /\ own \in Type /\ parent \in Nat /\ site \in Site
        /\ Visited(call, own, parent, site)
    BY <1>a, CloneCallVisited
  <2>2. Body(index) \in Seq(Call)
    BY <1>1, Bodies DEF IInv
  <2>. QED
    BY <2>1, <2>2, <1>a DEF CloneType
<1>5. /\ \A i \in DOMAIN cache' : \A s \in cache'[i].sites : s # site =>
           /\ s[1] = Root => s[2] \in DOMAIN Code'
           /\ s[1] # Root => /\ s[1] \in DOMAIN cache
                             /\ s[2] \in DOMAIN Body(s[1])
                             /\ Body(s[1])' = Body(s[1])
      /\ \A i \in DOMAIN cache : cache[i].sites \subseteq cache'[i].sites
      /\ \A i \in DOMAIN cache : CalledByCode(i) => CalledByCode(i)'
      /\ \A i, p \in DOMAIN cache : CallsFor(p, i) => CallsFor(p, i)'
      /\ \A p \in DOMAIN cache : /\ p \in DOMAIN cache'
                                 /\ cache'[p].drained = cache[p].drained
  BY <1>1, <1>2, VisitedAsks
<1>6. /\ \A i \in DOMAIN cache' \ DOMAIN cache : New(cache'[i], call, own, parent, site)
      /\ cache'[index].request = cache[index].request
      /\ Body(index)' = Body(index)
      /\ cache' \in Seq(CacheEntry)
  BY <1>1, <1>2 DEF Visited, Kept, Body
<1>7. SitesInCode'
  <2> SUFFICES ASSUME NEW i \in DOMAIN cache', NEW s \in cache'[i].sites
               PROVE  /\ s[1] = Root => s[2] \in DOMAIN Code'
                      /\ s[1] \in DOMAIN cache' => s[2] \in DOMAIN Body(s[1])'
    BY DEF SitesInCode
  <2>1. Root \notin DOMAIN cache' /\ index # Root
    BY <1>6 DEF Root, IInv, TypeInv
  <2>2. CASE s = site
    <3>1. s[1] = index /\ s[2] = position
      BY <2>2, <1>a
    <3>. QED
      BY <3>1, <2>1, <1>1, <1>2, <1>6
  <2>3. CASE s # site
    BY <2>1, <2>3, <1>5
  <2>. QED
    BY <2>2, <2>3
<1>8. AllCalled'
  <2>1. ASSUME NEW i \in DOMAIN cache' \ DOMAIN cache
        PROVE  index \in DOMAIN cache' /\ CallsFor(index, i)'
    <3>1. cache'[i].request \in {Inferred(call, own), Needed(call, own)}
      BY <1>6 DEF New
    <3>. QED
      BY <3>1, <1>1, <1>2, <1>5, <1>6 DEF CallsFor
  <2>2. ASSUME NEW i \in DOMAIN cache, ~CalledByCode(i)
        PROVE  \E p \in DOMAIN cache' : /\ cache'[p].drained \/ p = index
                                        /\ CallsFor(p, i)'
    <3>1. PICK p \in DOMAIN cache : /\ cache[p].drained \/ p = index
                                    /\ CallsFor(p, i)
      BY <2>2 DEF AskedInv, AllCalled
    <3>. QED
      BY <3>1, <1>5
  <2>. QED
    BY <2>1, <2>2, <1>1, <1>5 DEF AllCalled
<1>9. AskedByAnother'
  BY <1>1, <1>5 DEF AskedInv, AskedByAnother
<1>. QED
  BY <1>7, <1>8, <1>9 DEF AskedInv

LEMMA AskedStep == IInv /\ AskedInv /\ [Next]_vars => AskedInv'
<1> SUFFICES ASSUME IInv, AskedInv, [Next]_vars PROVE AskedInv'
  OBVIOUS
<1>1. CASE CheckCall
  BY <1>1, AskedCheckCall
<1>2. CASE RewriteLateSites \/ FinishClone
  <2>1. Touched
    BY <1>2, TouchedByRewrite, TouchedByFinish
  <2>2. phase \in {"sweep", "clone"} /\ phase' = "sweep"
    BY <1>2 DEF RewriteLateSites, Sweeping, FinishClone
  <2>. QED
    BY <2>1, <2>2, AskedTouched
<1>3. CASE StartClone
  BY <1>3, AskedStartClone
<1>4. CASE CheckCloneCall \/ RejectClone
  <2>1. VisitCloneCall
    BY <1>4 DEF CheckCloneCall, RejectClone, VisitCloneCall
  <2>. QED
    BY <2>1, AskedCloneCall
<1>5. CASE StartDraining \/ Skip \/ RaiseLimit \/ NextDrain \/ NextRound \/ StopDraining
  <2>1. /\ phase \in {"check", "sweep"} /\ phase' # "clone"
        /\ UNCHANGED <<program, cache>>
    BY <1>5 DEF StartDraining, Skip, RaiseLimit, ToInstantiate, Sweeping, NextDrain,
                NextRound, StopDraining, Swept
  <2>. QED
    BY <2>1, AskedQuiet
<1>6. CASE UNCHANGED vars
  BY <1>6 DEF vars, AskedInv, SitesInCode, AskedByAnother, AllCalled, CalledByCode,
              CallsFor, Body, Code
<1>. QED
  BY <1>1, <1>2, <1>3, <1>4, <1>5, <1>6 DEF Next

\* The entry whose site is in code that has been visited is needed there.
LEMMA NeededBySite ==
  ASSUME IInv, AskedInv, phase \notin {"check", "failed"},
         NEW i \in DOMAIN cache, NEW s \in cache[i].sites,
         s[1] = Root \/ (s[1] \in DOMAIN cache /\ cache[s[1]].drained)
  PROVE  cache[i].request \in NeededThere
<1>1. s = <<s[1], s[2]>>
  BY Bodies DEF IInv, CacheEntry, Site
<1>2. ASSUME NEW request, At(s, request) PROVE cache[i].request = request
  <2>1. PICK j \in DOMAIN cache : cache[j].request = request /\ s \in cache[j].sites
    BY <1>2 DEF At
  <2>2. i = j
    BY <2>1 DEF IInv, CacheInv, SitesApart
  <2>. QED
    BY <2>1, <2>2
<1>3. CASE s[1] = Root
  <2>1. PICK k \in 1 .. Len(Code) : k = s[2]
    BY <1>3, Bodies DEF IInv, AskedInv, SitesInCode
  <2>2. At(<<Root, k>>, Needed(Code[k], IntType))
    BY <2>1 DEF IInv, CallsPlaced, Placed
  <2>3. cache[i].request = Needed(Code[k], IntType)
    BY <1>1, <1>2, <1>3, <2>1, <2>2
  <2>4. Code[k] \in CallsOf(Code)
    BY <2>1, Bodies DEF IInv, CallsOf
  <2>. QED
    BY <2>3, <2>4 DEF NeededThere
<1>4. CASE s[1] \in DOMAIN cache /\ cache[s[1]].drained
  <2>1. PICK p \in DOMAIN cache : p = s[1] /\ cache[p].drained
    BY <1>4
  <2>2. PICK k \in 1 .. Len(Body(p)) : k = s[2]
    BY <2>1, Bodies DEF IInv, AskedInv, SitesInCode
  <2>3. At(<<p, k>>, Needed(Body(p)[k], cache[p].request.type))
    BY <2>1, <2>2 DEF IInv, CallsPlaced, Placed
  <2>4. cache[i].request = Needed(Body(p)[k], cache[p].request.type)
    BY <1>1, <1>2, <2>1, <2>2, <2>3
  <2>5. Body(p)[k] \in CallsOf(program.body[cache[p].request.to])
    BY <2>2, Bodies DEF IInv, CallsOf, Body
  <2>6. cache[p].request \in Made
    BY <2>1 DEF Made
  <2>7. PICK r \in Made : r = cache[p].request
    BY <2>6
  <2>8. PICK call \in CallsOf(program.body[r.to]) : call = Body(p)[k]
    BY <2>5, <2>7
  <2>9. cache[i].request = Needed(call, r.type)
    BY <2>4, <2>7, <2>8
  <2>. QED
    BY <2>9 DEF NeededThere
<1>. QED
  BY <1>3, <1>4

\* What a clone in the making is of is needed by other code.
LEMMA CloneNeeded ==
  ASSUME IInv, AskedInv, phase = "clone"
  PROVE  index \in DOMAIN cache /\ cache[index].request \in NeededThere \ Made
<1>1. index \in DOMAIN cache /\ ~cache[index].drained
  BY DEF IInv, PhaseInv
<1>2. PICK s \in cache[index].sites : s[1] # index
  BY DEF AskedInv, AskedByAnother
<1>3. s[1] = Root \/ (s[1] \in DOMAIN cache /\ cache[s[1]].drained)
  BY <1>1, <1>2 DEF IInv, SitesKnown
<1>4. cache[index].request \in NeededThere
  BY <1>1, <1>2, <1>3, NeededBySite
<1>5. cache[index].request \notin Made
  BY <1>1 DEF Made, IInv, CacheInv, Unique
<1>. QED
  BY <1>1, <1>4, <1>5

\* A step that drains nothing makes nothing.
LEMMA SameMade ==
  ASSUME DOMAIN cache \subseteq DOMAIN cache',
         \A i \in DOMAIN cache : /\ cache'[i].request = cache[i].request
                                 /\ cache'[i].drained = cache[i].drained,
         \A i \in DOMAIN cache' \ DOMAIN cache : ~cache'[i].drained
  PROVE  Made' = Made
BY DEF Made

LEMMA VisitMakesNothing ==
  ASSUME IInv, CheckCall \/ VisitCloneCall
  PROVE  Made' = Made
<1>1. ASSUME NEW call, NEW own, NEW parent, NEW site, Visited(call, own, parent, site)
      PROVE  Made' = Made
  <2>1. /\ DOMAIN cache \subseteq DOMAIN cache'
        /\ \A i \in DOMAIN cache : /\ cache'[i].request = cache[i].request
                                   /\ cache'[i].drained = cache[i].drained
        /\ \A i \in DOMAIN cache' \ DOMAIN cache : ~cache'[i].drained
    BY <1>1 DEF Visited, Kept, New
  <2>. QED
    BY <2>1, SameMade
<1>2. CASE VisitCloneCall
  BY <1>1, <1>2, CloneCallVisited
<1>3. CASE CheckCall
  <2>0. Code[position] \in Call /\ position \in Nat
    BY <1>3, Bodies DEF CheckCall, IInv, TypeInv
  <2>1. /\ Code[position] \in Call /\ IntType \in Type /\ Root \in Nat
        /\ <<Root, position>> \in Site /\ Fresh(cache, <<Root, position>>)
    <3>1. IntType \in Type /\ Root \in Nat /\ <<Root, position>> \in Site
      BY <2>0 DEF Type, IntType, Root, Site
    <3>2. Fresh(cache, <<Root, position>>)
      BY <1>3, <2>0 DEF CheckCall, IInv, TypeInv, SitesKnown, Fresh, Root
    <3>. QED
      BY <2>0, <3>1, <3>2
  <2>2. Visited(Code[position], IntType, Root, <<Root, position>>)
    BY <2>1, <1>3, VisitKeeps DEF CheckCall
  <2>. QED
    BY <1>1, <2>2
<1>. QED
  BY <1>2, <1>3

LEMMA RewriteMakesNothing ==
  ASSUME IInv, RewriteLateSites
  PROVE  Made' = Made
<1>1. Touched /\ cache[index].drained
  BY TouchedByRewrite DEF RewriteLateSites
<1>2. /\ DOMAIN cache' = DOMAIN cache
      /\ \A i \in DOMAIN cache : cache'[i].request = cache[i].request
  BY <1>1, TouchedPlaces
<1>3. \A i \in DOMAIN cache : cache'[i].drained = cache[i].drained
  BY <1>1, Bodies DEF Touched, IInv, CacheEntry
<1>. QED
  BY <1>2, <1>3, SameMade

LEMMA FinishMakesOne ==
  ASSUME IInv, AskedInv, FinishClone
  PROVE  \E i \in NeededThere \ Made : Made' = Made \cup {i}
<1>1. cache[index].request \in NeededThere \ Made /\ index \in DOMAIN cache
  BY CloneNeeded DEF FinishClone
<1>2. Touched
  BY TouchedByFinish
<1>3. /\ DOMAIN cache' = DOMAIN cache
      /\ \A i \in DOMAIN cache : /\ cache'[i].request = cache[i].request
                                 /\ cache'[i].drained <=> (cache[i].drained \/ i = index)
  <2>1. \A i \in DOMAIN cache : cache'[i].drained <=> (cache[i].drained \/ i = index)
    BY <1>2 DEF Touched
  <2>. QED
    BY <1>2, <2>1, TouchedPlaces
<1>4. Made' = Made \cup {cache[index].request}
  BY <1>1, <1>3 DEF Made
<1>. QED
  BY <1>1, <1>4

\* The drains stop when what is called is made.
LEMMA StopMakesAll ==
  ASSUME IInv, StopDraining
  PROVE  NeededThere \subseteq Made
<1>1. IInv' /\ phase' = "done" /\ UNCHANGED <<program, cache>>
  BY StopDrainingStep DEF StopDraining
<1>2. \A i \in DOMAIN cache : cache[i].sites # {} => cache[i].drained
  BY <1>1 DEF IInv, SettledInv, Settled
<1>3. ASSUME NEW s, NEW request, At(s, request) PROVE request \in Made
  <2>1. PICK i \in DOMAIN cache : cache[i].request = request /\ s \in cache[i].sites
    BY <1>3 DEF At
  <2>. QED
    BY <2>1, <1>2 DEF Made
<1>4. ASSUME NEW call \in CallsOf(Code) PROVE Needed(call, IntType) \in Made
  <2>1. PICK k \in 1 .. Len(Code) : call = Code[k]
    BY <1>4, Bodies DEF IInv, CallsOf
  <2>2. At(<<Root, k>>, Needed(call, IntType))
    BY <2>1 DEF IInv, CallsPlaced, Placed, StopDraining, Swept
  <2>. QED
    BY <2>2, <1>3
<1>5. ASSUME NEW i \in Made, NEW call \in CallsOf(program.body[i.to])
      PROVE  Needed(call, i.type) \in Made
  <2>1. PICK p \in DOMAIN cache : i = cache[p].request /\ cache[p].drained
    BY <1>5 DEF Made
  <2>2. PICK k \in 1 .. Len(Body(p)) : call = Body(p)[k]
    BY <2>1, <1>5, Bodies DEF IInv, CallsOf, Body
  <2>3. At(<<p, k>>, Needed(call, i.type))
    BY <2>1, <2>2 DEF IInv, CallsPlaced, Placed
  <2>. QED
    BY <2>3, <1>3
<1>. QED
  BY <1>4, <1>5 DEF NeededThere

\* How many instances are asked for.
LEMMA ImageFinite ==
  ASSUME NEW n \in Nat, NEW f, f = [k \in 1 .. n |-> f[k]]
  PROVE  IsFiniteSet({f[k] : k \in 1 .. n})
<1> DEFINE T == {f[k] : k \in 1 .. n}
<1>1. f \in Surjection(1 .. n, T)
  BY DEF Surjection
<1>2. IsFiniteSet(1 .. n)
  BY FS_Interval
<1>. HIDE DEF T
<1>3. IsFiniteSet(T)
  BY <1>1, <1>2, FS_Surjection
<1>. QED
  BY <1>3 DEF T

\* The instances that a body calls for, or is taken to.
CalledIn(calls, own) ==
    {Needed(call, own) : call \in CallsOf(calls)} \cup
    {Inferred(call, own) : call \in CallsOf(calls)}

LEMMA CalledInFinite ==
  ASSUME NEW calls \in Seq(Call), NEW own
  PROVE  IsFiniteSet(CalledIn(calls, own))
<1> DEFINE f == [k \in 1 .. Len(calls) |-> Needed(calls[k], own)]
           g == [k \in 1 .. Len(calls) |-> Inferred(calls[k], own)]
<1>1. {Needed(call, own) : call \in CallsOf(calls)} = {f[k] : k \in 1 .. Len(calls)}
  BY DEF CallsOf
<1>2. {Inferred(call, own) : call \in CallsOf(calls)} = {g[k] : k \in 1 .. Len(calls)}
  BY DEF CallsOf
<1>3. Len(calls) \in Nat /\ f = [k \in 1 .. Len(calls) |-> f[k]]
      /\ g = [k \in 1 .. Len(calls) |-> g[k]]
  OBVIOUS
<1>. HIDE DEF f, g
<1>4. IsFiniteSet({f[k] : k \in 1 .. Len(calls)})
  BY <1>3, ImageFinite
<1>5. IsFiniteSet({g[k] : k \in 1 .. Len(calls)})
  BY <1>3, ImageFinite
<1>. QED
  BY <1>1, <1>2, <1>4, <1>5, FS_Union DEF CalledIn

LEMMA CalledFinite ==
  ASSUME IInv
  PROVE  IsFiniteSet(NeededThere \cup InferredThere)
<1> DEFINE F == [i \in 1 .. Len(cache) |-> CalledIn(Body(i), cache[i].request.type)]
           S == {F[i] : i \in 1 .. Len(cache)}
<1>0. Len(cache) \in Nat /\ DOMAIN cache = 1 .. Len(cache)
  BY DEF IInv, TypeInv
<1>1. IsFiniteSet(S)
  <2>1. F = [i \in 1 .. Len(cache) |-> F[i]]
    OBVIOUS
  <2>. HIDE DEF F
  <2>. QED
    BY <1>0, <2>1, ImageFinite
<1>2. \A T \in S : IsFiniteSet(T)
  BY <1>0, Bodies, CalledInFinite DEF IInv
<1>3. IsFiniteSet(CalledIn(Code, IntType))
  BY Bodies, CalledInFinite DEF IInv
<1>4. IsFiniteSet(CalledIn(Code, IntType) \cup UNION S)
  <2>. HIDE DEF S
  <2>1. IsFiniteSet(UNION S)
    BY <1>1, <1>2, FS_UNION
  <2>. QED
    BY <1>3, <2>1, FS_Union
<1>5. ASSUME NEW x \in NeededThere \cup InferredThere
      PROVE  x \in CalledIn(Code, IntType) \cup UNION S
  <2>1. CASE \E call \in CallsOf(Code) :
               x = Needed(call, IntType) \/ x = Inferred(call, IntType)
    BY <2>1 DEF CalledIn
  <2>2. CASE \E r \in Made : \E call \in CallsOf(program.body[r.to]) :
               x = Needed(call, r.type) \/ x = Inferred(call, r.type)
    <3>1. PICK r \in Made : \E call \in CallsOf(program.body[r.to]) :
                              x = Needed(call, r.type) \/ x = Inferred(call, r.type)
      BY <2>2
    <3>2. PICK i \in DOMAIN cache : r = cache[i].request
      BY DEF Made
    <3>3. x \in CalledIn(Body(i), cache[i].request.type)
      BY <3>1, <3>2 DEF CalledIn, Body
    <3>4. CalledIn(Body(i), cache[i].request.type) \in S
      BY <1>0
    <3>. HIDE DEF S
    <3>. QED
      BY <3>3, <3>4
  <2>3. \/ \E call \in CallsOf(Code) : x = Needed(call, IntType) \/ x = Inferred(call, IntType)
        \/ \E r \in Made : \E call \in CallsOf(program.body[r.to]) :
              x = Needed(call, r.type) \/ x = Inferred(call, r.type)
    BY DEF NeededThere, InferredThere
  <2>. QED
    BY <2>1, <2>2, <2>3
<1>. HIDE DEF S
<1>6. NeededThere \cup InferredThere \in SUBSET (CalledIn(Code, IntType) \cup UNION S)
  BY <1>5
<1>. QED
  BY <1>4, <1>6, FS_Subset

LEMMA AllAreThere ==
  ASSUME IInv, AskedInv, phase = "sweep", NEW i \in DOMAIN cache
  PROVE  cache[i].request \in NeededThere \cup InferredThere
<1>1. CASE CalledByCode(i)
  BY <1>1 DEF CalledByCode, NeededThere, InferredThere
<1>2. CASE ~CalledByCode(i)
  <2>1. PICK p \in DOMAIN cache : cache[p].drained /\ CallsFor(p, i)
    BY <1>2 DEF AskedInv, AllCalled
  <2>2. PICK r \in Made : r = cache[p].request
    BY <2>1 DEF Made
  <2>3. PICK call \in CallsOf(program.body[r.to]) :
          cache[i].request = Needed(call, r.type) \/ cache[i].request = Inferred(call, r.type)
    BY <2>1, <2>2 DEF CallsFor, Body
  <2>. QED
    BY <2>3 DEF NeededThere, InferredThere
<1>. QED
  BY <1>1, <1>2

LEMMA ManyAskedFor ==
  ASSUME IInv, AskedInv, phase = "sweep"
  PROVE  Cardinality(NeededThere \cup InferredThere) >= Len(cache)
<1> DEFINE f == [i \in 1 .. Len(cache) |-> cache[i].request]
           T == NeededThere \cup InferredThere
<1>0. Len(cache) \in Nat /\ DOMAIN cache = 1 .. Len(cache)
  BY DEF IInv, TypeInv
<1>1. f \in Injection(1 .. Len(cache), T)
  <2>1. \A i \in 1 .. Len(cache) : f[i] \in T
    BY <1>0, AllAreThere
  <2>2. \A i, j \in 1 .. Len(cache) : f[i] = f[j] => i = j
    BY <1>0 DEF IInv, CacheInv, Unique
  <2>. HIDE DEF T
  <2>. QED
    BY <2>1, <2>2 DEF Injection, IsInjective
<1>2. IsFiniteSet(T)
  BY CalledFinite
<1>. HIDE DEF f, T
<1>3. Cardinality(1 .. Len(cache)) <= Cardinality(T)
  BY <1>1, <1>2, FS_Injection
<1>4. Cardinality(1 .. Len(cache)) = Len(cache)
  <2>1. \A n \in Nat : Cardinality(1 .. n) = n
    BY FS_Interval
  <2>. QED
    BY <1>0, <2>1
<1>5. Cardinality(T) \in Nat
  BY <1>2, FS_CardinalityType
<1>. QED
  BY <1>0, <1>3, <1>4, <1>5 DEF T

\* An entry's depth is at most its place in the cache.
LEMMA DepthBounded ==
  ASSUME IInv, NEW i \in DOMAIN cache
  PROVE  Depth[i] \in Nat /\ Depth[i] <= Len(cache)
<1> DEFINE T == {j \in DOMAIN cache : Depth[j] <= j}
<1>0. ParentsBefore /\ Len(cache) \in Nat /\ DOMAIN cache = 1 .. Len(cache)
  BY DEF IInv, TypeInv, ParentInv, ParentsBefore
<1>1. /\ Depth \in [DOMAIN cache -> Nat]
      /\ \A j \in DOMAIN cache :
           Depth[j] = IF cache[j].parent = Root THEN 1
                                                ELSE 1 + Depth[cache[j].parent]
  BY <1>0, DepthFacts
<1>2. ASSUME NEW j \in 1 .. Len(cache), \A k \in 1 .. Len(cache) : k < j => k \in T
      PROVE  j \in T
  <2>1. CASE cache[j].parent = Root
    BY <2>1, <1>0, <1>1
  <2>2. CASE cache[j].parent # Root
    <3>1. PICK p \in 1 .. Len(cache) : p = cache[j].parent /\ p < j
      BY <2>2, <1>0 DEF ParentsBefore
    <3>2. Depth[p] <= p /\ Depth[p] \in Nat /\ Depth[j] = 1 + Depth[p]
      BY <2>2, <3>1, <1>0, <1>1, <1>2
    <3>. QED
      BY <3>1, <3>2, <1>0
  <2>. QED
    BY <2>1, <2>2
<1>. HIDE DEF T
<1>3. \A j \in 1 .. Len(cache) : j \in T
  BY <1>0, <1>2, AlongCache
<1>4. Depth[i] <= i /\ Depth[i] \in Nat
  BY <1>0, <1>1, <1>3 DEF T
<1>. QED
  BY <1>0, <1>4

LEMMA LimitGivesUp ==
  ASSUME IInv, AskedInv, RaiseLimit
  PROVE  Cardinality(NeededThere \cup InferredThere) > Plenty
<1>1. index \in DOMAIN cache /\ phase = "sweep" /\ Len(cache) \in Nat
  BY DEF RaiseLimit, ToInstantiate, Sweeping, IInv, TypeInv
<1>2. Depth[index] \in Nat /\ Depth[index] <= Len(cache)
  BY <1>1, DepthBounded
<1>3. Len(cache) > Plenty
  BY <1>1, <1>2, LimitAssumption DEF RaiseLimit, TooMuch, Plenty
<1>4. Cardinality(NeededThere \cup InferredThere) \in Nat
  BY CalledFinite, FS_CardinalityType
<1>. QED
  BY <1>1, <1>3, <1>4, ManyAskedFor, LimitAssumption DEF Plenty

LEMMA InitRefines == Init => I!Init
BY DEF Init, I!Init

LEMMA StepRefines == IInv /\ AskedInv /\ [Next]_vars => [I!Next]_(I!instanceVars)
<1> SUFFICES ASSUME IInv, AskedInv, [Next]_vars PROVE [I!Next]_(I!instanceVars)
  OBVIOUS
<1>0. program' = program
  BY DEF Next, vars, CheckCall, StartDraining, Skip, RewriteLateSites, RaiseLimit,
         StartClone, CheckCloneCall, RejectClone, FinishClone, NextDrain, NextRound,
         StopDraining
<1>1. ASSUME Made' = Made, Verdict' = Verdict
      PROVE  UNCHANGED I!instanceVars
  BY <1>0, <1>1 DEF I!instanceVars, Made, Verdict
<1>2. CASE CheckCall \/ CheckCloneCall
  <2>1. CheckCall \/ VisitCloneCall
    BY <1>2 DEF CheckCloneCall, VisitCloneCall
  <2>2. Made' = Made
    BY <2>1, VisitMakesNothing
  <2>3. Verdict' = Verdict
    BY <1>2 DEF CheckCall, CheckCloneCall, Verdict
  <2>. QED
    BY <2>2, <2>3, <1>1
<1>3. CASE StartDraining \/ Skip \/ StartClone \/ NextDrain \/ NextRound \/ UNCHANGED vars
  <2>1. UNCHANGED cache /\ Verdict' = Verdict
    BY <1>3 DEF StartDraining, Skip, StartClone, ToInstantiate, Sweeping, NextDrain,
                NextRound, Swept, Verdict, vars
  <2>2. Made' = Made
    BY <2>1 DEF Made
  <2>. QED
    BY <2>1, <2>2, <1>1
<1>4. CASE RewriteLateSites
  <2>1. Verdict' = Verdict
    BY <1>4 DEF RewriteLateSites, Verdict
  <2>. QED
    BY <1>4, <2>1, <1>1, RewriteMakesNothing
<1>5. CASE FinishClone
  <2>1. \E i \in NeededThere \ Made : Made' = Made \cup {i}
    BY <1>5, FinishMakesOne
  <2>2. Verdict = "open" /\ Verdict' = "open"
    BY <1>5 DEF FinishClone, Verdict
  <2>3. I!Make
    BY <2>1, <2>2, <1>0, SameCalled DEF I!Make, Made, Verdict
  <2>. QED
    BY <2>3 DEF I!Next
<1>6. CASE RejectClone
  <2>1. VisitCloneCall /\ Wrong(CloneCall, CloneType)
        /\ Verdict = "open" /\ Verdict' = "failed"
    BY <1>6 DEF RejectClone, VisitCloneCall, Verdict
  <2>2. Made' = Made
    BY <2>1, VisitMakesNothing
  <2>3. PICK i \in NeededThere : i = cache[index].request
    BY <1>6, CloneNeeded DEF RejectClone
  <2>4. CloneCall \in CallsOf(program.body[i.to]) /\ CloneType = i.type
    BY <2>1, <2>3, CloneCallVisited DEF Body, CloneType
  <2>5. \E call \in I!CallsOf(program.body[i.to]) : I!Wrong(call, i.type)
    BY <2>1, <2>4, SameWords
  <2>6. I!Reject
    BY <2>1, <2>2, <2>3, <2>5, <1>0, SameCalled DEF I!Reject, Made, Verdict
  <2>. QED
    BY <2>6 DEF I!Next
<1>7. CASE RaiseLimit
  <2>1. Verdict = "open" /\ Verdict' = "failed" /\ UNCHANGED cache
    BY <1>7 DEF RaiseLimit, ToInstantiate, Sweeping, Verdict
  <2>2. Made' = Made
    BY <2>1 DEF Made
  <2>3. Cardinality(NeededThere \cup InferredThere) > Plenty
    BY <1>7, LimitGivesUp
  <2>4. \A S : I!Cardinality(S) = Cardinality(S)
    BY DEF I!Cardinality, Cardinality
  <2>5. I!GiveUp
    BY <2>1, <2>2, <2>3, <2>4, <1>0, SameCalled DEF I!GiveUp, Made, Verdict, Plenty
  <2>. QED
    BY <2>5 DEF I!Next
<1>8. CASE StopDraining
  <2>1. Verdict = "open" /\ Verdict' = "done" /\ UNCHANGED cache
    BY <1>8 DEF StopDraining, Swept, Verdict
  <2>2. Made' = Made
    BY <2>1 DEF Made
  <2>3. NeededThere \subseteq Made
    BY <1>8, StopMakesAll
  <2>4. I!Finish
    BY <2>1, <2>2, <2>3, <1>0, SameCalled DEF I!Finish, Made, Verdict
  <2>. QED
    BY <2>4 DEF I!Next
<1>. QED
  BY <1>2, <1>3, <1>4, <1>5, <1>6, <1>7, <1>8 DEF Next

\* Who asks for what is in the cache, in every state.
THEOREM AskedAlways == Spec => []AskedInv
<1>1. Init => AskedInv
  BY DEF Init, AskedInv, SitesInCode, AskedByAnother, AllCalled
<1>2. IInv /\ AskedInv /\ [Next]_vars => AskedInv'
  BY AskedStep
<1>. QED
  BY <1>1, <1>2, Invariance, PTL DEF Spec

\* The drains make the instances that Instances would, one at a time, whatever
\* the order in which they see the requests: each is called, in the type it is
\* needed in, by ordinary code or by one made before; they stop only when none
\* is missing, and give up only for the reasons Instances names (the drains and
\* finishInstantiation of Monomorphize.cpp).
THEOREM ImplementsInstancesAlways == Spec => ImplementsInstances
<1>1. Init => I!Init
  BY InitRefines
<1>2. IInv /\ AskedInv /\ [Next]_vars => [I!Next]_(I!instanceVars)
  BY StepRefines
<1>. QED
  BY <1>1, <1>2, Invariance, AskedAlways, PTL
  DEF Spec, ImplementsInstances, I!Spec

=============================================================================
