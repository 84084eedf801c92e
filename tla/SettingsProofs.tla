--------------------------- MODULE SettingsProofs ---------------------------
(***************************************************************************)
(* Proofs about Records and SettingsPages, for any hosts, machines,        *)
(* repositories, pages, requests left behind and reads in flight.          *)
(***************************************************************************)
EXTENDS SettingsPages, TLAPS

-----------------------------------------------------------------------------
(* The inductive invariant of the records *)

\* A request that a host is working on.
Served(j) == job[j].phase \notin {"idle", "answered"}

\* The list request j computes from what its host has in memory.
NextOf(x, has) ==
  CASE x.op = "addNode" -> has.nodes \cup {x.of}
    [] x.op = "addRepo" -> has.repos \cup {x.of}
    [] x.op = "removeRepo" -> has.repos \ {x.of}
    [] x.op = "removeNode" /\ x.doc = "nodes" -> has.nodes \ {x.of}
    [] OTHER -> has.repos \ OfMachine(has.repos, x.of)

\* What a request is, by the phase it is in.
JobsSound ==
  \A j \in Jobs :
    LET x == job[j]
    IN  /\ Served(j) <=> x.at # None
        /\ Served(j) => x.op \in Ops /\ WellNamed(x.op, x.of)
        /\ x.phase = "awaiting" => x.op \in {"addRepo", "removeRepo", "other"}
        /\ Writing(j, "nodes") => /\ x.op \in {"addNode", "removeNode"}
                                  /\ x.next \subseteq minted
        /\ Writing(j, "repos") => /\ x.op \in {"addRepo", "removeRepo", "removeNode"}
                                  /\ x.next \subseteq Repos
        /\ x.phase \in {"writing", "committed"} => x.doc \in Docs
        /\ Writing(j, "nodes") /\ x.op = "addNode" => x.of \in x.next

\* Every machine on record, or in a change of the list, has its identity.
MintedSound ==
  /\ document.nodes \subseteq minted
  /\ \A h \in Hosts : held[h].nodes \subseteq minted
  /\ \A j \in Jobs : Writing(j, "nodes") => job[j].of \in minted

\* The document is what the one committed request of it wrote.
CommittedIsWritten ==
  \A j \in Jobs : job[j].phase = "committed" =>
    /\ document[job[j].doc] = job[j].next
    /\ \A i \in Jobs : job[i].phase = "committed" /\ job[i].doc = job[j].doc => i = j

\* A machine still being added is nowhere yet.
AddsAnew ==
  \A j \in Jobs : job[j].phase = "writing" /\ job[j].op = "addNode" =>
    /\ job[j].of \in minted
    /\ job[j].of \notin document.nodes
    /\ \A h \in Hosts : job[j].of \notin held[h].nodes
    /\ \A i \in Jobs : i # j /\ Writing(i, "nodes") => job[i].of # job[j].of
                                                     /\ job[j].of \notin job[i].next

\* While the writes of one host do not overlap, a document has one writer, which
\* computed its list from memory as it is, and memory is what is on disk.
CalmWrites ==
  calm =>
    /\ \A g, h \in Hosts : g = h
    /\ \A j \in Jobs, d \in Docs : Writing(j, d) =>
         /\ \A i \in Jobs : Writing(i, d) => i = j
         /\ job[j].next = NextOf(job[j], held[job[j].at])
         /\ job[j].phase = "writing" => held[job[j].at][d] = document[d]

RecSound ==
  /\ RecordsInv
  /\ JobsSound
  /\ MintedSound
  /\ CommittedIsWritten
  /\ AddsAnew
  /\ CalmWrites

-----------------------------------------------------------------------------
(* The inductive invariant of the pages *)

\* No request is adding machine m, or none has written it.
Unmade(m) ==
  \A j \in Jobs : job[j].phase = "writing" /\ job[j].op = "addNode" => job[j].of # m

\* Machine m is nowhere that host h could have it from.
GoneFor(h, m) ==
  /\ m \notin held[h].nodes
  /\ m \notin document.nodes
  /\ \A j \in Jobs : Writing(j, "nodes") /\ job[j].op = "addNode" => job[j].of # m

HeldOrGone(h, m) == m \in held[h].nodes \/ GoneFor(h, m)

\* The reads of a page: one is the newest, the last one a change awaits.
LoadsSound(p) ==
  /\ \A l \in Loads : /\ load[p][l].newest => load[p][l].flying
                      /\ load[p][l].got => load[p][l].newest
  /\ \A l, i \in Loads : load[p][l].newest /\ load[p][i].newest => l = i
  /\ load[p][Reread].flying => page[p].last = "done" /\ page[p].busy # "no"
  /\ ~page[p].open => page[p] = NoPage /\ \A l \in Loads : ~load[p][l].flying

\* A page and its change.
ChangeSound(p) ==
  LET x == page[p]
  IN  /\ job[p].phase # "idle" =>
           x.open /\ x.busy # "no" /\ x.last = "none" /\ ~x.failed
      /\ x.last = "done" =>
           /\ ~x.failed
           /\ \A l \in Loads : load[p][l].got => load[p][l].found.own
           /\ Reading(p) \/ x.error \/ x.shown.own
      /\ x.last = "failed" =>
           x.busy = "no" /\ (x.failed \/ x.unsaid \/ (x.error /\ ~Reading(p)))
      /\ x.busy = "submit" => x.dialog # "none" \/ x.unsaid

\* The machines a page has read of.
Seen(p) == page[p].shown.nodes \cup page[p].missed
             \cup UNION {load[p][l].found.nodes : l \in Loads}

\* A machine a page has read of has its identity, and is in memory or gone.
SeenSound(p) ==
  \A m \in Seen(p) : /\ m \in minted /\ Unmade(m)
                     /\ calm => HeldOrGone(HostOf[p], m)

\* What a page has missed is not in memory, and so in no read to come; nor is
\* what a read that came is without, of what is shown.
MissedSound(p) ==
  LET has == held[HostOf[p]].nodes
  IN  /\ page[p].missed \cap has = {}
      /\ page[p].shown.nodes \cap page[p].missed = {}
      /\ \A l \in Loads : load[p][l].got =>
           /\ load[p][l].found.nodes \cap page[p].missed = {}
           /\ (page[p].shown.nodes \ load[p][l].found.nodes) \cap has = {}

PageSound(p) ==
  /\ LoadsSound(p)
  /\ ChangeSound(p)
  /\ SeenSound(p)
  /\ calm => MissedSound(p)

PagesSound == PageTypeOK /\ \A p \in Pages : PageSound(p)

SettingsSound == RecSound /\ PagesSound
-----------------------------------------------------------------------------
(* What a request becomes *)

(* A request that has not been asked has the shape of one.                   *)
LEMMA NoJobIsAJob == NoJob \in Job /\ NoJob.phase = "idle" /\ NoJob.at = None
                       /\ NoJob.op = None /\ NoJob.doc = None /\ ~NoJob.ok
  BY DEF NoJob, Job

(* A request a page asks of its host names what it is about.                 *)
LEMMA AskedIsAJob ==
  ASSUME NEW h \in Hosts, NEW op \in Ops, NEW of \in Machines \cup Repos
  PROVE  /\ Asked(h, op, of) \in Job
         /\ Asked(h, op, of).op = op
         /\ Asked(h, op, of).of = of
         /\ Asked(h, op, of).at = h
  BY NoJobIsAJob DEF Asked, NoJob, Job

(* An answered request is served no more, and writes nothing.                *)
LEMMA AnsweredIsAJob ==
  ASSUME NEW j \in Jobs, NEW ok \in BOOLEAN
  PROVE  /\ Answered(j, ok) \in Job
         /\ Answered(j, ok).phase \in {"idle", "answered"}
         /\ Answered(j, ok).at = None
         /\ j \in Pages => Answered(j, ok).phase = "answered"
  BY LeftAssumption DEF Answered, NoJob, Job, Jobs

(* A request that goes on is the one it was, in its next phase.              *)
LEMMA GoesOn ==
  ASSUME NEW x \in Job,
         NEW ph \in {"idle", "awaiting", "writing", "committed", "answered"}
  PROVE  LET y == [x EXCEPT !.phase = ph]
         IN  /\ y \in Job /\ y.phase = ph /\ y.op = x.op /\ y.of = x.of
             /\ y.at = x.at /\ y.doc = x.doc /\ y.next = x.next
  BY DEF Job

(* A request that starts a write of a list is the one it was, with the list. *)
LEMMA WritesList ==
  ASSUME NEW x \in Job, NEW d \in Docs,
         NEW list \in (SUBSET Machines) \cup (SUBSET Repos)
  PROVE  LET y == [x EXCEPT !.phase = "writing", !.doc = d, !.next = list]
         IN  /\ y \in Job /\ y.phase = "writing" /\ y.op = x.op /\ y.of = x.of
             /\ y.at = x.at /\ y.doc = d /\ y.next = list
  BY DEF Job
-----------------------------------------------------------------------------
(* The records, step by step *)

(* A request that ends, short of publishing what it wrote, leaves the        *)
(* records sound; a removal cut off explains what it leaves.                 *)
LEMMA EndsSound ==
  ASSUME RecSound, NEW j \in Jobs, NEW y \in Job,
         y.phase \in {"idle", "answered"}, y.at = None,
         SetJob(j, y), UNCHANGED <<document, held, calm>>,
         minted \subseteq minted', minted' \in SUBSET Machines,
         job[j].phase # "committed",
         astray' \in SUBSET Repos, astray \subseteq astray',
         Writing(j, "repos") /\ job[j].op = "removeNode" =>
           OfMachine(held[job[j].at].repos, job[j].of) \subseteq astray'
  PROVE  RecSound'
<1>1. /\ job' \in [Jobs -> Job] /\ job'[j] = y
      /\ \A i \in Jobs \ {j} : job'[i] = job[i]
  BY DEF SetJob, RecSound, RecordsInv, RecordsTypeOK
<1>2. \A i \in Jobs, d \in Docs : Writing(i, d)' <=> Writing(i, d) /\ i # j
  BY <1>1 DEF Writing
<1>3. RecordsTypeOK'
  BY <1>1 DEF RecSound, RecordsInv, RecordsTypeOK, WellNamed
<1>4. MemoryIsDocument'
  BY <1>1 DEF RecSound, RecordsInv, MemoryIsDocument
<1>5. OrphanExplained'
  <2> SUFFICES ASSUME calm', NEW h \in Hosts,
                      NEW r \in Stray(held[h].repos, held[h].nodes), r \notin astray'
               PROVE  \E i \in Jobs : /\ Writing(i, "repos")' /\ job'[i].at = h
                                      /\ job'[i].op = "removeNode" /\ job'[i].of = On[r]
    BY DEF OrphanExplained
  <2>1. PICK i \in Jobs : /\ Writing(i, "repos") /\ job[i].at = h
                          /\ job[i].op = "removeNode" /\ job[i].of = On[r]
    BY DEF RecSound, RecordsInv, OrphanExplained
  <2>2. i # j
    BY <2>1 DEF OfMachine, Stray
  <2> QED
    BY <1>1, <1>2, <2>1, <2>2 DEF Docs
<1>6. JobsSound'
  BY <1>1, <1>2 DEF RecSound, JobsSound, Served, Docs, Writing, WellNamed
<1>7. MintedSound'
  BY <1>1, <1>2 DEF RecSound, MintedSound, Docs
<1>8. CommittedIsWritten'
  BY <1>1 DEF RecSound, CommittedIsWritten
<1>9. AddsAnew'
  BY <1>1, <1>2 DEF RecSound, AddsAnew, Docs
<1>10. CalmWrites'
  BY <1>1, <1>2 DEF RecSound, CalmWrites
<1> QED
  BY <1>3, <1>4, <1>5, <1>6, <1>7, <1>8, <1>9, <1>10 DEF RecSound, RecordsInv
(* A request that begins to await leaves the records sound.                  *)
LEMMA AwaitsSound ==
  ASSUME RecSound, NEW j \in Jobs, NEW y \in Job,
         y.phase = "awaiting", y.at # None,
         y.op \in {"addRepo", "removeRepo", "other"}, WellNamed(y.op, y.of),
         SetJob(j, y), UNCHANGED <<document, held, minted, calm, astray>>,
         job[j].phase = "idle"
  PROVE  RecSound'
<1>1. /\ job' \in [Jobs -> Job] /\ job'[j] = y
      /\ \A i \in Jobs \ {j} : job'[i] = job[i]
  BY DEF SetJob, RecSound, RecordsInv, RecordsTypeOK
<1>2. \A i \in Jobs, d \in Docs : Writing(i, d)' <=> Writing(i, d) /\ i # j
  BY <1>1 DEF Writing
<1>3. RecordsTypeOK'
  BY <1>1 DEF RecSound, RecordsInv, RecordsTypeOK, WellNamed
<1>4. MemoryIsDocument'
  BY <1>1 DEF RecSound, RecordsInv, MemoryIsDocument
<1>5. OrphanExplained'
  <2> SUFFICES ASSUME calm', NEW h \in Hosts,
                      NEW r \in Stray(held[h].repos, held[h].nodes), r \notin astray'
               PROVE  \E i \in Jobs : /\ Writing(i, "repos")' /\ job'[i].at = h
                                      /\ job'[i].op = "removeNode" /\ job'[i].of = On[r]
    BY DEF OrphanExplained
  <2>1. PICK i \in Jobs : /\ Writing(i, "repos") /\ job[i].at = h
                          /\ job[i].op = "removeNode" /\ job[i].of = On[r]
    BY DEF RecSound, RecordsInv, OrphanExplained
  <2>2. i # j
    BY <2>1 DEF Writing
  <2> QED
    BY <1>1, <1>2, <2>1, <2>2 DEF Docs
<1>6. JobsSound'
  BY <1>1, <1>2 DEF RecSound, JobsSound, Served, Docs, Ops, Writing, WellNamed
<1>7. MintedSound'
  BY <1>1, <1>2 DEF RecSound, MintedSound, Docs
<1>8. CommittedIsWritten'
  BY <1>1 DEF RecSound, CommittedIsWritten
<1>9. AddsAnew'
  BY <1>1, <1>2 DEF RecSound, AddsAnew, Docs
<1>10. CalmWrites'
  BY <1>1, <1>2 DEF RecSound, CalmWrites
<1> QED
  BY <1>3, <1>4, <1>5, <1>6, <1>7, <1>8, <1>9, <1>10 DEF RecSound, RecordsInv

(* A request that starts the write of a list computed from memory, of the    *)
(* record it names or of a machine with a new identity, leaves the records   *)
(* sound.                                                                    *)
LEMMA StartsSound ==
  ASSUME RecSound, NEW j \in Jobs, NEW x \in Job, NEW d \in Docs,
         NEW list \in (SUBSET Machines) \cup (SUBSET Repos),
         StartsWrite(j, x, d, list), x.at \in Hosts,
         WellNamed(x.op, x.of), UNCHANGED <<document, held, astray>>,
         job[j].phase \in {"idle", "awaiting"},
         \/ /\ d = "nodes" /\ x.op = "addNode" /\ x.of \notin minted
            /\ list = held[x.at].nodes \cup {x.of}
            /\ minted' = minted \cup {x.of}
         \/ /\ d = "nodes" /\ x.op = "removeNode" /\ x.of \in held[x.at].nodes
            /\ list = held[x.at].nodes \ {x.of}
            /\ minted' = minted
         \/ /\ d = "repos" /\ x.op = "addRepo"
            /\ list = held[x.at].repos \cup {x.of}
            /\ minted' = minted
         \/ /\ d = "repos" /\ x.op = "removeRepo"
            /\ list = held[x.at].repos \ {x.of}
            /\ minted' = minted
  PROVE  RecSound'
<1> DEFINE y == [x EXCEPT !.phase = "writing", !.doc = d, !.next = list]
<1>0. /\ y \in Job /\ y.phase = "writing" /\ y.op = x.op /\ y.of = x.of
      /\ y.at = x.at /\ y.doc = d /\ y.next = list
  BY DEF Job
<1>1. /\ job' \in [Jobs -> Job] /\ job'[j] = y
      /\ \A i \in Jobs \ {j} : job'[i] = job[i]
  BY <1>0 DEF StartsWrite, SetJob, RecSound, RecordsInv, RecordsTypeOK
<1> HIDE DEF y
<1>a. None \notin Hosts
  BY RecordsNoneAssumption
<1>b. x.op \in {"addNode", "removeNode"} => x.of \in Machines
  BY DEF WellNamed
<1>c. x.op \in {"addRepo", "removeRepo"} => x.of \in Repos
  BY DEF WellNamed
<1>d. /\ document \in Records /\ held \in [Hosts -> Records]
      /\ held[x.at] \in Records
  BY DEF RecSound, RecordsInv, RecordsTypeOK
<1>e. held[x.at].nodes \subseteq minted /\ minted \subseteq Machines
  BY DEF RecSound, MintedSound, RecordsInv, RecordsTypeOK
<1>f. held[x.at].repos \subseteq Repos
  BY <1>d DEF Records
<1>2. \A i \in Jobs, e \in Docs : Writing(i, e)' <=> IF i = j THEN e = d ELSE Writing(i, e)
  BY <1>0, <1>1 DEF Writing
<1>3. minted \subseteq minted' /\ minted' \subseteq Machines
  BY <1>b, <1>e
<1>4. calm' => calm /\ Unopposed(j, d)
  BY DEF StartsWrite
<1>5. RecordsTypeOK'
  <2>1. calm' \in BOOLEAN
    <3>1. calm' = (calm /\ Unopposed(j, d))
      BY DEF StartsWrite
    <3> QED
      BY <3>1, Zenon DEF Unopposed
  <2> QED
    BY <1>0, <1>1, <1>3, <1>a, <2>1 DEF RecSound, RecordsInv, RecordsTypeOK
<1>6. MemoryIsDocument'
  BY <1>0, <1>1 DEF RecSound, RecordsInv, MemoryIsDocument
<1>7. OrphanExplained'
  <2> SUFFICES ASSUME calm', NEW h \in Hosts,
                      NEW r \in Stray(held[h].repos, held[h].nodes), r \notin astray'
               PROVE  \E i \in Jobs : /\ Writing(i, "repos")' /\ job'[i].at = h
                                      /\ job'[i].op = "removeNode" /\ job'[i].of = On[r]
    BY DEF OrphanExplained
  <2>1. PICK i \in Jobs : /\ Writing(i, "repos") /\ job[i].at = h
                          /\ job[i].op = "removeNode" /\ job[i].of = On[r]
    BY <1>4 DEF RecSound, RecordsInv, OrphanExplained
  <2>2. i # j
    BY <2>1 DEF Writing
  <2> QED
    BY <1>1, <1>2, <2>1, <2>2 DEF Docs
<1>8. JobsSound'
  <2> SUFFICES ASSUME NEW i \in Jobs
               PROVE
         LET z == job'[i]
         IN  /\ Served(i)' <=> z.at # None
             /\ Served(i)' => z.op \in Ops /\ WellNamed(z.op, z.of)
             /\ z.phase = "awaiting" => z.op \in {"addRepo", "removeRepo", "other"}
             /\ Writing(i, "nodes")' => /\ z.op \in {"addNode", "removeNode"}
                                       /\ z.next \subseteq minted'
             /\ Writing(i, "repos")' => /\ z.op \in {"addRepo", "removeRepo", "removeNode"}
                                       /\ z.next \subseteq Repos
             /\ z.phase \in {"writing", "committed"} => z.doc \in Docs
             /\ Writing(i, "nodes")' /\ z.op = "addNode" => z.of \in z.next
    BY DEF JobsSound
  <2>1. CASE i # j
    BY <1>1, <1>2, <1>3, <2>1 DEF RecSound, JobsSound, Served, Docs
  <2>2. CASE i = j
    BY <1>0, <1>1, <1>2, <1>3, <1>a, <1>b, <1>c, <1>e, <1>f, <2>2
    DEF Served, Docs, Ops
  <2> QED
    BY <2>1, <2>2
<1>9. MintedSound'
  BY <1>0, <1>1, <1>2, <1>3, <1>e DEF RecSound, MintedSound, Docs
<1>10. CommittedIsWritten'
  BY <1>0, <1>1 DEF RecSound, CommittedIsWritten
<1>11. AddsAnew'
  <2> SUFFICES ASSUME NEW i \in Jobs, job'[i].phase = "writing", job'[i].op = "addNode"
               PROVE  /\ job'[i].of \in minted'
                      /\ job'[i].of \notin document.nodes
                      /\ \A h \in Hosts : job'[i].of \notin held[h].nodes
                      /\ \A k \in Jobs : k # i /\ Writing(k, "nodes")' =>
                           job'[k].of # job'[i].of /\ job'[i].of \notin job'[k].next
    BY DEF AddsAnew
  <2>1. CASE i # j
    BY <1>0, <1>1, <1>2, <1>3, <2>1 DEF RecSound, AddsAnew, MintedSound, Docs
  <2>2. CASE i = j
    <3>1. x.of \notin minted /\ minted' = minted \cup {x.of} /\ job'[i].of = x.of
      BY <1>0, <1>1, <2>2
    <3> QED
      BY <1>0, <1>1, <1>2, <3>1, <2>2 DEF RecSound, JobsSound, MintedSound, Docs
  <2> QED
    BY <2>1, <2>2
<1>12. CalmWrites'
  <2> SUFFICES ASSUME calm', NEW i \in Jobs, NEW e \in Docs, Writing(i, e)'
               PROVE  /\ \A k \in Jobs : Writing(k, e)' => k = i
                      /\ job'[i].next = NextOf(job'[i], held[job'[i].at])
                      /\ job'[i].phase = "writing" => held[job'[i].at][e] = document[e]
    BY <1>4 DEF RecSound, CalmWrites
  <2>1. CASE i # j
    <3>1. Writing(i, e) /\ e # d
      BY <1>2, <1>4, <2>1 DEF Unopposed
    <3> QED
      BY <1>1, <1>2, <1>4, <2>1, <3>1 DEF RecSound, CalmWrites
  <2>2. CASE i = j
    <3>1. e = d /\ \A k \in Jobs : Writing(k, e)' => k = i
      BY <1>2, <1>4, <2>2 DEF Unopposed
    <3>2. job'[i].next = NextOf(job'[i], held[job'[i].at])
      BY <1>0, <1>1, <2>2 DEF NextOf
    <3>3. held[job'[i].at][e] = document[e]
      <4>1. \A g, h \in Hosts : g = h
        BY <1>4 DEF RecSound, CalmWrites
      <4>2. ~ \E k \in Jobs : job[k].phase = "committed" /\ job[k].doc = d
        BY <1>4 DEF Unopposed, Writing
      <4>3. held[x.at][d] = document[d]
        BY <4>1, <4>2 DEF RecSound, RecordsInv, MemoryIsDocument
      <4> QED
        BY <1>0, <1>1, <2>2, <3>1, <4>3
    <3> QED
      BY <3>1, <3>2, <3>3
  <2> QED
    BY <2>1, <2>2
<1> QED
  BY <1>5, <1>6, <1>7, <1>8, <1>9, <1>10, <1>11, <1>12 DEF RecSound, RecordsInv
(* The list that a request publishes is of the document it names.            *)
LEMMA ListIsOfDoc ==
  ASSUME RecSound, NEW j \in Jobs, job[j].phase \in {"writing", "committed"},
         NEW has \in Records
  PROVE  LET d == job[j].doc
             now == [has EXCEPT ![d] = job[j].next]
         IN  /\ d \in Docs /\ now \in Records
             /\ now[d] = job[j].next
             /\ \A e \in Docs : e # d => now[e] = has[e]
             /\ d = "nodes" => now.nodes = job[j].next /\ now.repos = has.repos
             /\ d = "repos" => now.repos = job[j].next /\ now.nodes = has.nodes
<1> DEFINE d == job[j].doc
           now == [has EXCEPT ![d] = job[j].next]
<1>1. d \in Docs
  BY DEF RecSound, JobsSound
<1>2. /\ d = "nodes" => job[j].next \subseteq Machines
      /\ d = "repos" => job[j].next \subseteq Repos
  BY DEF RecSound, JobsSound, Writing, RecordsInv, RecordsTypeOK
<1>3. now \in Records
  BY <1>1, <1>2 DEF Records, Docs
<1> QED
  BY <1>1, <1>3 DEF Records, Docs

(* The document replaced by the list of a request: the records stay sound.   *)
LEMMA CommitSound ==
  ASSUME RecSound, NEW j \in Jobs, Commit(j)
  PROVE  RecSound'
<1> DEFINE d == job[j].doc
<1>0. /\ job[j] \in Job /\ document \in Records /\ job[j].phase = "writing"
      /\ d \in Docs /\ Writing(j, d)
  BY DEF Commit, RecSound, RecordsInv, RecordsTypeOK, JobsSound, Writing
<1>1. /\ job' \in [Jobs -> Job]
      /\ \A i \in Jobs \ {j} : job'[i] = job[i]
      /\ job'[j].phase = "committed" /\ job'[j].op = job[j].op
      /\ job'[j].of = job[j].of /\ job'[j].at = job[j].at
      /\ job'[j].doc = d /\ job'[j].next = job[j].next
  <2>1. job' = [job EXCEPT ![j] = [job[j] EXCEPT !.phase = "committed"]]
    BY DEF Commit, SetJob
  <2>2. job \in [Jobs -> Job]
    BY DEF RecSound, RecordsInv, RecordsTypeOK
  <2> QED
    BY <1>0, <2>1, <2>2 DEF Job
<1>2. \A i \in Jobs, e \in Docs : Writing(i, e)' <=> Writing(i, e)
  BY <1>0, <1>1 DEF Writing
<1>3. /\ document' \in Records
      /\ document'[d] = job[j].next
      /\ \A e \in Docs : e # d => document'[e] = document[e]
      /\ d = "nodes" => document'.nodes = job[j].next
      /\ d = "repos" => document'.nodes = document.nodes
  BY <1>0, ListIsOfDoc DEF Commit
<1>4. UNCHANGED <<held, minted, calm, astray>>
  BY DEF Commit
<1> HIDE DEF d
<1>5. RecordsTypeOK'
  BY <1>0, <1>1, <1>3, <1>4 DEF RecSound, RecordsInv, RecordsTypeOK
<1>6. MemoryIsDocument'
  <2> SUFFICES ASSUME \A f, g \in Hosts : f = g, NEW h \in Hosts, NEW e \in Docs
               PROVE  \/ held[h][e] = document'[e]
                      \/ \E i \in Jobs : job'[i].phase = "committed" /\ job'[i].doc = e
    BY <1>4 DEF MemoryIsDocument
  <2>1. CASE e = d
    BY <1>1, <2>1
  <2>2. CASE e # d
    <3>1. \/ held[h][e] = document[e]
          \/ \E i \in Jobs : job[i].phase = "committed" /\ job[i].doc = e
      BY DEF RecSound, RecordsInv, MemoryIsDocument
    <3> QED
      BY <1>0, <1>1, <1>3, <2>2, <3>1
  <2> QED
    BY <2>1, <2>2
<1>7. OrphanExplained'
  BY <1>1, <1>2, <1>4 DEF RecSound, RecordsInv, OrphanExplained, Docs
<1>8. JobsSound'
  BY <1>0, <1>1, <1>2, <1>4 DEF RecSound, JobsSound, Served, Docs
<1>9. MintedSound'
  <2>1. document'.nodes \subseteq minted
    BY <1>0, <1>3 DEF RecSound, JobsSound, MintedSound, Docs
  <2> QED
    BY <1>1, <1>2, <1>4, <2>1 DEF RecSound, MintedSound, Docs
<1>10. CommittedIsWritten'
  <2>1. \A i \in Jobs : ~(job[i].phase = "committed" /\ job[i].doc = d)
    BY DEF Commit, d
  <2>2. \A i \in Jobs : job[i].phase = "committed" => job[i].doc \in Docs
    BY DEF RecSound, JobsSound
  <2> QED
    BY <1>1, <1>3, <2>1, <2>2 DEF RecSound, CommittedIsWritten
<1>11. AddsAnew'
  <2>1. \A i \in Jobs : i # j /\ job[i].phase = "writing" /\ job[i].op = "addNode" =>
          job[i].of \notin document'.nodes
    BY <1>0, <1>3 DEF RecSound, AddsAnew, Docs
  <2> QED
    BY <1>1, <1>2, <1>4, <2>1 DEF RecSound, AddsAnew, Docs
<1>12. CalmWrites'
  <2> SUFFICES ASSUME calm, NEW i \in Jobs, NEW e \in Docs, Writing(i, e)
               PROVE  /\ \A k \in Jobs : Writing(k, e) => k = i
                      /\ job'[i].next = NextOf(job'[i], held[job'[i].at])
                      /\ job'[i].phase = "writing" => held[job'[i].at][e] = document'[e]
    BY <1>2, <1>4 DEF RecSound, CalmWrites
  <2>1. /\ \A k \in Jobs : Writing(k, e) => k = i
        /\ job[i].next = NextOf(job[i], held[job[i].at])
        /\ job[i].phase = "writing" => held[job[i].at][e] = document[e]
    BY DEF RecSound, CalmWrites
  <2>2. CASE i = j
    <3>1. NextOf(job'[j], held[job'[j].at]) = NextOf(job[j], held[job[j].at])
      BY <1>1 DEF NextOf, d
    <3> QED
      BY <1>1, <2>1, <2>2, <3>1
  <2>3. CASE i # j
    BY <1>0, <1>1, <1>3, <2>1, <2>3
  <2> QED
    BY <2>2, <2>3
<1> QED
  BY <1>5, <1>6, <1>7, <1>8, <1>9, <1>10, <1>11, <1>12 DEF RecSound, RecordsInv

(* A host that restarts: the records stay sound.                             *)
LEMMA RestartSound ==
  ASSUME RecSound, NEW h \in Hosts, Restart(h)
  PROVE  RecSound'
<1>1. /\ job' \in [Jobs -> Job]
      /\ \A i \in Jobs : job[i].at # h => job'[i] = job[i]
      /\ \A i \in Jobs : job[i].at = h =>
           job'[i].phase \in {"idle", "answered"} /\ job'[i].at = None
  <2>1. \A i \in Jobs : job[i] \in Job
    BY DEF RecSound, RecordsInv, RecordsTypeOK
  <2>2. \A i \in Jobs : job'[i] = IF job[i].at = h THEN Answered(i, FALSE) ELSE job[i]
    BY DEF Restart
  <2>3. job' = [i \in Jobs |-> IF i \in {j \in Jobs : job[j].at = h}
                                 THEN Answered(i, FALSE) ELSE job[i]]
    BY DEF Restart
  <2> QED
    BY <2>1, <2>2, <2>3, AnsweredIsAJob
<1>2. \A i \in Jobs, e \in Docs : Writing(i, e)' <=> Writing(i, e) /\ job[i].at # h
  BY <1>1 DEF Writing
<1>3. held' = [held EXCEPT ![h] = document] /\ UNCHANGED <<document, minted, calm>>
  BY DEF Restart
<1>4. held' \in [Hosts -> Records] /\ held'[h] = document
      /\ \A g \in Hosts : g # h => held'[g] = held[g]
  BY <1>3 DEF RecSound, RecordsInv, RecordsTypeOK
<1>5. /\ astray' = astray \cup Stray(document.repos, document.nodes)
      /\ astray' \in SUBSET Repos
  <2>1. astray' = astray \cup Stray(document.repos, document.nodes)
    BY DEF Restart
  <2>2. document.repos \subseteq Repos
    BY DEF RecSound, RecordsInv, RecordsTypeOK, Records
  <2> QED
    BY <2>1, <2>2 DEF RecSound, RecordsInv, RecordsTypeOK, Stray
<1>6. RecordsTypeOK'
  BY <1>1, <1>3, <1>4, <1>5 DEF RecSound, RecordsInv, RecordsTypeOK
<1>7. MemoryIsDocument'
  BY <1>3, <1>4 DEF MemoryIsDocument
<1>8. OrphanExplained'
  BY <1>1, <1>2, <1>3, <1>4, <1>5 DEF RecSound, RecordsInv, OrphanExplained, Docs
<1>9. JobsSound'
  BY <1>1, <1>2, <1>3 DEF RecSound, JobsSound, Served, Docs, Writing
<1>10. MintedSound'
  BY <1>1, <1>2, <1>3, <1>4 DEF RecSound, MintedSound, Docs
<1>11. CommittedIsWritten'
  BY <1>1, <1>3 DEF RecSound, CommittedIsWritten
<1>12. AddsAnew'
  BY <1>1, <1>2, <1>3, <1>4 DEF RecSound, AddsAnew, Docs
<1>13. CalmWrites'
  <2> SUFFICES ASSUME calm, NEW i \in Jobs, NEW e \in Docs, Writing(i, e)'
               PROVE  /\ \A k \in Jobs : Writing(k, e)' => k = i
                      /\ job'[i].next = NextOf(job'[i], held'[job'[i].at])
                      /\ job'[i].phase = "writing" => held'[job'[i].at][e] = document[e]
    BY <1>3 DEF RecSound, CalmWrites
  <2>1. Writing(i, e) /\ job'[i] = job[i] /\ job[i].at # h
    BY <1>1, <1>2
  <2>2. job[i].at \in Hosts
    BY <2>1 DEF Writing, RecSound, RecordsInv, RecordsTypeOK, Job
  <2>3. held'[job[i].at] = held[job[i].at]
    BY <1>4, <2>1, <2>2
  <2> QED
    BY <1>2, <2>1, <2>3 DEF RecSound, CalmWrites
<1> QED
  BY <1>6, <1>7, <1>8, <1>9, <1>10, <1>11, <1>12, <1>13 DEF RecSound, RecordsInv
\* The request of page p goes on as one left.
HandedTo(p, o) ==
  job[o].phase = "idle" /\ job' = [job EXCEPT ![o] = job[p], ![p] = NoJob]

(* A request whose page is left goes on as it was: the records stay sound.   *)
LEMMA LeftSound ==
  ASSUME RecSound, NEW p \in Pages, NEW o \in Left, Served(p), HandedTo(p, o),
         UNCHANGED <<document, held, minted, calm, astray>>
  PROVE  RecSound'
<1> DEFINE was(i) == IF i = o THEN p ELSE i
<1>1. /\ p \in Jobs /\ o \in Jobs /\ o # p
  BY LeftAssumption DEF Jobs
<1>2. /\ job' \in [Jobs -> Job] /\ job'[p] = NoJob
      /\ \A i \in Jobs \ {p} : job'[i] = job[was(i)] /\ was(i) \in Jobs
      /\ \A i, k \in Jobs \ {p} : was(i) = was(k) => i = k
  BY <1>1, NoJobIsAJob DEF HandedTo, RecSound, RecordsInv, RecordsTypeOK
<1>3. \A k \in Jobs : job[k].phase # "idle" =>
        \E i \in Jobs \ {p} : was(i) = k /\ job'[i] = job[k]
  <2> SUFFICES ASSUME NEW k \in Jobs, job[k].phase # "idle"
               PROVE  \E i \in Jobs \ {p} : was(i) = k /\ job'[i] = job[k]
    OBVIOUS
  <2>1. was(o) = p
    OBVIOUS
  <2>2. k # o => was(k) = k
    OBVIOUS
  <2> HIDE DEF was
  <2>3. CASE k = p
    BY <1>1, <1>2, <2>1, <2>3
  <2>4. CASE k # p
    <3>1. was(k) = k /\ job'[k] = job[k]
      BY <1>2, <2>2, <2>4 DEF HandedTo
    <3> QED
      BY <2>4, <3>1
  <2> QED
    BY <2>3, <2>4
<1>4. \A i \in Jobs, e \in Docs : Writing(i, e)' <=> i # p /\ Writing(was(i), e)
  <2> HIDE DEF was
  <2> QED
    BY <1>2, NoJobIsAJob DEF Writing
<1>5. NoJob.phase = "idle" /\ NoJob.at = None /\ NoJob.op = None
  BY NoJobIsAJob
<1> HIDE DEF was
<1>6. RecordsTypeOK'
  BY <1>2, <1>5 DEF RecSound, RecordsInv, RecordsTypeOK
<1>7. MemoryIsDocument'
  <2> SUFFICES ASSUME \A f, g \in Hosts : f = g, NEW h \in Hosts, NEW d \in Docs,
                      held[h][d] # document[d]
               PROVE  \E i \in Jobs : job'[i].phase = "committed" /\ job'[i].doc = d
    BY DEF MemoryIsDocument
  <2>1. PICK k \in Jobs : job[k].phase = "committed" /\ job[k].doc = d
    BY DEF RecSound, RecordsInv, MemoryIsDocument
  <2>2. PICK i \in Jobs \ {p} : was(i) = k /\ job'[i] = job[k]
    BY <1>3, <2>1
  <2> QED
    BY <2>1, <2>2
<1>8. OrphanExplained'
  <2> SUFFICES ASSUME calm', NEW h \in Hosts,
                      NEW r \in Stray(held'[h].repos, held'[h].nodes), r \notin astray'
               PROVE  \E i \in Jobs : /\ Writing(i, "repos")' /\ job'[i].at = h
                                      /\ job'[i].op = "removeNode" /\ job'[i].of = On[r]
    BY DEF OrphanExplained
  <2>1. PICK k \in Jobs : /\ Writing(k, "repos") /\ job[k].at = h
                          /\ job[k].op = "removeNode" /\ job[k].of = On[r]
    BY DEF RecSound, RecordsInv, OrphanExplained
  <2>2. PICK i \in Jobs \ {p} : was(i) = k /\ job'[i] = job[k]
    BY <1>3, <2>1 DEF Writing
  <2> QED
    BY <1>4, <2>1, <2>2 DEF Docs
<1>9. JobsSound'
  BY <1>2, <1>4, <1>5 DEF RecSound, JobsSound, Served, Docs
<1>10. MintedSound'
  BY <1>2, <1>4 DEF RecSound, MintedSound, Docs
<1>11. CommittedIsWritten'
  BY <1>2, <1>5 DEF RecSound, CommittedIsWritten
<1>12. AddsAnew'
  BY <1>2, <1>4, <1>5 DEF RecSound, AddsAnew, Docs
<1>13. CalmWrites'
  BY <1>2, <1>4 DEF RecSound, CalmWrites
<1> QED
  BY <1>6, <1>7, <1>8, <1>9, <1>10, <1>11, <1>12, <1>13 DEF RecSound, RecordsInv
\* What a host has in memory once the list of request j is published.
PublishedBy(j) == [held[job[j].at] EXCEPT ![job[j].doc] = job[j].next]

(* What a published list makes of its request: it is answered, or it goes    *)
(* on to the repositories of the machine it has removed.                     *)
LEMMA PublishFacts ==
  ASSUME RecSound, NEW j \in Jobs, Publish(j)
  PROVE  LET h == job[j].at
             d == job[j].doc
             now == PublishedBy(j)
         IN  /\ h \in Hosts /\ d \in Docs /\ job[j].phase = "committed"
             /\ held' \in [Hosts -> Records] /\ held'[h] = now
             /\ \A g \in Hosts : g # h => held'[g] = held[g]
             /\ now \in Records /\ now[d] = job[j].next
             /\ document[d] = job[j].next
             /\ \A e \in Docs : e # d => now[e] = held[h][e]
             /\ d = "nodes" => now.nodes = job[j].next /\ now.repos = held[h].repos
             /\ d = "repos" => now.repos = job[j].next /\ now.nodes = held[h].nodes
             /\ job' \in [Jobs -> Job]
             /\ \A i \in Jobs \ {j} : job'[i] = job[i]
             /\ \/ /\ Cascades(j)
                   /\ job'[j].phase = "writing" /\ job'[j].doc = "repos"
                   /\ job'[j].op = "removeNode" /\ job'[j].of = job[j].of
                   /\ job'[j].at = h
                   /\ job'[j].next = now.repos \ OfMachine(now.repos, job[j].of)
                   /\ calm' => calm /\ Unopposed(j, "repos")
                \/ /\ ~Cascades(j)
                   /\ job'[j].phase \in {"idle", "answered"} /\ job'[j].at = None
                   /\ j \in Pages => job'[j].phase = "answered"
                   /\ calm' = calm
             /\ calm' \in BOOLEAN
<1> DEFINE h == job[j].at
           d == job[j].doc
           now == PublishedBy(j)
<1>1. /\ job \in [Jobs -> Job] /\ held \in [Hosts -> Records]
      /\ job[j] \in Job /\ job[j].phase = "committed"
  BY DEF Publish, RecSound, RecordsInv, RecordsTypeOK
<1>2. h \in Hosts
  BY <1>1 DEF RecSound, RecordsInv, RecordsTypeOK, Job
<1>3. d \in Docs /\ document[d] = job[j].next
  BY <1>1 DEF RecSound, JobsSound, CommittedIsWritten
<1>4. /\ now \in Records /\ now[d] = job[j].next
      /\ \A e \in Docs : e # d => now[e] = held[h][e]
      /\ d = "nodes" => now.nodes = job[j].next /\ now.repos = held[h].repos
      /\ d = "repos" => now.repos = job[j].next /\ now.nodes = held[h].nodes
  BY <1>1, <1>2, ListIsOfDoc DEF PublishedBy
<1>5. held' = [held EXCEPT ![h] = now]
  BY DEF Publish, PublishedBy
<1>6. held' \in [Hosts -> Records] /\ held'[h] = now
      /\ \A g \in Hosts : g # h => held'[g] = held[g]
  BY <1>1, <1>2, <1>4, <1>5
<1>7. IF Cascades(j)
        THEN StartsWrite(j, job[j], "repos", now.repos \ OfMachine(now.repos, job[j].of))
        ELSE Answer(j, TRUE)
  BY DEF Publish, PublishedBy
<1> HIDE DEF now
<1>8. CASE Cascades(j)
  <2> DEFINE list == now.repos \ OfMachine(now.repos, job[j].of)
             y == [job[j] EXCEPT !.phase = "writing", !.doc = "repos", !.next = list]
  <2>1. list \in SUBSET Repos
    BY <1>4 DEF Records
  <2>2. /\ y \in Job /\ y.phase = "writing" /\ y.op = job[j].op /\ y.of = job[j].of
        /\ y.at = h /\ y.doc = "repos" /\ y.next = list
    BY <1>1, <2>1 DEF Job, Docs
  <2>3. job' = [job EXCEPT ![j] = y] /\ calm' = (calm /\ Unopposed(j, "repos"))
    BY <1>7, <1>8 DEF StartsWrite, SetJob
  <2>4. calm' \in BOOLEAN
    BY <2>3, Zenon DEF Unopposed
  <2>5. job[j].op = "removeNode"
    BY <1>8 DEF Cascades
  <2> HIDE DEF y, list
  <2>6. job' \in [Jobs -> Job] /\ job'[j] = y /\ \A i \in Jobs \ {j} : job'[i] = job[i]
    BY <1>1, <2>2, <2>3
  <2>7. calm' => calm /\ Unopposed(j, "repos")
    BY <1>6, <2>3
  <2> QED
    BY <1>1, <1>2, <1>3, <1>4, <1>6, <1>8, <2>2, <2>4, <2>5, <2>6, <2>7 DEF list, now
<1>9. CASE ~Cascades(j)
  <2>1. job' = [job EXCEPT ![j] = Answered(j, TRUE)] /\ calm' = calm
    BY <1>7, <1>9 DEF Answer, SetJob
  <2>2. calm \in BOOLEAN
    BY DEF RecSound, RecordsInv, RecordsTypeOK
  <2>3. /\ Answered(j, TRUE) \in Job /\ Answered(j, TRUE).phase \in {"idle", "answered"}
        /\ Answered(j, TRUE).at = None
        /\ j \in Pages => Answered(j, TRUE).phase = "answered"
    BY AnsweredIsAJob
  <2>4. job' \in [Jobs -> Job] /\ job'[j] = Answered(j, TRUE)
        /\ \A i \in Jobs \ {j} : job'[i] = job[i]
    BY <1>1, <2>1, <2>3
  <2> QED
    BY <1>1, <1>2, <1>3, <1>4, <1>6, <1>9, <2>1, <2>2, <2>3, <2>4 DEF now
<1> QED
  BY <1>8, <1>9
(* A list published in memory: the records stay sound.                       *)
LEMMA PublishSound ==
  ASSUME RecSound, NEW j \in Jobs, Publish(j)
  PROVE  RecSound'
<1> DEFINE h == job[j].at
           d == job[j].doc
           now == PublishedBy(j)
<1>1. /\ h \in Hosts /\ d \in Docs /\ job[j].phase = "committed"
      /\ held' \in [Hosts -> Records] /\ held'[h] = now
      /\ \A g \in Hosts : g # h => held'[g] = held[g]
      /\ now \in Records /\ now[d] = job[j].next
      /\ document[d] = job[j].next
      /\ \A e \in Docs : e # d => now[e] = held[h][e]
      /\ d = "nodes" => now.nodes = job[j].next /\ now.repos = held[h].repos
      /\ d = "repos" => now.repos = job[j].next /\ now.nodes = held[h].nodes
      /\ job' \in [Jobs -> Job]
      /\ \A i \in Jobs \ {j} : job'[i] = job[i]
      /\ calm' \in BOOLEAN
  BY PublishFacts
<1>2. \/ /\ Cascades(j)
         /\ job'[j].phase = "writing" /\ job'[j].doc = "repos"
         /\ job'[j].op = "removeNode" /\ job'[j].of = job[j].of
         /\ job'[j].at = h
         /\ job'[j].next = now.repos \ OfMachine(now.repos, job[j].of)
         /\ calm' => calm /\ Unopposed(j, "repos")
      \/ /\ ~Cascades(j)
         /\ job'[j].phase \in {"idle", "answered"} /\ job'[j].at = None
         /\ calm' = calm
  BY PublishFacts
<1>3. /\ document' = document /\ minted' = minted
      /\ astray' = IF job[j].op = "addRepo" /\ On[job[j].of] \notin now.nodes
                     THEN astray \cup {job[j].of} ELSE astray
  BY DEF Publish, PublishedBy
<1> HIDE DEF h, d, now
<1>4. /\ Writing(j, d) /\ job[j].at = h /\ job[j].doc = d
      /\ \A i \in Jobs, e \in Docs : i # j => (Writing(i, e)' <=> Writing(i, e))
      /\ \A e \in Docs : Writing(j, e)' <=> Cascades(j) /\ e = "repos"
  BY <1>1, <1>2 DEF Writing, h, d
<1>5. calm' => calm
  BY <1>2
<1>6. Cascades(j) => job[j].op = "removeNode" /\ d = "nodes" /\ job[j].of \in Machines
  BY <1>4, <1>1 DEF Cascades, d, RecSound, JobsSound, Served, WellNamed
<1>7. now.nodes \subseteq Machines /\ now.repos \subseteq Repos
  BY <1>1 DEF Records
<1>8. RecordsTypeOK'
  <2>1. astray' \in SUBSET Repos
    BY <1>1, <1>3 DEF RecSound, RecordsInv, RecordsTypeOK, JobsSound, Served, WellNamed
  <2>2. \A i \in Jobs : job'[i].phase \notin {"idle", "answered"} =>
          job'[i].at # None /\ WellNamed(job'[i].op, job'[i].of)
    <3>1. CASE Cascades(j)
      BY <1>1, <1>2, <1>6, <3>1, RecordsNoneAssumption
      DEF RecSound, RecordsInv, RecordsTypeOK, WellNamed
    <3>2. CASE ~Cascades(j)
      BY <1>1, <1>2, <3>2 DEF RecSound, RecordsInv, RecordsTypeOK
    <3> QED
      BY <3>1, <3>2
  <2> QED
    BY <1>1, <1>3, <2>1, <2>2 DEF RecSound, RecordsInv, RecordsTypeOK
<1>9. MemoryIsDocument'
  <2> SUFFICES ASSUME \A f, g \in Hosts : f = g, NEW g \in Hosts, NEW e \in Docs,
                      held'[g][e] # document[e]
               PROVE  \E i \in Jobs : job'[i].phase = "committed" /\ job'[i].doc = e
    BY <1>3 DEF MemoryIsDocument
  <2>1. g = h /\ e # d /\ held[g][e] # document[e]
    BY <1>1
  <2>2. PICK i \in Jobs : job[i].phase = "committed" /\ job[i].doc = e
    BY <2>1 DEF RecSound, RecordsInv, MemoryIsDocument
  <2>3. i # j
    BY <1>4, <2>1, <2>2
  <2> QED
    BY <1>1, <2>2, <2>3
<1>10. JobsSound'
  <2>1. ASSUME NEW i \in Jobs \ {j}
        PROVE  job'[i] = job[i] /\ \A e \in Docs : Writing(i, e)' <=> Writing(i, e)
    BY <1>1, <1>4
  <2>2. Cascades(j) => /\ job'[j].next \subseteq Repos /\ job'[j].at # None
                       /\ WellNamed(job'[j].op, job'[j].of)
    BY <1>1, <1>2, <1>6, <1>7, RecordsNoneAssumption DEF WellNamed
  <2> SUFFICES ASSUME NEW i \in Jobs
               PROVE
         LET z == job'[i]
         IN  /\ Served(i)' <=> z.at # None
             /\ Served(i)' => z.op \in Ops /\ WellNamed(z.op, z.of)
             /\ z.phase = "awaiting" => z.op \in {"addRepo", "removeRepo", "other"}
             /\ Writing(i, "nodes")' => /\ z.op \in {"addNode", "removeNode"}
                                       /\ z.next \subseteq minted'
             /\ Writing(i, "repos")' => /\ z.op \in {"addRepo", "removeRepo", "removeNode"}
                                       /\ z.next \subseteq Repos
             /\ z.phase \in {"writing", "committed"} => z.doc \in Docs
             /\ Writing(i, "nodes")' /\ z.op = "addNode" => z.of \in z.next
    BY DEF JobsSound
  <2>3. CASE i # j
    BY <1>3, <2>1, <2>3 DEF RecSound, JobsSound, Served, Docs
  <2>4. CASE i = j /\ Cascades(j)
    BY <1>2, <1>4, <2>2, <2>4 DEF Served, Docs, Ops
  <2>5. CASE i = j /\ ~Cascades(j)
    BY <1>2, <1>4, <2>5 DEF Served, Docs
  <2> QED
    BY <2>3, <2>4, <2>5
<1>11. MintedSound'
  <2>1. now.nodes \subseteq minted
    BY <1>1, <1>4 DEF RecSound, JobsSound, MintedSound, Docs, d
  <2>2. \A g \in Hosts : held'[g].nodes \subseteq minted
    BY <1>1, <2>1 DEF RecSound, MintedSound
  <2> QED
    BY <1>1, <1>3, <1>4, <2>2 DEF RecSound, MintedSound, Docs
<1>12. CommittedIsWritten'
  BY <1>1, <1>2, <1>3 DEF RecSound, CommittedIsWritten
<1>13. AddsAnew'
  <2> SUFFICES ASSUME NEW i \in Jobs, job'[i].phase = "writing", job'[i].op = "addNode"
               PROVE  /\ job'[i].of \in minted
                      /\ job'[i].of \notin document.nodes
                      /\ \A g \in Hosts : job'[i].of \notin held'[g].nodes
                      /\ \A k \in Jobs : k # i /\ Writing(k, "nodes")' =>
                           job'[k].of # job'[i].of /\ job'[i].of \notin job'[k].next
    BY <1>3 DEF AddsAnew
  <2>1. i # j /\ job'[i] = job[i]
    BY <1>1, <1>2
  <2>2. job[i].of \notin now.nodes
    BY <1>1, <1>4, <2>1 DEF RecSound, AddsAnew, Docs
  <2>3. \A g \in Hosts : job'[i].of \notin held'[g].nodes
    BY <1>1, <2>1, <2>2 DEF RecSound, AddsAnew
  <2>4. \A k \in Jobs : Writing(k, "nodes")' => Writing(k, "nodes") /\ job'[k] = job[k]
    BY <1>1, <1>4 DEF Docs
  <2> QED
    BY <2>1, <2>3, <2>4 DEF RecSound, AddsAnew
<1>14. calm' => \A i \in Jobs \ {j} : Writing(i, d) => FALSE
  BY <1>1, <1>4, <1>5 DEF RecSound, CalmWrites
<1>15. CalmWrites'
  <2> SUFFICES ASSUME calm', NEW i \in Jobs, NEW e \in Docs, Writing(i, e)'
               PROVE  /\ \A k \in Jobs : Writing(k, e)' => k = i
                      /\ job'[i].next = NextOf(job'[i], held'[job'[i].at])
                      /\ job'[i].phase = "writing" => held'[job'[i].at][e] = document[e]
    BY <1>3, <1>5 DEF RecSound, CalmWrites
  <2>1. CASE i # j
    <3>1. Writing(i, e) /\ e # d /\ job'[i] = job[i] /\ job[i].doc = e
      BY <1>1, <1>4, <1>14, <2>1 DEF Writing
    <3>2. /\ \A k \in Jobs : Writing(k, e) => k = i
          /\ job[i].next = NextOf(job[i], held[job[i].at])
          /\ job[i].phase = "writing" => held[job[i].at][e] = document[e]
      BY <1>5, <3>1 DEF RecSound, CalmWrites
    <3>3. job[i].at \in Hosts
      BY <3>1 DEF Writing, RecSound, RecordsInv, RecordsTypeOK, Job
    <3>4. held'[job[i].at][e] = held[job[i].at][e]
      BY <1>1, <3>1, <3>3
    <3>5. NextOf(job[i], held'[job[i].at]) = NextOf(job[i], held[job[i].at])
      <4>1. /\ e = "nodes" => job[i].op \in {"addNode", "removeNode"}
            /\ e = "repos" => job[i].op \in {"addRepo", "removeRepo", "removeNode"}
        BY <3>1 DEF RecSound, JobsSound
      <4>2. /\ e = "nodes" => held'[job[i].at].nodes = held[job[i].at].nodes
            /\ e = "repos" => held'[job[i].at].repos = held[job[i].at].repos
        BY <3>4
      <4> QED
        BY <3>1, <4>1, <4>2 DEF NextOf, Docs
    <3>6. ~Writing(j, e)'
      <4> SUFFICES ASSUME Writing(j, e)' PROVE FALSE
        OBVIOUS
      <4>1. Cascades(j) /\ e = "repos"
        BY <1>4
      <4>2. Unopposed(j, "repos")
        BY <1>2, <4>1
      <4> QED
        BY <2>1, <3>1, <4>1, <4>2 DEF Unopposed
    <3> QED
      BY <1>1, <1>4, <2>1, <3>1, <3>2, <3>4, <3>5, <3>6
  <2>2. CASE i = j
    <3>1. Cascades(j) /\ e = "repos" /\ Unopposed(j, "repos") /\ job'[j].at = h
      BY <1>2, <1>4, <2>2
    <3>2. \A k \in Jobs : Writing(k, e)' => k = i
      BY <1>4, <2>2, <3>1 DEF Unopposed
    <3>3. job'[i].next = NextOf(job'[i], held'[job'[i].at])
      BY <1>1, <1>2, <2>2, <3>1 DEF NextOf
    <3>4. held'[job'[i].at][e] = document[e]
      <4>1. \A f, g \in Hosts : f = g
        BY <1>5 DEF RecSound, CalmWrites
      <4>2. ~ \E k \in Jobs : job[k].phase = "committed" /\ job[k].doc = e
        BY <1>4, <1>6, <3>1 DEF Unopposed, Writing
      <4>3. held[h][e] = document[e]
        BY <1>1, <3>1, <4>1, <4>2 DEF RecSound, RecordsInv, MemoryIsDocument, Docs
      <4> QED
        BY <1>1, <1>6, <2>2, <3>1, <4>3 DEF Docs
    <3> QED
      BY <3>2, <3>3, <3>4
  <2> QED
    BY <2>1, <2>2
<1>16. OrphanExplained'
  <2> SUFFICES ASSUME calm', NEW g \in Hosts,
                      NEW r \in Stray(held'[g].repos, held'[g].nodes), r \notin astray'
               PROVE  \E i \in Jobs : /\ Writing(i, "repos")' /\ job'[i].at = g
                                      /\ job'[i].op = "removeNode" /\ job'[i].of = On[r]
    BY DEF OrphanExplained
  <2>1. r \notin astray
    BY <1>3
  <2>2. ASSUME r \in Stray(held[g].repos, held[g].nodes),
               ~(g = h /\ d = "repos" /\ job[j].op = "removeNode" /\ job[j].of = On[r])
        PROVE  \E i \in Jobs : /\ Writing(i, "repos")' /\ job'[i].at = g
                               /\ job'[i].op = "removeNode" /\ job'[i].of = On[r]
    <3>1. PICK i \in Jobs : /\ Writing(i, "repos") /\ job[i].at = g
                            /\ job[i].op = "removeNode" /\ job[i].of = On[r]
      BY <1>5, <2>1, <2>2 DEF RecSound, RecordsInv, OrphanExplained
    <3>2. i # j
      BY <1>4, <2>2, <3>1 DEF Writing
    <3> QED
      BY <1>1, <1>4, <3>1, <3>2 DEF Docs
  <2>3. CASE g # h
    BY <1>1, <2>2, <2>3
  <2>4. CASE g = h
    <3>1. r \in now.repos /\ On[r] \notin now.nodes
      BY <1>1, <2>4 DEF Stray
    <3>2. job[j].next = NextOf(job[j], held[h])
      BY <1>1, <1>4, <1>5 DEF RecSound, CalmWrites
    <3>3. held[h] \in Records
      BY <1>1 DEF RecSound, RecordsInv, RecordsTypeOK
    <3>4. CASE d = "nodes"
      <4>1. job[j].op \in {"addNode", "removeNode"}
        BY <1>4, <3>4 DEF RecSound, JobsSound
      <4>2. now.nodes = job[j].next /\ r \in held[h].repos
        BY <1>1, <3>1, <3>4
      <4>3. CASE On[r] \notin held[h].nodes
        BY <2>2, <2>4, <3>4, <4>2, <4>3 DEF Stray
      <4>4. CASE On[r] \in held[h].nodes
        <5>1. job[j].op = "removeNode" /\ On[r] = job[j].of
          BY <1>4, <3>1, <3>2, <3>4, <4>1, <4>2, <4>4 DEF NextOf
        <5>2. Cascades(j)
          BY <1>4, <3>4, <4>2, <5>1 DEF Cascades, OfMachine
        <5> QED
          BY <1>2, <1>4, <2>4, <5>1, <5>2 DEF Docs
      <4> QED
        BY <4>3, <4>4
    <3>5. CASE d = "repos"
      <4>1. job[j].op \in {"addRepo", "removeRepo", "removeNode"}
        BY <1>4, <3>5 DEF RecSound, JobsSound
      <4>2. now.repos = job[j].next /\ On[r] \notin held[h].nodes
        BY <1>1, <3>1, <3>5
      <4>3. CASE r \in held[h].repos
        <5>1. ~(job[j].op = "removeNode" /\ job[j].of = On[r])
          <6> SUFFICES ASSUME job[j].op = "removeNode", job[j].of = On[r]
                       PROVE  FALSE
            OBVIOUS
          <6>1. job[j].next = held[h].repos \ OfMachine(held[h].repos, job[j].of)
            BY <1>4, <3>2, <3>5 DEF NextOf
          <6> QED
            BY <3>1, <4>2, <4>3, <6>1 DEF OfMachine
        <5> QED
          BY <2>2, <2>4, <4>2, <4>3, <5>1 DEF Stray
      <4>4. CASE r \notin held[h].repos
        <5>1. job[j].op = "addRepo" /\ r = job[j].of
          BY <1>4, <3>1, <3>2, <3>5, <4>1, <4>2, <4>4 DEF NextOf, OfMachine
        <5> QED
          BY <1>3, <3>1, <5>1
      <4> QED
        BY <4>3, <4>4
    <3> QED
      BY <1>1, <3>4, <3>5 DEF Docs
  <2> QED
    BY <2>3, <2>4
<1> QED
  BY <1>8, <1>9, <1>10, <1>11, <1>12, <1>13, <1>15, <1>16 DEF RecSound, RecordsInv
(* A route takes a request: the records stay sound.                          *)
LEMMA TakeSound ==
  ASSUME RecSound, NEW j \in Jobs, NEW h \in Hosts, NEW op \in Ops,
         NEW of \in Machines \cup Repos, WellNamed(op, of),
         op = "addNode" => of \notin minted,
         Take(j, Asked(h, op, of))
  PROVE  RecSound'
<1>1. PICK x : x = Asked(h, op, of)
  OBVIOUS
<1>2. /\ x \in Job /\ x.op = op /\ x.of = of /\ x.at = h
  BY <1>1, AskedIsAJob
<1>3. /\ job[j].phase = "idle"
      /\ minted' = IF x.op = "addNode" THEN minted \cup {x.of} ELSE minted
      /\ document' = document /\ held' = held /\ astray' = astray
      /\ TakeAddNode(j, x) \/ TakeRemoveNode(j, x) \/ TakeOther(j, x)
  BY <1>1 DEF Take
<1>4. /\ held \in [Hosts -> Records] /\ held[h] \in Records /\ minted \subseteq Machines
      /\ astray \in SUBSET Repos
  BY DEF RecSound, RecordsInv, RecordsTypeOK
<1>5. minted \subseteq minted' /\ minted' \in SUBSET Machines
  BY <1>2, <1>3, <1>4 DEF WellNamed
<1>6. ASSUME NEW ok \in BOOLEAN, Answer(j, ok)
      PROVE  RecSound'
  <2>1. SetJob(j, Answered(j, ok)) /\ calm' = calm
    BY <1>6 DEF Answer
  <2> QED
    BY <1>3, <1>4, <1>5, <2>1, AnsweredIsAJob, EndsSound DEF Writing
<1>7. CASE TakeAddNode(j, x)
  <2>1. x.op = "addNode"
    BY <1>7 DEF TakeAddNode
  <2>2. CASE Unusable(j)
    BY <1>6, <2>2 DEF Unusable
  <2>3. CASE StartsWrite(j, x, "nodes", held[x.at].nodes \cup {x.of})
    <3>1. PICK list : list = held[x.at].nodes \cup {x.of}
      OBVIOUS
    <3>2. list \in (SUBSET Machines) \cup (SUBSET Repos)
      BY <1>2, <1>4, <2>1, <3>1 DEF Records, WellNamed
    <3>3. StartsWrite(j, x, "nodes", list)
      BY <2>3, <3>1
    <3> QED
      BY <1>2, <1>3, <2>1, <3>1, <3>2, <3>3, StartsSound DEF Docs
  <2> QED
    BY <1>7, <2>2, <2>3 DEF TakeAddNode
<1>8. CASE TakeRemoveNode(j, x)
  <2>1. x.op = "removeNode"
    BY <1>8 DEF TakeRemoveNode
  <2>2. CASE Answer(j, FALSE)
    BY <1>6, <2>2
  <2>3. CASE x.of \in held[x.at].nodes
             /\ StartsWrite(j, x, "nodes", held[x.at].nodes \ {x.of})
    <3>1. PICK list : list = held[x.at].nodes \ {x.of}
      OBVIOUS
    <3>2. list \in (SUBSET Machines) \cup (SUBSET Repos)
      BY <1>2, <1>4, <3>1 DEF Records
    <3>3. StartsWrite(j, x, "nodes", list)
      BY <2>3, <3>1
    <3> QED
      BY <1>2, <1>3, <2>1, <2>3, <3>1, <3>2, <3>3, StartsSound DEF Docs
  <2> QED
    BY <1>8, <2>2, <2>3 DEF TakeRemoveNode
<1>9. CASE TakeOther(j, x)
  <2>1. x.op \in {"addRepo", "removeRepo", "other"}
    BY <1>9 DEF TakeOther
  <2>2. CASE Answer(j, FALSE)
    BY <1>6, <2>2
  <2>3. CASE SetJob(j, [x EXCEPT !.phase = "awaiting"]) /\ UNCHANGED calm
    <3>1. PICK y : y = [x EXCEPT !.phase = "awaiting"]
      OBVIOUS
    <3>2. y \in Job /\ y.phase = "awaiting" /\ y.op = x.op /\ y.of = x.of /\ y.at = x.at
      BY <1>2, <3>1 DEF Job
    <3>3. SetJob(j, y) /\ UNCHANGED <<document, held, minted, calm, astray>>
      BY <1>3, <2>1, <2>3, <3>1
    <3>4. y.at # None
      BY <1>2, <3>2, RecordsNoneAssumption
    <3> QED
      BY <1>2, <1>3, <2>1, <3>2, <3>3, <3>4, AwaitsSound
  <2> QED
    BY <1>9, <2>2, <2>3 DEF TakeOther
<1> QED
  BY <1>3, <1>7, <1>8, <1>9

(* What a request awaited comes, or fails: the records stay sound.           *)
LEMMA AwaitedSound ==
  ASSUME RecSound, NEW j \in Jobs, Awaited(j)
  PROVE  RecSound'
<1>1. PICK x : x = job[j]
  OBVIOUS
<1>2. /\ x \in Job /\ x.phase = "awaiting" /\ x.at \in Hosts /\ WellNamed(x.op, x.of)
      /\ held \in [Hosts -> Records] /\ held[x.at] \in Records
      /\ minted \in SUBSET Machines /\ astray \in SUBSET Repos
  BY <1>1 DEF Awaited, RecSound, RecordsInv, RecordsTypeOK, Job
<1>3. /\ UNCHANGED <<document, held, minted, astray>>
      /\ \/ \E ok \in BOOLEAN : Answer(j, ok)
         \/ AddsRepo(j, x)
         \/ RemovesRepo(j, x)
  BY <1>1 DEF Awaited
<1>4. ASSUME NEW ok \in BOOLEAN, Answer(j, ok)
      PROVE  RecSound'
  <2>1. SetJob(j, Answered(j, ok)) /\ calm' = calm
    BY <1>4 DEF Answer
  <2> QED
    BY <1>1, <1>2, <1>3, <2>1, AnsweredIsAJob, EndsSound DEF Writing
<1>5. CASE AddsRepo(j, x)
  <2>1. PICK list : list = held[x.at].repos \cup {x.of}
    OBVIOUS
  <2>2. x.op = "addRepo" /\ StartsWrite(j, x, "repos", list)
    BY <1>5, <2>1 DEF AddsRepo
  <2>3. list \in (SUBSET Machines) \cup (SUBSET Repos)
    BY <1>2, <2>1, <2>2 DEF Records, WellNamed
  <2> QED
    BY <1>1, <1>2, <1>3, <2>1, <2>2, <2>3, StartsSound DEF Docs
<1>6. CASE RemovesRepo(j, x)
  <2>1. CASE Answer(j, TRUE)
    BY <1>4, <2>1
  <2>2. CASE StartsWrite(j, x, "repos", held[x.at].repos \ {x.of})
    <3>1. PICK list : list = held[x.at].repos \ {x.of}
      OBVIOUS
    <3>2. x.op = "removeRepo" /\ StartsWrite(j, x, "repos", list)
      BY <1>6, <2>2, <3>1 DEF RemovesRepo
    <3>3. list \in (SUBSET Machines) \cup (SUBSET Repos)
      BY <1>2, <3>1 DEF Records
    <3> QED
      BY <1>1, <1>2, <1>3, <3>1, <3>2, <3>3, StartsSound DEF Docs
  <2> QED
    BY <1>6, <2>1, <2>2 DEF RemovesRepo
<1> QED
  BY <1>3, <1>4, <1>5, <1>6

(* A write that fails: the records stay sound.                               *)
LEMMA WriteFailsSound ==
  ASSUME RecSound, NEW j \in Jobs, WriteFails(j)
  PROVE  RecSound'
<1>1. /\ job[j].phase = "writing" /\ job[j].at \in Hosts
      /\ UNCHANGED <<document, held, minted, calm>>
      /\ SetJob(j, Answered(j, FALSE))
  BY DEF WriteFails, Answer, RecSound, RecordsInv, RecordsTypeOK, Job
<1>2. OfMachine(held[job[j].at].repos, job[j].of) \subseteq Repos
  BY <1>1 DEF RecSound, RecordsInv, RecordsTypeOK, Records, OfMachine
<1>3. /\ astray \subseteq astray' /\ astray' \in SUBSET Repos
      /\ Writing(j, "repos") /\ job[j].op = "removeNode" =>
           OfMachine(held[job[j].at].repos, job[j].of) \subseteq astray'
  BY <1>2 DEF WriteFails, Writing, RecSound, RecordsInv, RecordsTypeOK
<1>4. minted \subseteq minted' /\ minted' \in SUBSET Machines
  BY <1>1 DEF RecSound, RecordsInv, RecordsTypeOK
<1> QED
  BY <1>1, <1>3, <1>4, AnsweredIsAJob, EndsSound

(* A request whose answer is heard, or that nobody is left to hear of.       *)
LEMMA HeardSound ==
  ASSUME RecSound, NEW j \in Jobs, job[j].phase \in {"idle", "answered"},
         SetJob(j, NoJob), UNCHANGED <<document, held, minted, calm, astray>>
  PROVE  RecSound'
<1>1. minted \subseteq minted' /\ minted' \in SUBSET Machines
      /\ astray \subseteq astray' /\ astray' \in SUBSET Repos
  BY DEF RecSound, RecordsInv, RecordsTypeOK
<1> QED
  BY <1>1, NoJobIsAJob, EndsSound DEF Writing
(* What a page asks: a change of a record it names, a machine to be added    *)
(* with an identity that was never given out.                                *)
LEMMA PageAsks ==
  ASSUME PageTypeOK, NEW p \in Pages, Mutate(p) \/ Submit(p)
  PROVE  /\ Resting(p)
         /\ \E kind \in {"mutate", "submit"}, op \in Ops, of \in Machines \cup Repos :
              /\ WellNamed(op, of)
              /\ op = "addNode" => of \notin minted
              /\ kind = "submit" => page[p].dialog # "none"
              /\ Changes(p, kind, op, of)
<1>1. Resting(p)
  BY DEF Mutate, Submit
<1>2. CASE Mutate(p)
  <2>1. PICK c \in MachineControls(page[p]) \cup RepoControls(page[p]) :
          Changes(p, "mutate", c[1], c[2])
    BY <1>2 DEF Mutate
  <2>2. page[p].shown.nodes \subseteq Machines /\ page[p].shown.repos \subseteq Repos
    BY DEF PageTypeOK, Page, Snapshot
  <2>3. PICK op, of : op = c[1] /\ of = c[2]
    OBVIOUS
  <2>4. \/ op \in {"removeNode", "other"} /\ of \in Machines
        \/ op \in {"removeRepo", "other"} /\ of \in Repos
    BY <2>1, <2>2, <2>3 DEF MachineControls, RepoControls, Listed
  <2>5. WellNamed(op, of) /\ op \in Ops /\ op # "addNode" /\ Changes(p, "mutate", op, of)
    BY <2>1, <2>3, <2>4 DEF WellNamed, Ops
  <2> QED
    BY <1>1, <2>4, <2>5
<1>3. CASE Submit(p) /\ SubmitMachine(p)
  <2>1. PICK m \in Machines \ minted : Changes(p, "submit", "addNode", m)
    BY <1>3 DEF SubmitMachine
  <2>2. page[p].dialog # "none"
    BY <1>3 DEF SubmitMachine
  <2> QED
    BY <1>1, <2>1, <2>2 DEF WellNamed, Ops
<1>4. CASE Submit(p) /\ SubmitRepo(p)
  <2>1. PICK r \in Repos : page[p].dialog = On[r] /\ Changes(p, "submit", "addRepo", r)
    BY <1>4 DEF SubmitRepo
  <2>2. page[p].dialog # "none"
    BY <2>1, OnAssumption, DialogsAssumption
  <2> QED
    BY <1>1, <2>1, <2>2 DEF WellNamed, Ops
<1>5. CASE Submit(p) /\ SubmitWorktree(p)
  <2>1. PICK r \in Repos : page[p].dialog = r /\ Changes(p, "submit", "other", r)
    BY <1>5 DEF SubmitWorktree
  <2>2. page[p].dialog # "none"
    BY <2>1, DialogsAssumption
  <2> QED
    BY <1>1, <2>1, <2>2 DEF WellNamed, Ops
<1> QED
  BY <1>2, <1>3, <1>4, <1>5 DEF Submit

(* What leaving a page does to its request: it is dropped, or goes on.       *)
LEMMA PageLeft ==
  ASSUME NEW p \in Pages, LeavePage(p)
  PROVE  /\ UNCHANGED <<document, held, minted, calm, astray>>
         /\ \/ job[p].phase \in {"idle", "answered"} /\ SetJob(p, NoJob)
            \/ /\ Served(p)
               /\ \E o \in Left : HandedTo(p, o)
  BY DEF LeavePage, Served, HandedTo

(* Every step of the hosts and the pages leaves the records sound.           *)
LEMMA RecordsStep ==
  ASSUME RecSound, PageTypeOK, [SettingsNext]_pageVars
  PROVE  RecSound'
<1>1. CASE UNCHANGED recordVars
  BY <1>1 DEF recordVars, RecSound, RecordsInv, RecordsTypeOK, MemoryIsDocument,
     OrphanExplained, JobsSound, MintedSound, CommittedIsWritten, AddsAnew,
     CalmWrites, Served, Writing
<1>2. ASSUME NEW j \in Jobs, PublishSeen(j)
      PROVE  RecSound'
  BY <1>2, PublishSound DEF PublishSeen
<1>3. ASSUME NEW j \in Jobs, Serves(j)
      PROVE  RecSound'
  BY <1>3, AwaitedSound, CommitSound, WriteFailsSound DEF Serves
<1>4. ASSUME NEW h \in Hosts, Restart(h)
      PROVE  RecSound'
  BY <1>4, RestartSound
<1>5. ASSUME NEW p \in Pages, PageStep(p)
      PROVE  RecSound'
  <2>0. p \in Jobs
    BY DEF Jobs
  <2>1. CASE LeavePage(p)
    BY <2>0, <2>1, PageLeft, HeardSound, LeftSound
  <2>2. CASE Mutate(p) \/ Submit(p)
    <3>1. PICK kind \in {"mutate", "submit"}, op \in Ops, of \in Machines \cup Repos :
              /\ WellNamed(op, of)
              /\ op = "addNode" => of \notin minted
              /\ Changes(p, kind, op, of)
      BY <2>2, PageAsks
    <3>2. HostOf[p] \in Hosts
      BY PagesAssumption
    <3>3. PICK h \in Hosts : h = HostOf[p]
      BY <3>2
    <3>4. Take(p, Asked(h, op, of))
      BY <3>1, <3>3 DEF Changes
    <3> QED
      BY <2>0, <3>1, <3>4, TakeSound
  <2>3. CASE Done(p) \/ Failed(p)
    BY <2>0, <2>3, HeardSound DEF Done, Failed, Answers
  <2>4. CASE UNCHANGED recordVars
    BY <1>1, <2>4
  <2> QED
    BY <1>5, <2>1, <2>2, <2>3, <2>4
    DEF PageStep, OpenPage, Refresh, Poll, CloseDialog, OpenDialog, LoadStep,
        Reads, Shows, LoadFails
<1> QED
  BY <1>1, <1>2, <1>3, <1>4, <1>5 DEF SettingsNext, HostStep, pageVars
-----------------------------------------------------------------------------
(* Machines that have gone *)

\* A machine that has its identity and is no longer being added is not made
\* again, and does not come into a memory it is not in.
MachinesKept ==
  /\ minted \subseteq minted'
  /\ calm' => calm
  /\ \A m \in minted : Unmade(m) =>
       /\ Unmade(m)'
       /\ calm' => \A h \in Hosts : HeldOrGone(h, m) =>
            HeldOrGone(h, m)' /\ (m \in held'[h].nodes => m \in held[h].nodes)

(* A step that adds no machine but new ones, and publishes nothing.          *)
LEMMA KeptWithout ==
  ASSUME UNCHANGED <<document, held>>, minted \subseteq minted', calm' => calm,
         \A i \in Jobs : job'[i].phase \in {"writing", "committed"} /\ job'[i].op = "addNode" =>
           \/ job'[i].of \notin minted
           \/ \E k \in Jobs : job'[i] = job[k]
  PROVE  MachinesKept
<1> SUFFICES ASSUME NEW m \in minted, Unmade(m)
             PROVE  /\ Unmade(m)'
                    /\ \A h \in Hosts : HeldOrGone(h, m) =>
                         HeldOrGone(h, m)' /\ (m \in held'[h].nodes => m \in held[h].nodes)
  BY DEF MachinesKept
<1>1. Unmade(m)'
  BY DEF Unmade
<1>2. ASSUME NEW h \in Hosts, GoneFor(h, m)
      PROVE  GoneFor(h, m)'
  BY <1>2 DEF GoneFor, Writing
<1> QED
  BY <1>1, <1>2 DEF HeldOrGone

(* A request that changes alone, into none that adds a machine with an       *)
(* identity given out before.                                                *)
LEMMA KeptBy ==
  ASSUME RecSound, NEW j \in Jobs, NEW y, job' = [job EXCEPT ![j] = y],
         UNCHANGED <<document, held>>, minted \subseteq minted', calm' => calm,
         y.phase \in {"writing", "committed"} /\ y.op = "addNode" => y.of \notin minted
  PROVE  MachinesKept
<1>1. job'[j] = y /\ \A i \in Jobs \ {j} : job'[i] = job[i]
  BY DEF RecSound, RecordsInv, RecordsTypeOK
<1>2. \A i \in Jobs : job'[i].phase \in {"writing", "committed"} /\ job'[i].op = "addNode" =>
           \/ job'[i].of \notin minted
           \/ \E k \in Jobs : job'[i] = job[k]
  BY <1>1
<1> QED
  BY <1>2, KeptWithout

(* The document replaced: what has gone does not come back to it.            *)
LEMMA CommitKeeps ==
  ASSUME RecSound, NEW j \in Jobs, Commit(j)
  PROVE  MachinesKept
<1> DEFINE d == job[j].doc
<1>0. /\ document \in Records /\ job[j].phase = "writing"
      /\ d \in Docs /\ Writing(j, d) /\ job[j].at \in Hosts /\ held \in [Hosts -> Records]
  BY DEF Commit, RecSound, RecordsInv, RecordsTypeOK, JobsSound, Writing, Job
<1>1. /\ \A i \in Jobs \ {j} : job'[i] = job[i]
      /\ job'[j].phase = "committed" /\ job'[j].op = job[j].op
      /\ job'[j].of = job[j].of /\ job'[j].doc = job[j].doc
  <2>1. job' = [job EXCEPT ![j] = [job[j] EXCEPT !.phase = "committed"]]
    BY DEF Commit, SetJob
  <2>2. job \in [Jobs -> Job] /\ job[j] \in Job
    BY DEF RecSound, RecordsInv, RecordsTypeOK
  <2> QED
    BY <2>1, <2>2 DEF Job
<1>2. /\ d = "nodes" => document'.nodes = job[j].next
      /\ d = "repos" => document'.nodes = document.nodes
  BY <1>0, ListIsOfDoc DEF Commit
<1>3. UNCHANGED <<held, minted, calm>>
  BY DEF Commit
<1>4. \A i \in Jobs, e \in Docs : Writing(i, e)' <=> Writing(i, e)
  BY <1>0, <1>1 DEF Writing
<1> SUFFICES ASSUME NEW m \in minted, Unmade(m)
             PROVE  /\ Unmade(m)'
                    /\ calm => \A h \in Hosts : GoneFor(h, m) => GoneFor(h, m)'
  BY <1>3 DEF MachinesKept, HeldOrGone
<1>5. Unmade(m)'
  BY <1>1 DEF Unmade
<1>6. ASSUME calm, NEW h \in Hosts, GoneFor(h, m)
      PROVE  m \notin document'.nodes
  <2>1. CASE d = "nodes"
    <3>1. /\ job[j].next = NextOf(job[j], held[job[j].at])
          /\ held[job[j].at].nodes = document.nodes
          /\ job[j].op \in {"addNode", "removeNode"}
      BY <1>0, <1>6, <2>1 DEF RecSound, CalmWrites, JobsSound
    <3>2. job[j].op = "addNode" => job[j].of # m
      BY <1>0 DEF Unmade
    <3> QED
      BY <1>2, <1>6, <2>1, <3>1, <3>2 DEF NextOf, GoneFor
  <2>2. CASE d = "repos"
    BY <1>2, <1>6, <2>2 DEF GoneFor
  <2> QED
    BY <1>0, <2>1, <2>2 DEF Docs
<1> QED
  BY <1>1, <1>3, <1>4, <1>5, <1>6 DEF GoneFor, Docs

(* A list published: what leaves memory is not on disk either.               *)
LEMMA PublishKeeps ==
  ASSUME RecSound, NEW j \in Jobs, Publish(j)
  PROVE  MachinesKept
<1> DEFINE h == job[j].at
           d == job[j].doc
           now == PublishedBy(j)
<1>1. /\ h \in Hosts /\ d \in Docs /\ job[j].phase = "committed"
      /\ held'[h] = now
      /\ \A g \in Hosts : g # h => held'[g] = held[g]
      /\ document[d] = job[j].next
      /\ d = "nodes" => now.nodes = job[j].next
      /\ d = "repos" => now.nodes = held[h].nodes
      /\ \A i \in Jobs \ {j} : job'[i] = job[i]
      /\ \/ job'[j].phase = "writing" /\ job'[j].op = "removeNode"
         \/ job'[j].phase \in {"idle", "answered"}
      /\ calm' => calm
  BY PublishFacts
<1>2. /\ document' = document /\ minted' = minted
  BY DEF Publish
<1>3. /\ Writing(j, d) /\ job[j].at = h /\ job[j].doc = d
  BY <1>1 DEF Writing
<1> HIDE DEF h, d, now
<1> SUFFICES ASSUME NEW m \in minted, Unmade(m)
             PROVE  /\ Unmade(m)'
                    /\ calm' => \A g \in Hosts : HeldOrGone(g, m) =>
                         HeldOrGone(g, m)' /\ (m \in held'[g].nodes => m \in held[g].nodes)
  BY <1>1, <1>2 DEF MachinesKept
<1>4. Unmade(m)'
  BY <1>1 DEF Unmade
<1>5. \A i \in Jobs : Writing(i, "nodes")' /\ job'[i].op = "addNode" =>
        i # j /\ Writing(i, "nodes") /\ job'[i] = job[i]
  BY <1>1 DEF Writing
<1>6. ASSUME calm', NEW g \in Hosts, HeldOrGone(g, m), m \in held'[g].nodes
      PROVE  m \in held[g].nodes
  <2> SUFFICES ASSUME GoneFor(g, m) PROVE FALSE
    BY <1>6 DEF HeldOrGone
  <2>1. g = h /\ d = "nodes"
    BY <1>1, <1>6 DEF GoneFor, Docs
  <2> QED
    BY <1>1, <1>6, <2>1 DEF GoneFor
<1>7. ASSUME calm', NEW g \in Hosts, HeldOrGone(g, m), m \notin held'[g].nodes
      PROVE  GoneFor(g, m)'
  <2>1. CASE GoneFor(g, m)
    BY <1>2, <1>5, <1>7, <2>1 DEF GoneFor
  <2>2. CASE m \in held[g].nodes
    <3>1. g = h /\ d = "nodes"
      BY <1>1, <1>7, <2>2 DEF Docs
    <3>2. m \notin document.nodes
      BY <1>1, <1>7, <3>1
    <3>3. \A i \in Jobs : Writing(i, "nodes") => i = j
      BY <1>1, <1>3, <1>7, <3>1 DEF RecSound, CalmWrites, Docs
    <3> QED
      BY <1>2, <1>5, <1>7, <3>2, <3>3 DEF GoneFor
  <2> QED
    BY <1>7, <2>1, <2>2 DEF HeldOrGone
<1> QED
  BY <1>4, <1>6, <1>7 DEF HeldOrGone

(* A restart: what memory comes to lack is not on disk.                      *)
LEMMA RestartKeeps ==
  ASSUME RecSound, NEW h \in Hosts, Restart(h)
  PROVE  MachinesKept
<1>1. /\ held'[h] = document /\ \A g \in Hosts : g # h => held'[g] = held[g]
      /\ UNCHANGED <<document, minted, calm>>
  BY DEF Restart, RecSound, RecordsInv, RecordsTypeOK
<1>2. \A i \in Jobs : \/ job'[i] = job[i]
                      \/ job'[i].phase \in {"idle", "answered"}
  <2>1. \A i \in Jobs : job'[i] = job[i] \/ job'[i] = Answered(i, FALSE)
    BY DEF Restart
  <2> QED
    BY <2>1, AnsweredIsAJob
<1> SUFFICES ASSUME NEW m \in minted, Unmade(m)
             PROVE  /\ Unmade(m)'
                    /\ \A g \in Hosts : HeldOrGone(g, m) =>
                         HeldOrGone(g, m)' /\ (m \in held'[g].nodes => m \in held[g].nodes)
  BY <1>1 DEF MachinesKept
<1>3. Unmade(m)'
  BY <1>2 DEF Unmade
<1>4. \A i \in Jobs : Writing(i, "nodes")' => Writing(i, "nodes") /\ job'[i] = job[i]
  BY <1>2 DEF Writing
<1>5. ASSUME m \notin document.nodes, NEW i \in Jobs, Writing(i, "nodes"),
             job[i].op = "addNode"
      PROVE  job[i].of # m
  <2>1. CASE job[i].phase = "writing"
    BY <1>5, <2>1 DEF Unmade
  <2>2. CASE job[i].phase = "committed"
    BY <1>5, <2>2 DEF RecSound, CommittedIsWritten, JobsSound, Writing
  <2> QED
    BY <1>5, <2>1, <2>2 DEF Writing
<1>6. ASSUME NEW g \in Hosts, HeldOrGone(g, m)
      PROVE  HeldOrGone(g, m)' /\ (m \in held'[g].nodes => m \in held[g].nodes)
  <2>1. CASE g = h
    BY <1>1, <1>4, <1>5, <1>6, <2>1 DEF HeldOrGone, GoneFor
  <2>2. CASE g # h
    BY <1>1, <1>4, <1>6, <2>2 DEF HeldOrGone, GoneFor
  <2> QED
    BY <2>1, <2>2
<1> QED
  BY <1>3, <1>6
(* An answer is of no request that adds.                                     *)
LEMMA AnswerAddsNothing ==
  ASSUME NEW j \in Jobs, NEW ok \in BOOLEAN, Answer(j, ok)
  PROVE  \E y : /\ job' = [job EXCEPT ![j] = y] /\ calm' = calm
                /\ y.phase \notin {"writing", "committed"}
<1>1. PICK y : y = Answered(j, ok)
  OBVIOUS
<1> QED
  BY <1>1, AnsweredIsAJob DEF Answer, SetJob

(* The start of a write, of a request of machine m or a new one.             *)
LEMMA StartAdds ==
  ASSUME NEW j \in Jobs, NEW x \in Job, NEW d \in Docs,
         NEW list \in (SUBSET Machines) \cup (SUBSET Repos),
         StartsWrite(j, x, d, list)
  PROVE  \E y : /\ job' = [job EXCEPT ![j] = y] /\ (calm' => calm)
                /\ y.op = x.op /\ y.of = x.of
<1>1. PICK y : y = [x EXCEPT !.phase = "writing", !.doc = d, !.next = list]
  OBVIOUS
<1>2. y.op = x.op /\ y.of = x.of
  BY <1>1 DEF Job
<1>3. job' = [job EXCEPT ![j] = y] /\ (calm' => calm)
  BY <1>1 DEF StartsWrite, SetJob
<1> QED
  BY <1>2, <1>3

(* A route takes a request: at most a machine with a new identity is added.  *)
LEMMA TakeKeeps ==
  ASSUME RecSound, NEW j \in Jobs, NEW h \in Hosts, NEW op \in Ops,
         NEW of \in Machines \cup Repos, WellNamed(op, of),
         op = "addNode" => of \notin minted,
         Take(j, Asked(h, op, of))
  PROVE  MachinesKept /\ \A i \in Jobs \ {j} : job'[i] = job[i]
<1>1. PICK x : x = Asked(h, op, of)
  OBVIOUS
<1>2. /\ x \in Job /\ x.op = op /\ x.of = of /\ x.at = h
  BY <1>1, AskedIsAJob
<1>3. /\ minted' = IF x.op = "addNode" THEN minted \cup {x.of} ELSE minted
      /\ document' = document /\ held' = held
      /\ TakeAddNode(j, x) \/ TakeRemoveNode(j, x) \/ TakeOther(j, x)
  BY <1>1 DEF Take
<1>4. held \in [Hosts -> Records] /\ held[h] \in Records
  BY DEF RecSound, RecordsInv, RecordsTypeOK
<1>5. minted \subseteq minted'
  BY <1>3
<1>6. \E y : /\ job' = [job EXCEPT ![j] = y] /\ (calm' => calm)
             /\ y.phase \in {"writing", "committed"} /\ y.op = "addNode" => y.of \notin minted
  <2>1. CASE \E ok \in BOOLEAN : Answer(j, ok)
    BY <2>1, AnswerAddsNothing
  <2>2. CASE TakeAddNode(j, x) /\ ~Answer(j, FALSE)
    <3>1. PICK list : list = held[x.at].nodes \cup {x.of}
      OBVIOUS
    <3>2. x.op = "addNode" /\ StartsWrite(j, x, "nodes", list)
      BY <2>2, <3>1 DEF TakeAddNode, Unusable
    <3>3. list \in (SUBSET Machines) \cup (SUBSET Repos)
      BY <1>2, <1>4, <3>1, <3>2 DEF Records, WellNamed
    <3> QED
      BY <1>2, <3>2, <3>3, StartAdds DEF Docs
  <2>3. CASE TakeRemoveNode(j, x) /\ ~Answer(j, FALSE)
    <3>1. PICK list : list = held[x.at].nodes \ {x.of}
      OBVIOUS
    <3>2. x.op = "removeNode" /\ StartsWrite(j, x, "nodes", list)
      BY <2>3, <3>1 DEF TakeRemoveNode
    <3>3. list \in (SUBSET Machines) \cup (SUBSET Repos)
      BY <1>2, <1>4, <3>1 DEF Records
    <3> QED
      BY <1>2, <3>2, <3>3, StartAdds DEF Docs
  <2>4. CASE TakeOther(j, x) /\ ~Answer(j, FALSE)
    <3>1. PICK y : y = [x EXCEPT !.phase = "awaiting"]
      OBVIOUS
    <3>2. y.phase = "awaiting"
      BY <1>2, <3>1 DEF Job
    <3>3. job' = [job EXCEPT ![j] = y] /\ calm' = calm
      BY <2>4, <3>1 DEF TakeOther, SetJob
    <3> QED
      BY <3>2, <3>3
  <2> QED
    BY <1>3, <2>1, <2>2, <2>3, <2>4
<1>7. PICK y : /\ job' = [job EXCEPT ![j] = y] /\ (calm' => calm)
               /\ y.phase \in {"writing", "committed"} /\ y.op = "addNode" => y.of \notin minted
  BY <1>6
<1>8. \A i \in Jobs \ {j} : job'[i] = job[i]
  BY <1>7 DEF RecSound, RecordsInv, RecordsTypeOK
<1> QED
  BY <1>3, <1>5, <1>7, <1>8, KeptBy

(* What a request awaited comes, or fails: no machine is added.              *)
LEMMA AwaitedKeeps ==
  ASSUME RecSound, NEW j \in Jobs, Awaited(j)
  PROVE  MachinesKept /\ \A i \in Jobs \ {j} : job'[i] = job[i]
<1>1. PICK x : x = job[j]
  OBVIOUS
<1>2. /\ x \in Job /\ x.phase = "awaiting" /\ x.at \in Hosts /\ WellNamed(x.op, x.of)
      /\ held \in [Hosts -> Records] /\ held[x.at] \in Records
  BY <1>1 DEF Awaited, RecSound, RecordsInv, RecordsTypeOK, Job
<1>3. /\ UNCHANGED <<document, held, minted>>
      /\ \/ \E ok \in BOOLEAN : Answer(j, ok)
         \/ AddsRepo(j, x)
         \/ RemovesRepo(j, x)
  BY <1>1 DEF Awaited
<1>4. \E y : /\ job' = [job EXCEPT ![j] = y] /\ (calm' => calm)
             /\ y.phase \in {"writing", "committed"} => y.op # "addNode"
  <2>1. CASE \E ok \in BOOLEAN : Answer(j, ok)
    BY <2>1, AnswerAddsNothing
  <2>2. CASE AddsRepo(j, x)
    <3>1. PICK list : list = held[x.at].repos \cup {x.of}
      OBVIOUS
    <3>2. x.op = "addRepo" /\ StartsWrite(j, x, "repos", list)
      BY <2>2, <3>1 DEF AddsRepo
    <3>3. list \in (SUBSET Machines) \cup (SUBSET Repos)
      BY <1>2, <3>1, <3>2 DEF Records, WellNamed
    <3> QED
      BY <1>2, <3>2, <3>3, StartAdds DEF Docs
  <2>3. CASE RemovesRepo(j, x) /\ ~Answer(j, TRUE)
    <3>1. PICK list : list = held[x.at].repos \ {x.of}
      OBVIOUS
    <3>2. x.op = "removeRepo" /\ StartsWrite(j, x, "repos", list)
      BY <2>3, <3>1 DEF RemovesRepo
    <3>3. list \in (SUBSET Machines) \cup (SUBSET Repos)
      BY <1>2, <3>1 DEF Records
    <3> QED
      BY <1>2, <3>2, <3>3, StartAdds DEF Docs
  <2> QED
    BY <1>3, <2>1, <2>2, <2>3
<1>5. PICK y : /\ job' = [job EXCEPT ![j] = y] /\ (calm' => calm)
               /\ y.phase \in {"writing", "committed"} => y.op # "addNode"
  BY <1>4
<1>6. \A i \in Jobs \ {j} : job'[i] = job[i]
  BY <1>5 DEF RecSound, RecordsInv, RecordsTypeOK
<1> QED
  BY <1>3, <1>5, <1>6, KeptBy

(* A write that fails, and an answer that is heard, add no machine.          *)
LEMMA EndsKeep ==
  ASSUME RecSound, NEW j \in Jobs,
         \/ WriteFails(j)
         \/ SetJob(j, NoJob) /\ UNCHANGED <<document, held, minted, calm>>
  PROVE  MachinesKept /\ \A i \in Jobs \ {j} : job'[i] = job[i]
<1>1. \E y : /\ job' = [job EXCEPT ![j] = y] /\ (calm' => calm)
             /\ y.phase \notin {"writing", "committed"}
  <2>1. CASE WriteFails(j)
    <3>1. PICK y : y = Answered(j, FALSE)
      OBVIOUS
    <3> QED
      BY <2>1, <3>1, AnsweredIsAJob DEF WriteFails, Answer, SetJob
  <2>2. CASE SetJob(j, NoJob) /\ calm' = calm
    BY <2>2, NoJobIsAJob DEF SetJob
  <2> QED
    BY <2>1, <2>2
<1>2. UNCHANGED <<document, held, minted>>
  BY DEF WriteFails
<1>3. PICK y : /\ job' = [job EXCEPT ![j] = y] /\ (calm' => calm)
               /\ y.phase \notin {"writing", "committed"}
  BY <1>1
<1>4. \A i \in Jobs \ {j} : job'[i] = job[i]
  BY <1>3 DEF RecSound, RecordsInv, RecordsTypeOK
<1> QED
  BY <1>2, <1>3, <1>4, KeptBy

(* A request whose page is left is the one it was.                           *)
LEMMA LeaveKeeps ==
  ASSUME RecSound, NEW p \in Pages, LeavePage(p)
  PROVE  /\ MachinesKept
         /\ job'[p] = NoJob
         /\ \A q \in Pages \ {p} : job'[q] = job[q]
<1>0. p \in Jobs /\ job \in [Jobs -> Job]
  BY DEF Jobs, RecSound, RecordsInv, RecordsTypeOK
<1>1. UNCHANGED <<document, held, minted, calm>>
  BY PageLeft
<1>2. CASE SetJob(p, NoJob)
  <2>1. MachinesKept /\ \A i \in Jobs \ {p} : job'[i] = job[i]
    BY <1>0, <1>1, <1>2, EndsKeep
  <2> QED
    BY <1>0, <1>2, <2>1 DEF SetJob, Jobs
<1>3. ASSUME NEW o \in Left, HandedTo(p, o)
      PROVE  MachinesKept /\ job'[p] = NoJob /\ \A q \in Pages \ {p} : job'[q] = job[q]
  <2>1. o \in Jobs /\ o \notin Pages
    BY LeftAssumption DEF Jobs
  <2>2. \A i \in Jobs : job'[i] = IF i = p THEN NoJob ELSE IF i = o THEN job[p] ELSE job[i]
    BY <1>0, <1>3, <2>1 DEF HandedTo
  <2>3. \A i \in Jobs : job'[i].phase \in {"writing", "committed"} => \E k \in Jobs : job'[i] = job[k]
    BY <1>0, <2>2, NoJobIsAJob
  <2>4. MachinesKept
    BY <1>1, <2>3, KeptWithout
  <2> QED
    BY <1>0, <2>1, <2>2, <2>4 DEF Jobs
<1> QED
  BY <1>2, <1>3, PageLeft
(* What a step of the hosts does to the request of a page, and to the page:  *)
(* no request comes to be, and only the page that asked is told less.        *)
LEMMA HostStepFacts ==
  ASSUME RecSound, PageTypeOK, HostStep
  PROVE  /\ MachinesKept
         /\ \A p \in Pages :
              /\ job'[p].phase # "idle" => job[p].phase # "idle"
              /\ \/ page'[p] = page[p] /\ load'[p] = load[p]
                 \/ /\ job[p].phase # "idle"
                    /\ page'[p] = [page[p] EXCEPT !.shown.own = FALSE]
                    /\ load'[p] = [l \in Loads |-> [load[p][l] EXCEPT !.found.own = FALSE]]
<1>0. Pages \subseteq Jobs
  BY DEF Jobs
<1>1. ASSUME NEW j \in Jobs, PublishSeen(j)
      PROVE  /\ MachinesKept
             /\ \A p \in Pages :
                  /\ job'[p].phase # "idle" => job[p].phase # "idle"
                  /\ \/ page'[p] = page[p] /\ load'[p] = load[p]
                     \/ /\ job[p].phase # "idle"
                        /\ page'[p] = [page[p] EXCEPT !.shown.own = FALSE]
                        /\ load'[p] = [l \in Loads |-> [load[p][l] EXCEPT !.found.own = FALSE]]
  <2>1. Publish(j)
    BY <1>1 DEF PublishSeen
  <2>2. job[j].phase = "committed" /\ \A i \in Jobs \ {j} : job'[i] = job[i]
    BY <2>1, PublishFacts
  <2>3. MachinesKept
    BY <2>1, PublishKeeps
  <2>4. CASE UNCHANGED <<page, load>>
    BY <1>0, <2>2, <2>3, <2>4
  <2>5. CASE /\ j \in Pages
             /\ page' = [page EXCEPT ![j] = [page[j] EXCEPT !.shown.own = FALSE]]
             /\ load' = [load EXCEPT ![j] =
                           [l \in Loads |-> [load[j][l] EXCEPT !.found.own = FALSE]]]
    <3>1. PICK x, y : /\ x = [page[j] EXCEPT !.shown.own = FALSE]
                      /\ y = [l \in Loads |-> [load[j][l] EXCEPT !.found.own = FALSE]]
      OBVIOUS
    <3>2. page' = [page EXCEPT ![j] = x] /\ load' = [load EXCEPT ![j] = y]
      BY <2>5, <3>1
    <3>3. page \in [Pages -> Page] /\ load \in [Pages -> [Loads -> Load]]
      BY DEF PageTypeOK
    <3>4. page'[j] = x /\ load'[j] = y
      BY <2>5, <3>2, <3>3
    <3>5. \A p \in Pages : p # j => page'[p] = page[p] /\ load'[p] = load[p]
      BY <3>2, <3>3
    <3> QED
      BY <1>0, <2>2, <2>3, <3>1, <3>4, <3>5
  <2> QED
    BY <1>1, <2>4, <2>5 DEF PublishSeen, SetPage
<1>2. ASSUME NEW j \in Jobs, Serves(j)
      PROVE  MachinesKept /\ \A p \in Pages : job'[p].phase # "idle" => job[p].phase # "idle"
  <2>1. job[j].phase # "idle"
    BY <1>2 DEF Serves, Awaited, Commit, WriteFails
  <2>2. MachinesKept /\ \A i \in Jobs \ {j} : job'[i] = job[i]
    <3>1. CASE Commit(j)
      <4>1. \A i \in Jobs \ {j} : job'[i] = job[i]
        BY <3>1 DEF Commit, SetJob, RecSound, RecordsInv, RecordsTypeOK
      <4> QED
        BY <3>1, <4>1, CommitKeeps
    <3> QED
      BY <1>2, <3>1, AwaitedKeeps, EndsKeep DEF Serves
  <2> QED
    BY <1>0, <2>1, <2>2
<1>3. ASSUME NEW h \in Hosts, Restart(h)
      PROVE  MachinesKept /\ \A p \in Pages : job'[p].phase # "idle" => job[p].phase # "idle"
  <2>1. \A i \in Jobs : job'[i] = job[i] \/ job[i].at = h
    BY <1>3 DEF Restart
  <2>2. \A i \in Jobs : job[i].at = h => job[i].phase # "idle"
    BY RecordsNoneAssumption DEF RecSound, JobsSound, Served
  <2> QED
    BY <1>0, <1>3, <2>1, <2>2, RestartKeeps
<1> QED
  BY <1>1, <1>2, <1>3 DEF HostStep

(* What a step of page p does to the others, and to the machines.            *)
LEMMA PageStepFacts ==
  ASSUME RecSound, PageTypeOK, NEW p \in Pages, PageStep(p)
  PROVE  /\ MachinesKept
         /\ \A q \in Pages \ {p} :
              job'[q] = job[q] /\ page'[q] = page[q] /\ load'[q] = load[q]
<1>0. /\ p \in Jobs /\ Pages \subseteq Jobs
      /\ page \in [Pages -> Page] /\ load \in [Pages -> [Loads -> Load]]
  BY DEF Jobs, PageTypeOK
<1>1. MachinesKept /\ \A q \in Pages \ {p} : job'[q] = job[q]
  <2>1. CASE LeavePage(p)
    BY <2>1, LeaveKeeps
  <2>2. CASE Mutate(p) \/ Submit(p)
    <3>1. PICK kind \in {"mutate", "submit"}, op \in Ops, of \in Machines \cup Repos :
              /\ WellNamed(op, of)
              /\ op = "addNode" => of \notin minted
              /\ Changes(p, kind, op, of)
      BY <2>2, PageAsks
    <3>2. PICK h \in Hosts : h = HostOf[p]
      BY PagesAssumption
    <3>3. Take(p, Asked(h, op, of))
      BY <3>1, <3>2 DEF Changes
    <3> QED
      BY <1>0, <3>1, <3>3, TakeKeeps
  <2>3. CASE Done(p) \/ Failed(p)
    BY <1>0, <2>3, EndsKeep DEF Done, Failed, Answers
  <2>4. CASE UNCHANGED recordVars
    <3>1. /\ UNCHANGED <<document, held, job, minted, calm>>
      BY <2>4 DEF recordVars
    <3>2. \A i \in Jobs : job'[i] = job[i]
      BY <3>1
    <3> QED
      BY <1>0, <3>1, <3>2, KeptWithout
  <2> QED
    BY <2>1, <2>2, <2>3, <2>4
    DEF PageStep, OpenPage, Refresh, Poll, CloseDialog, OpenDialog, LoadStep,
        Reads, Shows, LoadFails
<1>2. \/ page' = page
      \/ \E x : page' = [page EXCEPT ![p] = x]
  BY DEF PageStep, OpenPage, LeavePage, Refresh, Poll, CloseDialog, OpenDialog,
     LoadStep, Reads, Shows, LoadFails, Mutate, Submit, SubmitMachine, SubmitRepo,
     SubmitWorktree, Changes, Done, Failed, SetPage
<1>3. \/ load' = load
      \/ \E x : load' = [load EXCEPT ![p] = x]
  <2>1. \A l, x : [load EXCEPT ![p][l] = x] = [load EXCEPT ![p] = [@ EXCEPT ![l] = x]]
    OBVIOUS
  <2> QED
    BY <2>1 DEF PageStep, OpenPage, LeavePage, Refresh, Poll, CloseDialog, OpenDialog,
     LoadStep, Reads, Shows, LoadFails, Mutate, Submit, SubmitMachine, SubmitRepo,
     SubmitWorktree, Changes, Done, Failed, Begin
<1> QED
  BY <1>0, <1>1, <1>2, <1>3
-----------------------------------------------------------------------------
(* The pages, step by step *)

(* What a page has read of is, after any step, still in memory or gone, and  *)
(* does not come into memory.                                                *)
LEMMA SeenLater ==
  ASSUME NEW p \in Pages, PageSound(p), MachinesKept, NEW m \in Seen(p)
  PROVE  /\ m \in minted' /\ Unmade(m)'
         /\ calm' => /\ calm
                     /\ HeldOrGone(HostOf[p], m)'
                     /\ m \in held'[HostOf[p]].nodes => m \in held[HostOf[p]].nodes
<1>1. HostOf[p] \in Hosts
  BY PagesAssumption
<1>2. m \in minted /\ Unmade(m) /\ (calm => HeldOrGone(HostOf[p], m))
  BY DEF PageSound, SeenSound
<1> QED
  BY <1>1, <1>2 DEF MachinesKept

(* A page that shows and has read no more than before: what it has seen is   *)
(* sound after any step.                                                     *)
LEMMA SeenKept ==
  ASSUME NEW p \in Pages, PageSound(p), MachinesKept,
         page'[p].shown.nodes = page[p].shown.nodes,
         page'[p].missed = page[p].missed,
         \A l \in Loads :
           /\ load'[p][l].found.nodes \in {{}, load[p][l].found.nodes}
           /\ load'[p][l].got =>
                load[p][l].got /\ load'[p][l].found.nodes = load[p][l].found.nodes
  PROVE  SeenSound(p)' /\ (calm' => MissedSound(p)')
<1>1. \A m \in Seen(p)' : m \in Seen(p)
  BY DEF Seen
<1>2. SeenSound(p)'
  BY <1>1, SeenLater DEF SeenSound
<1>3. ASSUME calm' PROVE MissedSound(p)'
  <2>1. calm /\ \A m \in Seen(p) : m \in held'[HostOf[p]].nodes => m \in held[HostOf[p]].nodes
    BY <1>3, SeenLater DEF MachinesKept
  <2>2. MissedSound(p)
    BY <2>1 DEF PageSound
  <2>3. page[p].missed \subseteq Seen(p) /\ page[p].shown.nodes \subseteq Seen(p)
    BY DEF Seen
  <2> QED
    BY <2>1, <2>2, <2>3 DEF MissedSound
<1> QED
  BY <1>2, <1>3

(* A page that a step of another leaves alone stays sound.                   *)
LEMMA PageUntouched ==
  ASSUME NEW p \in Pages, PageSound(p), MachinesKept,
         page'[p] = page[p], load'[p] = load[p],
         job'[p].phase # "idle" => job[p].phase # "idle"
  PROVE  PageSound(p)'
<1>1. LoadsSound(p)'
  BY DEF PageSound, LoadsSound
<1>2. ChangeSound(p)'
  BY DEF PageSound, ChangeSound, Reading
<1>3. SeenSound(p)' /\ (calm' => MissedSound(p)')
  BY SeenKept
<1> QED
  BY <1>1, <1>2, <1>3 DEF PageSound

(* A page without its own last change is the page it was, but for that.      *)
LEMMA PageWithoutOwn ==
  ASSUME NEW x \in Page
  PROVE  LET y == [x EXCEPT !.shown.own = FALSE]
         IN  /\ y \in Page
             /\ y.shown.nodes = x.shown.nodes /\ y.missed = x.missed
             /\ y.open = x.open /\ y.busy = x.busy /\ y.last = x.last
             /\ y.dialog = x.dialog /\ y.unsaid = x.unsaid /\ y.failed = x.failed
<1>1. PICK z : z = [x.shown EXCEPT !.own = FALSE]
  OBVIOUS
<1>2. x.shown \in Snapshot
  BY DEF Page
<1>3. z \in Snapshot /\ z.nodes = x.shown.nodes
  BY <1>1, <1>2 DEF Snapshot
<1>4. [x EXCEPT !.shown.own = FALSE] = [x EXCEPT !.shown = z]
  BY <1>1
<1>5. LET y == [x EXCEPT !.shown = z]
      IN  /\ y \in Page
          /\ y.shown.nodes = x.shown.nodes /\ y.missed = x.missed
          /\ y.open = x.open /\ y.busy = x.busy /\ y.last = x.last
          /\ y.dialog = x.dialog /\ y.unsaid = x.unsaid /\ y.failed = x.failed
  BY <1>3 DEF Page
<1> QED
  BY <1>4, <1>5

(* And so is a read that has been answered (PublishSeen).                    *)
LEMMA LoadWithoutOwn ==
  ASSUME NEW x \in Load
  PROVE  LET y == [x EXCEPT !.found.own = FALSE]
         IN  /\ y \in Load
             /\ y.flying = x.flying /\ y.newest = x.newest /\ y.got = x.got
             /\ y.found.nodes = x.found.nodes
<1>1. PICK z : z = [x.found EXCEPT !.own = FALSE]
  OBVIOUS
<1>2. x.found \in Snapshot
  BY DEF Load
<1>3. z \in Snapshot /\ z.nodes = x.found.nodes
  BY <1>1, <1>2 DEF Snapshot
<1>4. [x EXCEPT !.found.own = FALSE] = [x EXCEPT !.found = z]
  BY <1>1
<1>5. LET y == [x EXCEPT !.found = z]
      IN  /\ y \in Load
          /\ y.flying = x.flying /\ y.newest = x.newest /\ y.got = x.got
          /\ y.found.nodes = x.found.nodes
  BY <1>3 DEF Load
<1> QED
  BY <1>4, <1>5

(* A page told that its own list is published stays sound.                   *)
LEMMA PagePublished ==
  ASSUME NEW p \in Pages, PageTypeOK, PageSound(p), MachinesKept, job[p].phase # "idle",
         page'[p] = [page[p] EXCEPT !.shown.own = FALSE],
         load'[p] = [l \in Loads |-> [load[p][l] EXCEPT !.found.own = FALSE]]
  PROVE  /\ PageSound(p)'
         /\ page'[p] \in Page
         /\ load'[p] \in [Loads -> Load]
<1>1. page[p] \in Page /\ load[p] \in [Loads -> Load]
  BY DEF PageTypeOK
<1>2. /\ page'[p] \in Page
      /\ page'[p].shown.nodes = page[p].shown.nodes
      /\ page'[p].open = page[p].open /\ page'[p].busy = page[p].busy
      /\ page'[p].last = page[p].last /\ page'[p].dialog = page[p].dialog
      /\ page'[p].unsaid = page[p].unsaid /\ page'[p].failed = page[p].failed
      /\ page'[p].missed = page[p].missed
  <2>1. PICK x \in Page : x = page[p]
    BY <1>1
  <2>2. PICK y : y = [x EXCEPT !.shown.own = FALSE]
    OBVIOUS
  <2>3. page'[p] = y
    BY <2>1, <2>2
  <2>4. /\ y \in Page
        /\ y.shown.nodes = x.shown.nodes /\ y.missed = x.missed
        /\ y.open = x.open /\ y.busy = x.busy /\ y.last = x.last
        /\ y.dialog = x.dialog /\ y.unsaid = x.unsaid /\ y.failed = x.failed
    BY <2>2, PageWithoutOwn
  <2> QED
    BY ONLY <2>1, <2>3, <2>4
<1>3. \A l \in Loads :
        /\ load'[p][l] \in Load
        /\ load'[p][l].flying = load[p][l].flying
        /\ load'[p][l].newest = load[p][l].newest
        /\ load'[p][l].got = load[p][l].got
        /\ load'[p][l].found.nodes = load[p][l].found.nodes
  <2> TAKE l \in Loads
  <2>1. PICK x \in Load : x = load[p][l]
    BY <1>1
  <2>2. load'[p][l] = [x EXCEPT !.found.own = FALSE]
    BY <2>1
  <2> QED
    BY <2>1, <2>2, LoadWithoutOwn
<1>4. load'[p] \in [Loads -> Load]
  <2>1. DOMAIN load'[p] = Loads /\ load'[p] = [l \in Loads |-> load'[p][l]]
    OBVIOUS
  <2> QED
    BY <1>3, <2>1
<1>5. Reread \in Loads
  BY DEF Loads
<1>6. page[p].open /\ page[p].busy # "no" /\ page[p].last = "none"
  BY DEF PageSound, ChangeSound
<1>7. LoadsSound(p)'
  BY <1>2, <1>3, <1>5, <1>6 DEF PageSound, LoadsSound
<1>8. ChangeSound(p)'
  BY <1>2, <1>6 DEF PageSound, ChangeSound
<1>9. SeenSound(p)' /\ (calm' => MissedSound(p)')
  BY <1>2, <1>3, SeenKept
<1> QED
  BY <1>2, <1>4, <1>7, <1>8, <1>9 DEF PageSound

(* A read begins: it is the newest, and the only one that may be shown.      *)
LEMMA BeginFacts ==
  ASSUME NEW p \in Pages, PageTypeOK, NEW l \in Loads, load' = Begin(p, l)
  PROVE  /\ load' \in [Pages -> [Loads -> Load]]
         /\ load'[p][l].flying /\ load'[p][l].newest
         /\ \A i \in Loads : /\ ~load'[p][i].got
                             /\ load'[p][i].found.nodes = {}
                             /\ i # l => /\ ~load'[p][i].newest
                                         /\ load'[p][i].flying =>
                                              i = Reread /\ load[p][i].flying
<1>1. /\ Unread \in Snapshot /\ Unread.nodes = {}
      /\ NoLoad \in Load /\ ~NoLoad.flying /\ ~NoLoad.newest /\ ~NoLoad.got
      /\ NoLoad.found = Unread
  BY DEF NoLoad, Unread, Snapshot, Load
<1>2. /\ Started \in Load /\ Started.flying /\ Started.newest /\ ~Started.got
      /\ Started.found = Unread
  BY <1>1 DEF Started, Load
<1>3. \A i \in Loads : LET y == Superseded(i, load[p][i]) IN
        /\ y \in Load /\ ~y.newest /\ ~y.got /\ y.found = Unread
        /\ y.flying => i = Reread /\ load[p][i].flying
  BY <1>1 DEF Superseded, Load
<1>4. PICK ls : ls = [i \in Loads |-> IF i = l THEN Started ELSE Superseded(i, load[p][i])]
  OBVIOUS
<1>5. ls \in [Loads -> Load]
  BY <1>2, <1>3, <1>4
<1>6. load' = [load EXCEPT ![p] = ls] /\ load \in [Pages -> [Loads -> Load]]
  BY <1>4 DEF Begin, PageTypeOK
<1>7. load' \in [Pages -> [Loads -> Load]] /\ load'[p] = ls
  BY <1>5, <1>6
<1>8. \A i \in Loads : load'[p][i] = IF i = l THEN Started ELSE Superseded(i, load[p][i])
  BY <1>4, <1>7
<1> QED
  BY <1>1, <1>2, <1>3, <1>7, <1>8
(* A page is set to another.                                                 *)
LEMMA SetPageFacts ==
  ASSUME NEW p \in Pages, PageTypeOK, NEW x \in Page, SetPage(p, x)
  PROVE  page' \in [Pages -> Page] /\ page'[p] = x
  BY DEF SetPage, PageTypeOK

(* A page that is closed, and one that is new, have read of nothing.         *)
LEMMA NewPageFacts ==
  /\ NewPage \in Page /\ NewPage.open /\ NewPage.busy = "no" /\ NewPage.last = "none"
  /\ NewPage.shown.nodes = {} /\ NewPage.missed = {} /\ ~NewPage.shown.own
  /\ NoPage \in Page /\ ~NoPage.open /\ NoPage.busy = "no" /\ NoPage.last = "none"
  /\ NoPage.shown.nodes = {} /\ NoPage.missed = {} /\ NoPage.dialog = "none"
<1>1. Unread \in Snapshot /\ Unread.nodes = {} /\ ~Unread.own
  BY DEF Unread, Snapshot
<1>2. PICK u \in Snapshot : u = Unread /\ u.nodes = {} /\ ~u.own
  BY <1>1
<1>3. NewPage = [open |-> TRUE, shown |-> u, error |-> FALSE,
            busy |-> "no", dialog |-> "none", failed |-> FALSE, last |-> "none",
            unsaid |-> FALSE, missed |-> {}]
  BY <1>2 DEF NewPage
<1>4. /\ NewPage \in Page /\ NewPage.open /\ NewPage.busy = "no" /\ NewPage.last = "none"
      /\ NewPage.shown = u /\ NewPage.missed = {} /\ NewPage.dialog = "none"
  BY <1>3 DEF Page
<1>5. /\ NoPage \in Page /\ ~NoPage.open /\ NoPage.busy = "no" /\ NoPage.last = "none"
      /\ NoPage.shown = u /\ NoPage.missed = {} /\ NoPage.dialog = "none"
  BY <1>4 DEF NoPage, Page
<1> QED
  BY <1>2, <1>4, <1>5

(* The section mounted: the new page is sound.                               *)
LEMMA OpenPageSound ==
  ASSUME NEW p \in Pages, PageTypeOK, PageSound(p), MachinesKept, OpenPage(p)
  PROVE  PageSound(p)' /\ PageTypeOK'
<1>1. PICK l \in Polls : load' = Begin(p, l)
  BY DEF OpenPage
<1>2. l \in Loads /\ l # Reread /\ Reread \in Loads
  BY PagesAssumption DEF Loads
<1>3. /\ load' \in [Pages -> [Loads -> Load]]
      /\ load'[p][l].flying /\ load'[p][l].newest
      /\ \A i \in Loads : /\ ~load'[p][i].got
                          /\ load'[p][i].found.nodes = {}
                          /\ i # l => /\ ~load'[p][i].newest
                                      /\ load'[p][i].flying =>
                                           i = Reread /\ load[p][i].flying
  BY <1>1, <1>2, BeginFacts
<1>4. page' \in [Pages -> Page] /\ page'[p] = NewPage
  BY NewPageFacts, SetPageFacts DEF OpenPage
<1>5. page[p] = NoPage /\ \A i \in Loads : ~load[p][i].flying
  BY DEF OpenPage, PageSound, LoadsSound
<1>6. job'[p] = job[p] /\ job[p].phase = "idle"
  BY <1>5, NewPageFacts DEF OpenPage, recordVars, PageSound, ChangeSound
<1>7. LoadsSound(p)'
  BY <1>2, <1>3, <1>4, <1>5, NewPageFacts DEF LoadsSound
<1>8. ChangeSound(p)'
  BY <1>4, <1>6, NewPageFacts DEF ChangeSound
<1>9. SeenSound(p)' /\ (calm' => MissedSound(p)')
  BY <1>3, <1>4, <1>5, NewPageFacts, SeenKept
<1> QED
  BY <1>3, <1>4, <1>7, <1>8, <1>9 DEF PageSound, PageTypeOK

(* The section unmounted: nothing is left of it.                             *)
LEMMA LeavePageSound ==
  ASSUME NEW p \in Pages, PageTypeOK, PageSound(p), MachinesKept, LeavePage(p),
         job'[p] = NoJob
  PROVE  PageSound(p)' /\ PageTypeOK'
<1>1. page' \in [Pages -> Page] /\ page'[p] = NoPage
  BY NewPageFacts, SetPageFacts DEF LeavePage
<1>2. /\ NoLoad \in Load /\ ~NoLoad.flying /\ ~NoLoad.newest /\ ~NoLoad.got
      /\ NoLoad.found.nodes = {}
  BY DEF NoLoad, Unread, Snapshot, Load
<1>3. PICK ls : ls = [l \in Loads |-> NoLoad]
  OBVIOUS
<1>4. load' \in [Pages -> [Loads -> Load]] /\ load'[p] = ls
  BY <1>2, <1>3 DEF LeavePage, PageTypeOK
<1>5. \A l \in Loads : load'[p][l] = NoLoad
  BY <1>3, <1>4
<1>6. LoadsSound(p)'
  BY <1>1, <1>2, <1>5, NewPageFacts DEF LoadsSound, Loads
<1>7. ChangeSound(p)'
  BY <1>1, NewPageFacts, NoJobIsAJob DEF ChangeSound
<1>8. Seen(p)' = {}
  BY <1>1, <1>2, <1>5, NewPageFacts DEF Seen
<1>9. MissedSound(p)'
  BY <1>1, <1>2, <1>5, NewPageFacts DEF MissedSound
<1> QED
  BY <1>1, <1>4, <1>6, <1>7, <1>8, <1>9 DEF PageSound, PageTypeOK, SeenSound

(* The refresh button: a read begins on a page at rest.                      *)
LEMMA RefreshSound ==
  ASSUME NEW p \in Pages, PageTypeOK, PageSound(p), MachinesKept, Refresh(p)
  PROVE  PageSound(p)' /\ PageTypeOK'
<1>1. PICK l \in Polls : load' = Begin(p, l)
  BY DEF Refresh
<1>2. l \in Loads /\ l # Reread /\ Reread \in Loads
  BY PagesAssumption DEF Loads
<1>3. /\ load' \in [Pages -> [Loads -> Load]]
      /\ load'[p][l].flying /\ load'[p][l].newest
      /\ \A i \in Loads : /\ ~load'[p][i].got
                          /\ load'[p][i].found.nodes = {}
                          /\ i # l => /\ ~load'[p][i].newest
                                      /\ load'[p][i].flying =>
                                           i = Reread /\ load[p][i].flying
  BY <1>1, <1>2, BeginFacts
<1>4. PICK x : x = [page[p] EXCEPT !.last = "none", !.unsaid = FALSE]
  OBVIOUS
<1>5. /\ x \in Page /\ x.open = page[p].open /\ x.busy = page[p].busy /\ x.last = "none"
      /\ x.shown = page[p].shown /\ x.missed = page[p].missed
  BY <1>4 DEF PageTypeOK, Page
<1>6. page' \in [Pages -> Page] /\ page'[p] = x
  BY <1>4, <1>5, SetPageFacts DEF Refresh
<1>7. page[p].open /\ page[p].busy = "no" /\ job'[p] = job[p] /\ job[p].phase = "idle"
      /\ ~load[p][Reread].flying
  BY DEF Refresh, Resting, recordVars, PageSound, ChangeSound, LoadsSound
<1>8. LoadsSound(p)'
  BY <1>2, <1>3, <1>5, <1>6, <1>7 DEF LoadsSound
<1>9. ChangeSound(p)'
  BY <1>5, <1>6, <1>7 DEF ChangeSound
<1>10. SeenSound(p)' /\ (calm' => MissedSound(p)')
  BY <1>3, <1>5, <1>6, SeenKept
<1> QED
  BY <1>3, <1>6, <1>8, <1>9, <1>10 DEF PageSound, PageTypeOK

(* The timer of a change: a read begins beside it.                           *)
LEMMA PollSound ==
  ASSUME NEW p \in Pages, PageTypeOK, PageSound(p), MachinesKept, Poll(p)
  PROVE  PageSound(p)' /\ PageTypeOK'
<1>1. PICK l \in Polls : load' = Begin(p, l)
  BY DEF Poll
<1>2. l \in Loads /\ l # Reread /\ Reread \in Loads
  BY PagesAssumption DEF Loads
<1>3. /\ load' \in [Pages -> [Loads -> Load]]
      /\ load'[p][l].flying /\ load'[p][l].newest
      /\ \A i \in Loads : /\ ~load'[p][i].got
                          /\ load'[p][i].found.nodes = {}
                          /\ i # l => /\ ~load'[p][i].newest
                                      /\ load'[p][i].flying =>
                                           i = Reread /\ load[p][i].flying
  BY <1>1, <1>2, BeginFacts
<1>4. page[p].open /\ page[p].busy = "mutate" /\ page' = page /\ job' = job
  BY DEF Poll, recordVars
<1>5. LoadsSound(p)'
  BY <1>2, <1>3, <1>4 DEF LoadsSound, PageSound
<1>6. ChangeSound(p)'
  BY <1>2, <1>3, <1>4 DEF ChangeSound, PageSound, Reading
<1>7. SeenSound(p)' /\ (calm' => MissedSound(p)')
  BY <1>3, <1>4, SeenKept
<1> QED
  BY <1>3, <1>4, <1>5, <1>6, <1>7 DEF PageSound, PageTypeOK
(* One read of a page becomes another.                                       *)
LEMMA SetLoadFacts ==
  ASSUME NEW p \in Pages, NEW l \in Loads, PageTypeOK, NEW y \in Load,
         load' = [load EXCEPT ![p] = [load[p] EXCEPT ![l] = y]]
  PROVE  /\ load' \in [Pages -> [Loads -> Load]]
         /\ load'[p][l] = y
         /\ \A i \in Loads : i # l => load'[p][i] = load[p][i]
<1>1. PICK ls : ls = [load[p] EXCEPT ![l] = y]
  OBVIOUS
<1>2. /\ ls \in [Loads -> Load] /\ ls[l] = y
      /\ \A i \in Loads : i # l => ls[i] = load[p][i]
  BY <1>1 DEF PageTypeOK
<1>3. load' = [load EXCEPT ![p] = ls]
  BY <1>1
<1> QED
  BY <1>2, <1>3 DEF PageTypeOK

(* The host answers a read: it has found what is in memory.                  *)
LEMMA ReadsSound ==
  ASSUME NEW p \in Pages, NEW l \in Loads, RecSound, PageTypeOK, PageSound(p),
         MachinesKept, Reads(p, l)
  PROVE  PageSound(p)' /\ PageTypeOK'
<1> DEFINE has == held[HostOf[p]]
<1>1. HostOf[p] \in Hosts /\ has \in Records
  BY PagesAssumption DEF RecSound, RecordsInv, RecordsTypeOK
<1>2. PICK f : f = [nodes |-> has.nodes, repos |-> has.repos, own |-> TRUE]
  OBVIOUS
<1>3. f \in Snapshot /\ f.nodes = has.nodes /\ f.own
  BY <1>1, <1>2 DEF Snapshot, Records
<1>4. load[p][l] \in Load
  BY DEF PageTypeOK
<1>5. PICK y : y = [load[p][l] EXCEPT !.got = TRUE, !.found = f]
  OBVIOUS
<1>6. /\ y \in Load /\ y.flying = load[p][l].flying /\ y.newest = load[p][l].newest
      /\ y.got /\ y.found = f
  BY <1>3, <1>4, <1>5 DEF Load
<1>7. load' = [load EXCEPT ![p] = [load[p] EXCEPT ![l] = y]]
  BY <1>2, <1>5 DEF Reads
<1>8. /\ load' \in [Pages -> [Loads -> Load]]
      /\ load'[p][l] = y
      /\ \A i \in Loads : i # l => load'[p][i] = load[p][i]
  BY <1>6, <1>7, SetLoadFacts
<1>9. /\ page' = page /\ UNCHANGED <<document, held, job, minted, calm>>
      /\ load[p][l].newest /\ Reread \in Loads
  BY DEF Reads, recordVars, Loads
<1> HIDE DEF has
<1>10. LoadsSound(p)'
  BY <1>6, <1>8, <1>9 DEF LoadsSound, PageSound
<1>11. ChangeSound(p)'
  BY <1>3, <1>6, <1>8, <1>9 DEF ChangeSound, PageSound, Reading
<1>12. SeenSound(p)'
  <2> SUFFICES ASSUME NEW m \in Seen(p)'
               PROVE  /\ m \in minted' /\ Unmade(m)'
                      /\ calm' => HeldOrGone(HostOf[p], m)'
    BY DEF SeenSound
  <2>1. CASE m \in Seen(p)
    BY <2>1, SeenLater
  <2>2. CASE m \in has.nodes
    <3>1. m \in minted
      BY <1>1, <2>2 DEF RecSound, MintedSound, has
    <3>2. Unmade(m)'
      BY <1>1, <1>9, <2>2 DEF Unmade, RecSound, AddsAnew, has
    <3>3. HeldOrGone(HostOf[p], m)'
      BY <1>9, <2>2 DEF HeldOrGone, has
    <3> QED
      BY <1>9, <3>1, <3>2, <3>3
  <2>3. m \in Seen(p) \/ m \in has.nodes
    BY <1>3, <1>6, <1>8, <1>9 DEF Seen
  <2> QED
    BY <2>1, <2>2, <2>3
<1>13. ASSUME calm' PROVE MissedSound(p)'
  <2>1. MissedSound(p)
    BY <1>9, <1>13 DEF PageSound
  <2> QED
    BY <1>3, <1>6, <1>8, <1>9, <2>1 DEF MissedSound, has
<1> QED
  BY <1>8, <1>9, <1>10, <1>11, <1>12, <1>13 DEF PageSound, PageTypeOK

(* What a read that ended leaves of the page's change.                       *)
LEMMA EndedFacts ==
  ASSUME NEW x \in Page, NEW l \in Loads
  PROVE  LET y == Ended(x, l)
         IN  /\ y \in Page /\ y.open = x.open /\ y.shown = x.shown
             /\ y.error = x.error /\ y.failed = x.failed /\ y.last = x.last
             /\ y.unsaid = x.unsaid /\ y.missed = x.missed
             /\ l = Reread => y.busy = "no"
             /\ l # Reread => y.busy = x.busy /\ y.dialog = x.dialog
  BY DEF Ended, Page

(* A read that has ended is none.                                            *)
LEMMA NoLoadFacts ==
  /\ NoLoad \in Load /\ ~NoLoad.flying /\ ~NoLoad.newest /\ ~NoLoad.got
  /\ NoLoad.found.nodes = {}
  BY DEF NoLoad, Unread, Snapshot, Load

(* The newest read is shown: it is as the memory was, or what it lacks has   *)
(* gone.                                                                     *)
LEMMA ShowsSound ==
  ASSUME NEW p \in Pages, NEW l \in Loads, PageTypeOK, PageSound(p),
         MachinesKept, Shows(p, l)
  PROVE  PageSound(p)' /\ PageTypeOK'
<1>1. PICK f : f = load[p][l].found
  OBVIOUS
<1>2. PICK u : u = page[p].missed \cup (page[p].shown.nodes \ f.nodes)
  OBVIOUS
<1>3. PICK x : x = [page[p] EXCEPT !.error = FALSE, !.shown = f, !.missed = u]
  OBVIOUS
<1>4. page[p] \in Page /\ f \in Snapshot /\ u \in SUBSET Machines
  BY <1>1, <1>2 DEF PageTypeOK, Load, Page, Snapshot
<1>5. /\ x \in Page /\ ~x.error /\ x.shown = f /\ x.missed = u
      /\ x.open = page[p].open /\ x.failed = page[p].failed /\ x.last = page[p].last
      /\ x.unsaid = page[p].unsaid /\ x.busy = page[p].busy /\ x.dialog = page[p].dialog
  BY <1>3, <1>4 DEF Page
<1>6. /\ load[p][l].newest /\ load[p][l].got
      /\ UNCHANGED <<document, held, job, minted, calm>>
      /\ SetPage(p, Ended(x, l))
      /\ load' = [load EXCEPT ![p] = [load[p] EXCEPT ![l] = NoLoad]]
  BY <1>1, <1>2, <1>3 DEF Shows, recordVars
<1>7. PICK y : y = Ended(x, l)
  OBVIOUS
<1>8. /\ y \in Page /\ y.open = page[p].open /\ y.shown = f
      /\ ~y.error /\ y.failed = page[p].failed /\ y.last = page[p].last
      /\ y.unsaid = page[p].unsaid /\ y.missed = u
      /\ l = Reread => y.busy = "no"
      /\ l # Reread => y.busy = page[p].busy /\ y.dialog = page[p].dialog
  BY <1>5, <1>7, EndedFacts
<1>9. page' \in [Pages -> Page] /\ page'[p] = y
  BY <1>6, <1>7, <1>8, SetPageFacts
<1>10. /\ load' \in [Pages -> [Loads -> Load]]
       /\ load'[p][l] = NoLoad
       /\ \A i \in Loads : i # l => load'[p][i] = load[p][i]
  BY <1>6, NoLoadFacts, SetLoadFacts
<1>11. Reread \in Loads
  BY DEF Loads
<1>12. load[p][l].flying /\ page[p].open
       /\ \A i \in Loads : i # l => ~load[p][i].newest /\ ~load[p][i].got
  BY <1>6 DEF PageSound, LoadsSound
<1>13. job[p].phase # "idle" => l # Reread
  BY <1>12 DEF PageSound, LoadsSound, ChangeSound
<1>14. LoadsSound(p)'
  BY <1>8, <1>9, <1>10, <1>11, <1>12, NoLoadFacts DEF LoadsSound, PageSound
<1>15. ChangeSound(p)'
  <2>1. job'[p].phase # "idle" =>
          /\ page'[p].open /\ page'[p].busy # "no"
          /\ page'[p].last = "none" /\ ~page'[p].failed
    BY <1>6, <1>8, <1>9, <1>13 DEF PageSound, ChangeSound
  <2>2. page'[p].last = "done" =>
          (\A i \in Loads : ~load'[p][i].got) /\ page'[p].shown.own /\ ~page'[p].failed
    BY <1>1, <1>6, <1>8, <1>9, <1>10, <1>12, NoLoadFacts DEF PageSound, ChangeSound
  <2>3. page'[p].last = "failed" =>
          page'[p].busy = "no" /\ (page'[p].failed \/ page'[p].unsaid)
    BY <1>6, <1>8, <1>9 DEF PageSound, ChangeSound, Reading
  <2>4. page'[p].busy = "submit" => page'[p].dialog # "none" \/ page'[p].unsaid
    BY <1>8, <1>9 DEF PageSound, ChangeSound
  <2> QED
    BY <2>1, <2>2, <2>3, <2>4 DEF ChangeSound
<1>16. \A m \in Seen(p)' : m \in Seen(p)
  BY <1>1, <1>2, <1>8, <1>9, <1>10, NoLoadFacts DEF Seen
<1>17. SeenSound(p)'
  BY <1>16, SeenLater DEF SeenSound
<1>18. ASSUME calm' PROVE MissedSound(p)'
  <2>1. MissedSound(p)
    BY <1>6, <1>18 DEF PageSound
  <2>2. /\ page[p].missed \cap held[HostOf[p]].nodes = {}
        /\ f.nodes \cap page[p].missed = {}
        /\ (page[p].shown.nodes \ f.nodes) \cap held[HostOf[p]].nodes = {}
    BY <1>1, <1>6, <2>1 DEF MissedSound
  <2>3. \A i \in Loads : ~load'[p][i].got
    BY <1>10, <1>12, NoLoadFacts
  <2>4. page'[p].missed = u /\ page'[p].shown = f /\ held' = held
    BY <1>6, <1>8, <1>9
  <2> QED
    BY <1>2, <2>2, <2>3, <2>4 DEF MissedSound
<1> QED
  BY <1>9, <1>10, <1>14, <1>15, <1>17, <1>18 DEF PageSound, PageTypeOK

(* A read that failed, or that a newer one superseded, is over.              *)
LEMMA LoadFailsSound ==
  ASSUME NEW p \in Pages, NEW l \in Loads, PageTypeOK, PageSound(p),
         MachinesKept, LoadFails(p, l)
  PROVE  PageSound(p)' /\ PageTypeOK'
<1>1. PICK x : x = [page[p] EXCEPT !.error = @ \/ load[p][l].newest]
  OBVIOUS
<1>2. page[p] \in Page /\ load[p][l] \in Load
  BY DEF PageTypeOK
<1>3. PICK e \in BOOLEAN : e <=> (page[p].error \/ load[p][l].newest)
  OBVIOUS
<1>4. x = [page[p] EXCEPT !.error = e]
  <2>1. page[p].error \in BOOLEAN /\ load[p][l].newest \in BOOLEAN
    BY <1>2 DEF Page, Load
  <2>2. e = (page[p].error \/ load[p][l].newest)
    BY <1>3, <2>1, Zenon
  <2> QED
    BY <1>1, <2>2
<1>5. /\ x \in Page /\ x.error = e /\ x.shown = page[p].shown /\ x.missed = page[p].missed
      /\ x.open = page[p].open /\ x.failed = page[p].failed /\ x.last = page[p].last
      /\ x.unsaid = page[p].unsaid /\ x.busy = page[p].busy /\ x.dialog = page[p].dialog
  BY <1>2, <1>4 DEF Page
<1>6. /\ load[p][l].flying
      /\ UNCHANGED <<document, held, job, minted, calm>>
      /\ SetPage(p, Ended(x, l))
      /\ load' = [load EXCEPT ![p] = [load[p] EXCEPT ![l] = NoLoad]]
  BY <1>1 DEF LoadFails, recordVars
<1>7. PICK y : y = Ended(x, l)
  OBVIOUS
<1>8. /\ y \in Page /\ y.open = page[p].open /\ y.shown = page[p].shown
      /\ y.error = e /\ y.failed = page[p].failed /\ y.last = page[p].last
      /\ y.unsaid = page[p].unsaid /\ y.missed = page[p].missed
      /\ l = Reread => y.busy = "no"
      /\ l # Reread => y.busy = page[p].busy /\ y.dialog = page[p].dialog
  BY <1>5, <1>7, EndedFacts
<1>9. page' \in [Pages -> Page] /\ page'[p] = y
  BY <1>6, <1>7, <1>8, SetPageFacts
<1>10. /\ load' \in [Pages -> [Loads -> Load]]
       /\ load'[p][l] = NoLoad
       /\ \A i \in Loads : i # l => load'[p][i] = load[p][i]
  BY <1>6, NoLoadFacts, SetLoadFacts
<1>11. Reread \in Loads
  BY DEF Loads
<1>12. page[p].open
  BY <1>6 DEF PageSound, LoadsSound
<1>13. job[p].phase # "idle" => l # Reread
  BY <1>6 DEF PageSound, LoadsSound, ChangeSound
<1>14. LoadsSound(p)'
  BY <1>8, <1>9, <1>10, <1>11, <1>12, NoLoadFacts DEF LoadsSound, PageSound
<1>15. ChangeSound(p)'
  <2>1. job'[p].phase # "idle" =>
          /\ page'[p].open /\ page'[p].busy # "no"
          /\ page'[p].last = "none" /\ ~page'[p].failed
    BY <1>6, <1>8, <1>9, <1>13 DEF PageSound, ChangeSound
  <2>2. page'[p].last = "done" =>
          /\ \A i \in Loads : load'[p][i].got => load'[p][i].found.own
          /\ ~page'[p].failed
          /\ Reading(p)' \/ page'[p].error \/ page'[p].shown.own
    BY <1>3, <1>8, <1>9, <1>10, NoLoadFacts DEF PageSound, ChangeSound, Reading
  <2>3. page'[p].last = "failed" =>
          page'[p].busy = "no" /\ (page'[p].failed \/ page'[p].unsaid
                                   \/ (page'[p].error /\ ~Reading(p)'))
    BY <1>3, <1>8, <1>9, <1>10, NoLoadFacts DEF PageSound, ChangeSound, Reading
  <2>4. page'[p].busy = "submit" => page'[p].dialog # "none" \/ page'[p].unsaid
    BY <1>8, <1>9 DEF PageSound, ChangeSound
  <2> QED
    BY <2>1, <2>2, <2>3, <2>4 DEF ChangeSound
<1>16. SeenSound(p)' /\ (calm' => MissedSound(p)')
  BY <1>8, <1>9, <1>10, NoLoadFacts, SeenKept
<1> QED
  BY <1>9, <1>10, <1>14, <1>15, <1>16 DEF PageSound, PageTypeOK
(* A page that changes what it tells, and neither what it shows nor its      *)
(* reads: it stays sound if its change does.                                 *)
LEMMA TellsOther ==
  ASSUME NEW p \in Pages, PageTypeOK, PageSound(p), MachinesKept, NEW x \in Page,
         SetPage(p, x), load' = load,
         x.shown = page[p].shown, x.missed = page[p].missed, x.open, page[p].open,
         load[p][Reread].flying => x.last = "done" /\ x.busy # "no",
         page'[p] = x /\ load'[p] = load[p] => ChangeSound(p)'
  PROVE  PageSound(p)' /\ PageTypeOK'
<1>1. page' \in [Pages -> Page] /\ page'[p] = x
  BY SetPageFacts
<1>2. LoadsSound(p)'
  BY <1>1 DEF LoadsSound, PageSound
<1>3. ChangeSound(p)'
  BY <1>1
<1>4. SeenSound(p)' /\ (calm' => MissedSound(p)')
  BY <1>1, SeenKept
<1> QED
  BY <1>1, <1>2, <1>3, <1>4 DEF PageSound, PageTypeOK

(* A dialog opens on a page at rest.                                         *)
LEMMA OpenDialogSound ==
  ASSUME NEW p \in Pages, NEW kind \in Dialogs, PageTypeOK, PageSound(p),
         MachinesKept, OpenDialog(p, kind)
  PROVE  PageSound(p)' /\ PageTypeOK'
<1>1. PICK x : x = [page[p] EXCEPT !.dialog = kind]
  OBVIOUS
<1>2. /\ x \in Page /\ x.open = page[p].open /\ x.busy = page[p].busy
      /\ x.last = page[p].last /\ x.error = page[p].error /\ x.failed = page[p].failed
      /\ x.unsaid = page[p].unsaid /\ x.shown = page[p].shown /\ x.missed = page[p].missed
  BY <1>1 DEF PageTypeOK, Page
<1>3. /\ page[p].open /\ page[p].busy = "no" /\ SetPage(p, x)
      /\ load' = load /\ job' = job
  BY <1>1 DEF OpenDialog, Resting, recordVars
<1>4. ~load[p][Reread].flying
  BY <1>3 DEF PageSound, LoadsSound
<1>5. page'[p] = x /\ load'[p] = load[p] => ChangeSound(p)'
  BY <1>2, <1>3 DEF PageSound, ChangeSound, Reading
<1> QED
  BY <1>2, <1>3, <1>4, <1>5, TellsOther

(* A dialog closed, whatever its change does.                                *)
LEMMA CloseDialogSound ==
  ASSUME NEW p \in Pages, PageTypeOK, PageSound(p), MachinesKept, CloseDialog(p)
  PROVE  PageSound(p)' /\ PageTypeOK'
<1>1. page[p] \in Page
  BY DEF PageTypeOK
<1>2. PICK last : last = IF page[p].failed THEN "none" ELSE page[p].last
  OBVIOUS
<1>3. PICK un \in BOOLEAN : un <=> (page[p].unsaid \/ page[p].busy # "no")
  OBVIOUS
<1>4. un = (page[p].unsaid \/ page[p].busy # "no")
  <2>1. page[p].unsaid \in BOOLEAN
    BY <1>1 DEF Page
  <2> QED
    BY <1>3, <2>1, Zenon
<1>5. PICK x : x = [page[p] EXCEPT !.dialog = "none", !.failed = FALSE,
                                   !.last = last, !.unsaid = un]
  OBVIOUS
<1>6. /\ x \in Page /\ x.open = page[p].open /\ x.busy = page[p].busy
      /\ x.last = last /\ x.error = page[p].error /\ ~x.failed /\ x.unsaid = un
      /\ x.shown = page[p].shown /\ x.missed = page[p].missed
  BY <1>1, <1>2, <1>5 DEF Page
<1>7. /\ page[p].dialog # "none" /\ SetPage(p, x) /\ load' = load /\ job' = job
  BY <1>2, <1>4, <1>5 DEF CloseDialog, recordVars
<1>8. page[p].open
  BY <1>7, NewPageFacts DEF PageSound, LoadsSound
<1>9. load[p][Reread].flying => x.last = "done" /\ x.busy # "no"
  <2> SUFFICES ASSUME load[p][Reread].flying PROVE last = "done" /\ x.busy # "no"
    BY <1>6
  <2>1. page[p].last = "done" /\ page[p].busy # "no"
    BY DEF PageSound, LoadsSound
  <2>2. ~page[p].failed
    BY <2>1 DEF PageSound, ChangeSound
  <2> QED
    BY <1>2, <1>6, <2>1, <2>2
<1>10. page'[p] = x /\ load'[p] = load[p] => ChangeSound(p)'
  BY <1>2, <1>3, <1>6, <1>7, <1>8 DEF PageSound, ChangeSound, Reading
<1> QED
  BY <1>6, <1>7, <1>8, <1>9, <1>10, TellsOther
(* A change asked from a control or a dialog.                                *)
LEMMA ChangesSound ==
  ASSUME NEW p \in Pages, PageTypeOK, PageSound(p), MachinesKept,
         NEW kind \in {"mutate", "submit"}, NEW op, NEW of,
         Resting(p), kind = "submit" => page[p].dialog # "none",
         Changes(p, kind, op, of)
  PROVE  PageSound(p)' /\ PageTypeOK'
<1>1. PICK x : x = [page[p] EXCEPT !.busy = kind, !.failed = FALSE,
                                   !.last = "none", !.unsaid = FALSE]
  OBVIOUS
<1>2. /\ x \in Page /\ x.open = page[p].open /\ x.busy = kind /\ x.last = "none"
      /\ ~x.failed /\ x.dialog = page[p].dialog
      /\ x.shown = page[p].shown /\ x.missed = page[p].missed
  BY <1>1 DEF PageTypeOK, Page
<1>3. /\ page[p].open /\ page[p].busy = "no" /\ SetPage(p, x) /\ load' = load
  BY <1>1 DEF Changes, Resting
<1>4. ~load[p][Reread].flying
  BY <1>3 DEF PageSound, LoadsSound
<1>5. page'[p] = x /\ load'[p] = load[p] => ChangeSound(p)'
  BY <1>2, <1>3 DEF ChangeSound
<1> QED
  BY <1>2, <1>3, <1>4, <1>5, TellsOther

(* A change that was made: the page reads again.                             *)
LEMMA DoneSound ==
  ASSUME NEW p \in Pages, RecSound, PageTypeOK, PageSound(p), MachinesKept, Done(p)
  PROVE  PageSound(p)' /\ PageTypeOK'
<1>0. Reread \in Loads /\ p \in Jobs
  BY DEF Loads, Jobs
<1>1. page[p] \in Page
  BY DEF PageTypeOK
<1>2. PICK e \in BOOLEAN : e <=> (page[p].error /\ page[p].busy = "submit")
  OBVIOUS
<1>3. e = (page[p].error /\ page[p].busy = "submit")
  <2>1. page[p].error \in BOOLEAN
    BY <1>1 DEF Page
  <2> QED
    BY <1>2, <2>1, Zenon
<1>4. PICK x : x = [page[p] EXCEPT !.last = "done", !.error = e]
  OBVIOUS
<1>5. /\ x \in Page /\ x.open = page[p].open /\ x.busy = page[p].busy /\ x.last = "done"
      /\ x.failed = page[p].failed /\ x.dialog = page[p].dialog
      /\ x.unsaid = page[p].unsaid
      /\ x.shown = page[p].shown /\ x.missed = page[p].missed
  BY <1>1, <1>4 DEF Page
<1>6. /\ job[p].phase = "answered" /\ SetJob(p, NoJob) /\ SetPage(p, x)
      /\ load' = Begin(p, Reread)
  BY <1>3, <1>4 DEF Done, Answers
<1>7. job'[p].phase = "idle"
  BY <1>0, <1>6, NoJobIsAJob DEF SetJob, RecSound, RecordsInv, RecordsTypeOK
<1>8. page' \in [Pages -> Page] /\ page'[p] = x
  BY <1>5, <1>6, SetPageFacts
<1>9. /\ load' \in [Pages -> [Loads -> Load]]
      /\ load'[p][Reread].flying /\ load'[p][Reread].newest
      /\ \A i \in Loads : /\ ~load'[p][i].got
                          /\ load'[p][i].found.nodes = {}
                          /\ i # Reread => ~load'[p][i].newest
  BY <1>0, <1>6, BeginFacts
<1>10. page[p].open /\ page[p].busy # "no" /\ ~page[p].failed
  BY <1>6 DEF PageSound, ChangeSound
<1>11. LoadsSound(p)'
  BY <1>5, <1>8, <1>9, <1>10 DEF LoadsSound
<1>12. ChangeSound(p)'
  BY <1>0, <1>5, <1>7, <1>8, <1>9, <1>10 DEF ChangeSound, PageSound, Reading
<1>13. SeenSound(p)' /\ (calm' => MissedSound(p)')
  BY <1>5, <1>8, <1>9, SeenKept
<1> QED
  BY <1>8, <1>9, <1>11, <1>12, <1>13 DEF PageSound, PageTypeOK

(* A change that failed: the banner tells, or the dialog.                    *)
LEMMA FailedSound ==
  ASSUME NEW p \in Pages, RecSound, PageTypeOK, PageSound(p), MachinesKept, Failed(p)
  PROVE  PageSound(p)' /\ PageTypeOK'
<1>0. p \in Jobs /\ Reread \in Loads
  BY DEF Jobs, Loads
<1>1. page[p] \in Page /\ page[p].error \in BOOLEAN /\ page[p].unsaid \in BOOLEAN
  BY DEF PageTypeOK, Page
<1>2. PICK e \in BOOLEAN : e <=> (page[p].error \/ page[p].busy = "mutate")
  OBVIOUS
<1>3. PICK f \in BOOLEAN : f <=> (page[p].busy = "submit" /\ page[p].dialog # "none")
  OBVIOUS
<1>4. PICK un \in BOOLEAN : un <=> (page[p].unsaid \/ (page[p].busy = "mutate" /\ Reading(p)))
  OBVIOUS
<1>5. /\ e = (page[p].error \/ page[p].busy = "mutate")
      /\ f = (page[p].busy = "submit" /\ page[p].dialog # "none")
      /\ un = (page[p].unsaid \/ (page[p].busy = "mutate" /\ Reading(p)))
  BY <1>1, <1>2, <1>3, <1>4, Zenon
<1>6. PICK x : x = [page[p] EXCEPT !.busy = "no", !.last = "failed", !.error = e,
                                   !.failed = f, !.unsaid = un]
  OBVIOUS
<1>7. /\ x \in Page /\ x.open = page[p].open /\ x.busy = "no" /\ x.last = "failed"
      /\ x.error = e /\ x.failed = f /\ x.unsaid = un
      /\ x.shown = page[p].shown /\ x.missed = page[p].missed
  BY <1>1, <1>6 DEF Page
<1>8. /\ job[p].phase = "answered" /\ SetJob(p, NoJob) /\ SetPage(p, x)
      /\ load' = load
  BY <1>5, <1>6 DEF Failed, Answers
<1>9. job'[p].phase = "idle"
  BY <1>0, <1>8, NoJobIsAJob DEF SetJob, RecSound, RecordsInv, RecordsTypeOK
<1>10. page[p].open /\ page[p].busy \in {"mutate", "submit"} /\ page[p].last = "none"
  BY <1>1, <1>8 DEF PageSound, ChangeSound, Page
<1>11. ~load[p][Reread].flying
  BY <1>10 DEF PageSound, LoadsSound
<1>12. page'[p] = x /\ load'[p] = load[p] => ChangeSound(p)'
  BY <1>2, <1>3, <1>4, <1>7, <1>9, <1>10 DEF PageSound, ChangeSound, Reading
<1> QED
  BY <1>7, <1>8, <1>10, <1>11, <1>12, TellsOther

(* Every step of the hosts and the pages leaves the pages sound.             *)
LEMMA PagesStep ==
  ASSUME SettingsSound, [SettingsNext]_pageVars
  PROVE  PagesSound'
<1>0. RecSound /\ PageTypeOK /\ \A p \in Pages : PageSound(p)
  BY DEF SettingsSound, PagesSound
<1>1. CASE UNCHANGED pageVars
  <2>1. UNCHANGED <<document, held, job, minted, calm, page, load>>
    BY <1>1 DEF pageVars, recordVars
  <2>2. MachinesKept
    BY <2>1, KeptWithout
  <2>3. \A p \in Pages : PageSound(p)'
    BY <1>0, <2>1, <2>2, PageUntouched
  <2> QED
    BY <1>0, <2>1, <2>3 DEF PagesSound, PageTypeOK
<1>2. CASE HostStep
  <2>1. MachinesKept
    BY <1>0, <1>2, HostStepFacts
  <2>2. ASSUME NEW p \in Pages
        PROVE  PageSound(p)' /\ page'[p] \in Page /\ load'[p] \in [Loads -> Load]
    <3>1. CASE page'[p] = page[p] /\ load'[p] = load[p]
      <4>1. job'[p].phase # "idle" => job[p].phase # "idle"
        BY <1>0, <1>2, HostStepFacts
      <4> QED
        BY <1>0, <2>1, <3>1, <4>1, PageUntouched DEF PageTypeOK
    <3>2. CASE /\ job[p].phase # "idle"
               /\ page'[p] = [page[p] EXCEPT !.shown.own = FALSE]
               /\ load'[p] = [l \in Loads |-> [load[p][l] EXCEPT !.found.own = FALSE]]
      BY <1>0, <2>1, <3>2, PagePublished
    <3> QED
      BY <1>0, <1>2, <3>1, <3>2, HostStepFacts
  <2>3. /\ page' = [p \in Pages |-> page'[p]]
        /\ load' = [p \in Pages |-> load'[p]]
    <3>1. CASE UNCHANGED <<page, load>>
      BY <1>0, <3>1 DEF PageTypeOK
    <3>2. CASE \E j \in Pages : \E x, y : /\ page' = [page EXCEPT ![j] = x]
                                         /\ load' = [load EXCEPT ![j] = y]
      BY <1>0, <3>2 DEF PageTypeOK
    <3> QED
      BY <1>2, <3>1, <3>2 DEF HostStep, PublishSeen, SetPage
  <2>4. PageTypeOK'
    BY <2>2, <2>3 DEF PageTypeOK
  <2> QED
    BY <2>2, <2>4 DEF PagesSound
<1>3. ASSUME NEW p \in Pages, PageStep(p)
      PROVE  PagesSound'
  <2>1. MachinesKept /\ \A q \in Pages \ {p} :
          job'[q] = job[q] /\ page'[q] = page[q] /\ load'[q] = load[q]
    BY <1>0, <1>3, PageStepFacts
  <2>2. \A q \in Pages \ {p} : PageSound(q)'
    BY <1>0, <2>1, PageUntouched
  <2>3. PageSound(p)' /\ PageTypeOK'
    <3>1. CASE LeavePage(p)
      BY <1>0, <2>1, <3>1, LeaveKeeps, LeavePageSound
    <3>2. CASE Mutate(p) \/ Submit(p)
      <4>1. Resting(p)
        BY <1>0, <3>2, PageAsks
      <4>2. PICK kind \in {"mutate", "submit"}, op \in Ops, of \in Machines \cup Repos :
              /\ kind = "submit" => page[p].dialog # "none"
              /\ Changes(p, kind, op, of)
        BY <1>0, <3>2, PageAsks
      <4> QED
        BY <1>0, <2>1, <4>1, <4>2, ChangesSound
    <3>3. ASSUME NEW l \in Loads, LoadStep(p, l)
          PROVE  PageSound(p)' /\ PageTypeOK'
      BY <1>0, <2>1, <3>3, ReadsSound, ShowsSound, LoadFailsSound DEF LoadStep
    <3>4. ASSUME NEW kind \in Dialogs, OpenDialog(p, kind)
          PROVE  PageSound(p)' /\ PageTypeOK'
      BY <1>0, <2>1, <3>4, OpenDialogSound
    <3>5. CASE OpenPage(p) \/ Refresh(p) \/ Poll(p) \/ CloseDialog(p)
      BY <1>0, <2>1, <3>5, OpenPageSound, RefreshSound, PollSound, CloseDialogSound
    <3>6. CASE Done(p) \/ Failed(p)
      BY <1>0, <2>1, <3>6, DoneSound, FailedSound
    <3> QED
      BY <1>3, <3>1, <3>2, <3>3, <3>4, <3>5, <3>6 DEF PageStep
  <2> QED
    BY <2>2, <2>3 DEF PagesSound
<1> QED
  BY <1>1, <1>2, <1>3 DEF SettingsNext
-----------------------------------------------------------------------------
(* The theorems *)

(* The hosts start from the documents of earlier runs, with no page open.    *)
LEMMA SettingsStart == SettingsInit => SettingsSound
<1> SUFFICES ASSUME SettingsInit PROVE SettingsSound
  OBVIOUS
<1>1. /\ document \in Stored
      /\ held = [h \in Hosts |-> document]
      /\ job = [j \in Jobs |-> NoJob]
      /\ minted = document.nodes /\ astray = {}
      /\ page = [p \in Pages |-> NoPage]
      /\ load = [p \in Pages |-> [l \in Loads |-> NoLoad]]
  BY DEF SettingsInit, RecordsInit
<1>a. calm = \A g, h \in Hosts : g = h
  BY DEF SettingsInit, RecordsInit
<1>b. calm \in BOOLEAN
  BY <1>a, Zenon
<1>c. calm => \A g, h \in Hosts : g = h
  BY <1>a, Zenon
<1>2. /\ document \in Records
      /\ \A r \in document.repos : r \in Repos /\ On[r] \in document.nodes
  BY <1>1, StoredAssumption DEF Records
<1>3. /\ document.nodes \subseteq Machines
      /\ \A h \in Hosts : held[h] = document
      /\ \A j \in Jobs : job[j] = NoJob
  BY <1>1, <1>2 DEF Records
<1>4. RecordsTypeOK
  BY <1>1, <1>2, <1>3, <1>b, NoJobIsAJob DEF RecordsTypeOK
<1>5. MemoryIsDocument /\ OrphanExplained
  BY <1>2, <1>3 DEF MemoryIsDocument, OrphanExplained, Stray
<1>6. \A j \in Jobs : ~Served(j) /\ \A d \in Docs : ~Writing(j, d)
  BY <1>3, NoJobIsAJob DEF Served, Writing
<1>7. JobsSound
  BY <1>3, <1>6, NoJobIsAJob DEF JobsSound, Docs
<1>8. MintedSound /\ CommittedIsWritten /\ AddsAnew /\ CalmWrites
  BY <1>1, <1>3, <1>6, <1>c, NoJobIsAJob
  DEF MintedSound, CommittedIsWritten, AddsAnew, CalmWrites, Docs
<1>9. RecSound
  BY <1>4, <1>5, <1>7, <1>8 DEF RecSound, RecordsInv
<1>10. \A p \in Pages : page[p] = NoPage /\ \A l \in Loads : load[p][l] = NoLoad
  BY <1>1
<1>11. PageTypeOK
  BY <1>1, NewPageFacts, NoLoadFacts DEF PageTypeOK
<1>12. ASSUME NEW p \in Pages PROVE PageSound(p)
  <2>1. job[p].phase = "idle"
    BY <1>3, NoJobIsAJob DEF Jobs
  <2>2. LoadsSound(p)
    BY <1>10, NewPageFacts, NoLoadFacts DEF LoadsSound, Loads
  <2>3. ChangeSound(p)
    BY <1>10, <2>1, NewPageFacts DEF ChangeSound
  <2>4. Seen(p) = {}
    BY <1>10, NewPageFacts, NoLoadFacts DEF Seen
  <2>5. MissedSound(p)
    BY <1>10, NewPageFacts, NoLoadFacts DEF MissedSound
  <2> QED
    BY <2>2, <2>3, <2>4, <2>5 DEF PageSound, SeenSound
<1> QED
  BY <1>9, <1>11, <1>12 DEF SettingsSound, PagesSound

(* The inductive invariant of the records and the pages.                     *)
THEOREM SettingsStaySound == SettingsSpec => []SettingsSound
<1>1. SettingsInit => SettingsSound
  BY SettingsStart
<1>2. SettingsSound /\ [SettingsNext]_pageVars => SettingsSound'
  BY RecordsStep, PagesStep DEF SettingsSound, PagesSound
<1> QED
  BY <1>1, <1>2, PTL DEF SettingsSpec

(* The records agree (RecordsInv; storage/nodes.ts, repos.ts, document.ts):  *)
(* if the home has one host, memory is what is on disk however requests      *)
(* overlap, and while its writes do not, a repository without a machine is   *)
(* one registered meanwhile, or left by a removal that failed half-way, was  *)
(* cut off by a restart or is under way.  Of several hosts it says only that *)
(* their records keep their shape.                                           *)
THEOREM RecordsAgree == SettingsSpec => []RecordsInv
<1>1. SettingsSound => RecordsInv
  BY DEF SettingsSound, RecSound
<1> QED
  BY <1>1, SettingsStaySound, PTL

(* With one host whose writes do not overlap, a write changes the records    *)
(* its request names and no other (OnlyTheNamed; writeDocument, upsert and   *)
(* remove of the stores), whatever failed or was restarted before.           *)
THEOREM WritesChangeTheNamed == SettingsSpec => OnlyTheNamed
<1>1. SettingsSound /\ [SettingsNext]_pageVars => [calm => WritesTheNamed]_recordVars
  <2> SUFFICES ASSUME SettingsSound, [SettingsNext]_pageVars, calm,
                      NEW d \in Docs, document'[d] # document[d]
               PROVE  \E j \in Jobs :
                        /\ Writing(j, d) /\ job'[j].phase = "committed"
                        /\ (document'[d] \ document[d]) \cup (document[d] \ document'[d])
                             \subseteq Named(j)
    BY DEF WritesTheNamed
  <2>1. RecSound
    BY DEF SettingsSound
  <2>2. PICK j \in Jobs : Commit(j)
    <3>1. \A j \in Jobs : Publish(j) \/ Awaited(j) \/ WriteFails(j) => document' = document
      BY DEF Publish, Awaited, WriteFails
    <3>2. \A h \in Hosts : Restart(h) => document' = document
      BY DEF Restart
    <3>3. ASSUME NEW p \in Pages, PageStep(p)
          PROVE  document' = document
      <4>1. PageTypeOK
        BY DEF SettingsSound, PagesSound
      <4>2. CASE Mutate(p) \/ Submit(p)
        BY <4>1, <4>2, PageAsks DEF Changes, Take
      <4>3. CASE LeavePage(p) \/ Done(p) \/ Failed(p)
        BY <4>3 DEF LeavePage, Done, Failed, Answers
      <4>4. CASE UNCHANGED recordVars
        BY <4>4 DEF recordVars
      <4> QED
        BY <3>3, <4>2, <4>3, <4>4
        DEF PageStep, OpenPage, Refresh, Poll, CloseDialog, OpenDialog, LoadStep,
            Reads, Shows, LoadFails
    <3>4. UNCHANGED pageVars => document' = document
      BY DEF pageVars, recordVars
    <3> QED
      BY <3>1, <3>2, <3>3, <3>4 DEF SettingsNext, HostStep, PublishSeen, Serves
  <2>3. /\ job[j].phase = "writing" /\ job[j].doc \in Docs
        /\ document' = [document EXCEPT ![job[j].doc] = job[j].next]
        /\ document \in Records
    BY <2>1, <2>2 DEF Commit, RecSound, JobsSound, RecordsInv, RecordsTypeOK
  <2>4. /\ job[j].doc = d /\ document'[d] = job[j].next
        /\ d = "nodes" => document'.nodes = job[j].next
        /\ d = "repos" => document'.repos = job[j].next
    BY <2>1, <2>3, ListIsOfDoc DEF Docs
  <2>5. Writing(j, d) /\ job'[j].phase = "committed"
    <3>1. job \in [Jobs -> Job] /\ job[j] \in Job
      BY <2>1 DEF RecSound, RecordsInv, RecordsTypeOK
    <3>2. job' = [job EXCEPT ![j] = [job[j] EXCEPT !.phase = "committed"]]
      BY <2>2 DEF Commit, SetJob
    <3>3. job'[j].phase = "committed"
      BY <3>1, <3>2 DEF Job
    <3> QED
      BY <2>3, <2>4, <3>3 DEF Writing
  <2>6. /\ job[j].next = NextOf(job[j], held[job[j].at])
        /\ held[job[j].at][d] = document[d]
    BY <2>1, <2>3, <2>5 DEF RecSound, CalmWrites
  <2>7. /\ d = "nodes" => job[j].op \in {"addNode", "removeNode"}
        /\ d = "repos" => job[j].op \in {"addRepo", "removeRepo", "removeNode"}
    BY <2>1, <2>5 DEF RecSound, JobsSound
  <2>8. document[d] \subseteq Machines \/ document[d] \subseteq Repos
    BY <2>3 DEF Records, Docs
  <2>9. (document'[d] \ document[d]) \cup (document[d] \ document'[d]) \subseteq Named(j)
    <3>1. CASE d = "nodes"
      BY <2>4, <2>6, <2>7, <3>1 DEF NextOf, Named
    <3>2. CASE d = "repos"
      <4>1. document.repos \subseteq Repos /\ held[job[j].at].repos = document.repos
        BY <2>3, <2>6, <3>2 DEF Records
      <4> QED
        BY <2>4, <2>6, <2>7, <3>2, <4>1 DEF NextOf, Named, OfMachine
    <3> QED
      BY <3>1, <3>2 DEF Docs
  <2> QED
    BY <2>5, <2>9
<1> QED
  BY <1>1, SettingsStaySound, PTL DEF SettingsSpec, OnlyTheNamed

(* Pages and records agree (PageInv; Section.tsx, dialogs.tsx): a page at    *)
(* rest with no read in flight tells how its last change ended, unless it    *)
(* failed while a read was in flight or with its dialog closed (unsaid), of  *)
(* which nothing is said; and with one host whose writes do not overlap, a   *)
(* machine that has gone from a page does not come back to it.               *)
THEOREM PagesAgree == SettingsSpec => []PageInv
<1>1. SettingsSound => PageInv
  <2> SUFFICES ASSUME PageTypeOK, \A p \in Pages : PageSound(p)
               PROVE  PageInv
    BY DEF SettingsSound, PagesSound
  <2>1. TellsTheOutcome
    BY DEF TellsTheOutcome, PageSound, ChangeSound
  <2>2. GoneStaysGone
    BY DEF GoneStaysGone, PageSound, MissedSound
  <2> QED
    BY <2>1, <2>2 DEF PageInv
<1> QED
  BY <1>1, SettingsStaySound, PTL

=============================================================================
