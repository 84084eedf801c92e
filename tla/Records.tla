------------------------------- MODULE Records -------------------------------
(***************************************************************************)
(* The machine and repository records of a deployment, and the management  *)
(* routes that change them: src/src/storage/nodes.ts, repos.ts and         *)
(* document.ts under the handlers of src/src/plugin/api.ts.                *)
(*                                                                         *)
(* A record is known by its identity; a registered repository by its       *)
(* machine and path.  A host keeps each list in memory, and the document   *)
(* on disk is shared by every host of one home.  What a handler does       *)
(* between two awaits is one action.  Worktrees and connections have       *)
(* modules of their own: here they are answers that come, or do not.       *)
(***************************************************************************)
EXTENDS FiniteSets

CONSTANTS
  Hosts,     \* harness processes over one home
  Machines,  \* identities of machine records (randomUUID)
  Repos,     \* repositories, each a path on one machine
  On,        \* the machine a repository is on
  Pages,     \* browser pages that ask
  Left,      \* bound: requests in the hosts whose page has been left
  Stored,    \* what earlier runs of the hosts may have left
  None       \* undefined

ASSUME OnAssumption == On \in [Repos -> Machines]
ASSUME RecordsNoneAssumption ==
  None \notin Hosts \cup Machines \cup Repos
ASSUME KindsAssumption == Machines \cap Repos = {}
ASSUME LeftAssumption == Left \cap Pages = {}

VARIABLES
  document,  \* the two JSON documents
  held,      \* what each host has of them in memory
  job,       \* the requests being served, by the page that waits or as left
  minted,    \* machine identities given out
  calm,      \* history: one host, and no two writes of a document overlapped
  astray     \* history: repositories whose registration outlived its machine

recordVars == <<document, held, job, minted, calm, astray>>

-----------------------------------------------------------------------------

Jobs == Pages \cup Left

Records == [nodes : SUBSET Machines, repos : SUBSET Repos]
Docs == {"nodes", "repos"}

Ops == {"addNode", "removeNode", "addRepo", "removeRepo", "other"}

Job == [phase : {"idle", "awaiting", "writing", "committed", "answered"},
        op    : Ops \cup {None},
        of    : Machines \cup Repos \cup {None},
        at    : Hosts \cup {None},
        doc   : Docs \cup {None},                    \* the document it writes
        next  : (SUBSET Machines) \cup (SUBSET Repos),   \* the list it will publish
        ok    : BOOLEAN]

NoJob == [phase |-> "idle", op |-> None, of |-> None, at |-> None, doc |-> None,
          next |-> {}, ok |-> FALSE]

\* A request names what its operation is about.
WellNamed(op, of) ==
  /\ op \in {"addNode", "removeNode"} => of \in Machines
  /\ op \in {"addRepo", "removeRepo"} => of \in Repos
  /\ op = "other" => of \in Machines \cup Repos

\* The repositories a list holds of machine m.
OfMachine(rs, m) == {r \in rs : On[r] = m}

\* A request that has computed the list it will publish and has not yet.
Writing(j, d) == job[j].phase \in {"writing", "committed"} /\ job[j].doc = d

ASSUME StoredAssumption ==
  /\ Stored \subseteq Records
  /\ \A d \in Stored, r \in Repos : r \in d.repos => On[r] \in d.nodes

RecordsInit ==
  /\ document \in Stored
  /\ held = [h \in Hosts |-> document]
  /\ job = [j \in Jobs |-> NoJob]
  /\ minted = document.nodes
  /\ calm = \A g, h \in Hosts : g = h
  /\ astray = {}

-----------------------------------------------------------------------------
(* What a handler leaves its request as *)

\* A request as it arrives (registerNodeApi).
Asked(h, op, of) == [NoJob EXCEPT !.op = op, !.of = of, !.at = h]

SetJob(j, x) == job' = [job EXCEPT ![j] = x]

\* The answer, the body or the error of the catch; nobody may be left to hear.
Answered(j, ok) ==
  IF j \in Left THEN NoJob ELSE [NoJob EXCEPT !.phase = "answered", !.ok = ok]

Answer(j, ok) == SetJob(j, Answered(j, ok)) /\ UNCHANGED calm

\* No other write of the document is on its way.
Unopposed(j, d) == \A i \in Jobs \ {j} : ~Writing(i, d)

\* A store has computed its next list and awaits the write of it.
StartsWrite(j, x, d, list) ==
  /\ SetJob(j, [x EXCEPT !.phase = "writing", !.doc = d, !.next = list])
  /\ calm' = (calm /\ Unopposed(j, d))

-----------------------------------------------------------------------------
(* The routes, up to their first await: x is the request *)

\* requireString, requireTransport: a body without what the route needs.
Unusable(j) == Answer(j, FALSE)

\* POST /nodes: a record with an identity of its own.
TakeAddNode(j, x) ==
  /\ x.op = "addNode"
  /\ \/ Unusable(j)
     \/ StartsWrite(j, x, "nodes", held[x.at].nodes \cup {x.of})

\* DELETE /nodes/:id: the machine is disconnected and its record removed.
TakeRemoveNode(j, x) ==
  LET nodes == held[x.at].nodes
  IN  /\ x.op = "removeNode"
      /\ \/ x.of \in nodes /\ StartsWrite(j, x, "nodes", nodes \ {x.of})
         \/ x.of \notin nodes /\ Answer(j, FALSE)

\* Whether the record a route looks up first is there.
Known(x) == CASE x.op = "addRepo"    -> On[x.of] \in held[x.at].nodes
              [] x.op = "removeRepo" -> x.of \in held[x.at].repos
              [] OTHER -> x.of \in held[x.at].nodes \cup held[x.at].repos

\* Every other route looks its record up, then awaits: the machine that
\* resolves a path, the anchors of a repository, a connection, a worktree.
TakeOther(j, x) ==
  /\ x.op \in {"addRepo", "removeRepo", "other"}
  /\ \/ Known(x) /\ SetJob(j, [x EXCEPT !.phase = "awaiting"]) /\ UNCHANGED calm
     \/ ~Known(x) /\ Answer(j, FALSE)

\* handleNodeApi, handleRepos: a request arrives.
Take(j, x) ==
  /\ job[j].phase = "idle"
  /\ minted' = IF x.op = "addNode" THEN minted \cup {x.of} ELSE minted
  /\ UNCHANGED <<document, held, astray>>
  /\ TakeAddNode(j, x) \/ TakeRemoveNode(j, x) \/ TakeOther(j, x)

-----------------------------------------------------------------------------
(* After the await *)

\* The path is a directory: registered, or registered again (upsert).  The
\* machine's record is not looked up a second time.
AddsRepo(j, x) ==
  /\ x.op = "addRepo"
  /\ StartsWrite(j, x, "repos", held[x.at].repos \cup {x.of})

\* No worktree holds the repository and its directory is closed: forgotten,
\* if it still is there.
RemovesRepo(j, x) ==
  LET repos == held[x.at].repos
  IN  /\ x.op = "removeRepo"
      /\ \/ x.of \in repos /\ StartsWrite(j, x, "repos", repos \ {x.of})
         \/ x.of \notin repos /\ Answer(j, TRUE)

\* What was awaited came: the request goes on, or ends in an error.
Awaited(j) ==
  /\ job[j].phase = "awaiting"
  /\ UNCHANGED <<document, held, minted, astray>>
  /\ \/ Answer(j, FALSE)
     \/ AddsRepo(j, job[j])
     \/ RemovesRepo(j, job[j])
     \/ job[j].op = "other" /\ Answer(j, TRUE)

-----------------------------------------------------------------------------
(* The write (writeDocument) *)

\* The document is replaced under its lock, which goes with the answer.
Commit(j) ==
  /\ job[j].phase = "writing"
  /\ \A i \in Jobs : ~(job[i].phase = "committed" /\ job[i].doc = job[j].doc)
  /\ document' = [document EXCEPT ![job[j].doc] = job[j].next]
  /\ SetJob(j, [job[j] EXCEPT !.phase = "committed"])
  /\ UNCHANGED <<held, minted, calm, astray>>

\* The repositories in list whose machine a host has no record of.
Stray(list, nodes) == {r \in list : On[r] \notin nodes}

WriteFailsAhead(j) ==  \* mutant: the list in memory is replaced before the write
  /\ job[j].phase = "writing"
  /\ Answer(j, FALSE)
  /\ held' = [held EXCEPT ![job[j].at][job[j].doc] = job[j].next]
  /\ UNCHANGED <<document, minted, astray>>

\* The directory, the lock or the file refused: the list in memory stays.  A
\* machine already removed leaves its repositories behind.
WriteFails(j) ==
  /\ job[j].phase = "writing"
  /\ Answer(j, FALSE)
  /\ astray' = IF job[j].op = "removeNode" /\ job[j].doc = "repos"
                 THEN astray \cup OfMachine(held[job[j].at].repos, job[j].of)
                 ELSE astray
  /\ UNCHANGED <<document, held, minted>>

\* What a machine's removal still has to do once its record is gone.
Cascades(j) ==
  /\ job[j].op = "removeNode"
  /\ job[j].doc = "nodes"
  /\ OfMachine(held[job[j].at].repos, job[j].of) # {}

PublishAlone(j) ==  \* mutant: the repositories of a removed machine stay
  LET h == job[j].at
      now == [held[h] EXCEPT ![job[j].doc] = job[j].next]
  IN  /\ job[j].phase = "committed"
      /\ held' = [held EXCEPT ![h] = now]
      /\ astray' = IF job[j].op = "addRepo" /\ On[job[j].of] \notin now.nodes
                     THEN astray \cup {job[j].of} ELSE astray
      /\ Answer(j, TRUE)
      /\ UNCHANGED <<document, minted>>

\* The write returned: the list in memory is replaced, and the request is
\* answered, unless a removed machine's repositories go next (removeByNode).
Publish(j) ==
  LET h == job[j].at
      now == [held[h] EXCEPT ![job[j].doc] = job[j].next]
  IN  /\ job[j].phase = "committed"
      /\ held' = [held EXCEPT ![h] = now]
      /\ astray' = IF job[j].op = "addRepo" /\ On[job[j].of] \notin now.nodes
                     THEN astray \cup {job[j].of} ELSE astray
      /\ IF Cascades(j)
           THEN StartsWrite(j, job[j], "repos",
                            now.repos \ OfMachine(now.repos, job[j].of))
           ELSE Answer(j, TRUE)
      /\ UNCHANGED <<document, minted>>

\* A host restarts: both documents are loaded, and what it was asked fails.
Restart(h) ==
  LET cut == {j \in Jobs : job[j].at = h}
  IN  /\ held' = [held EXCEPT ![h] = document]
      /\ job' = [j \in Jobs |-> IF j \in cut THEN Answered(j, FALSE) ELSE job[j]]
      /\ astray' = astray \cup Stray(document.repos, document.nodes)
      /\ UNCHANGED <<document, minted, calm>>

\* What a host does of itself with a request, up to publishing its list.
Serves(j) == Awaited(j) \/ Commit(j) \/ WriteFails(j)

-----------------------------------------------------------------------------
(* Safety *)

(* The stores and the requests have their declared shape, and a request      *)
(* names what its operation is about.                                        *)
RecordsTypeOK ==
  /\ document \in Records
  /\ held \in [Hosts -> Records]
  /\ job \in [Jobs -> Job]
  /\ \A j \in Jobs : job[j].phase \notin {"idle", "answered"} =>
       job[j].at # None /\ WellNamed(job[j].op, job[j].of)
  /\ minted \in SUBSET Machines
  /\ calm \in BOOLEAN
  /\ astray \in SUBSET Repos

(* "A failed commit leaves it untouched" (writeDocument): what the one host  *)
(* of a home has in memory is what is on disk, whatever writes failed, but   *)
(* for a write that is about to be published.                                *)
MemoryIsDocument ==
  (\A g, h \in Hosts : g = h) =>
    \A h \in Hosts, d \in Docs :
      \/ held[h][d] = document[d]
      \/ \E j \in Jobs : job[j].phase = "committed" /\ job[j].doc = d

(* With one host whose writes do not overlap, a repository outlives its      *)
(* machine's record only when it was registered while that went, or the      *)
(* machine's removal failed half-way or was cut off by a restart; and while  *)
(* the removal is under way (the DELETE of a machine, removeByNode).         *)
OrphanExplained ==
  calm => \A h \in Hosts : \A r \in Stray(held[h].repos, held[h].nodes) :
    \/ r \in astray
    \/ \E j \in Jobs : /\ Writing(j, "repos") /\ job[j].at = h
                      /\ job[j].op = "removeNode" /\ job[j].of = On[r]

(* The records of a home with one host agree, whatever requests fail or are  *)
(* cut off by a restart: memory with disk however requests overlap, machines *)
(* with repositories while no two writes of a document do.                   *)
RecordsInv == RecordsTypeOK /\ MemoryIsDocument /\ OrphanExplained

(* "A repository is only reachable through its machine, so its records go    *)
(* with it rather than surviving as entries that can never load" (the DELETE *)
(* of a machine): with nothing under way, no repository is without one.      *)
NoRepoSurvives ==
  (\A j \in Jobs : job[j].phase \in {"idle", "answered"}) =>
    \A h \in Hosts : Stray(held[h].repos, held[h].nodes) = {}

\* The records a committed request may change: the one it names, and the
\* repositories of the machine it removes.
Named(j) ==
  IF job[j].op = "removeNode" /\ job[j].doc = "repos"
    THEN OfMachine(Repos, job[j].of) ELSE {job[j].of}

\* Each write changes the records its request names and no other.
WritesTheNamed ==
  \A d \in Docs : document'[d] # document[d] =>
    \E j \in Jobs : /\ Writing(j, d) /\ job'[j].phase = "committed"
                   /\ (document'[d] \ document[d]) \cup (document[d] \ document'[d])
                        \subseteq Named(j)

(* With one host whose writes do not overlap, a write changes no record but  *)
(* those its request names: none is lost to, or brought in by, a request     *)
(* that failed, was cut off by a restart or awaited something else while     *)
(* others were served (writeDocument, upsert and remove of the stores).      *)
OnlyTheNamed == [][calm => WritesTheNamed]_recordVars

(* "Two harness processes never interleave a read-render-commit cycle"       *)
(* (document.ts): the same, whoever writes.                                  *)
NoLostUpdate == [][WritesTheNamed]_recordVars

=============================================================================
