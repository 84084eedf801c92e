------------------------------ MODULE Worktrees ------------------------------
(***************************************************************************)
(* The worktree lifecycle of src/src/models/worktrees.ts, as the routes of *)
(* src/src/plugin/api.ts drive it, over what it has to keep agreeing: the  *)
(* checkouts each machine's git knows, the anchors (in memory and on       *)
(* disk), the repository records (likewise) and the workspace registry.    *)
(*                                                                         *)
(* A request is the awaits it still has to make, one action each; what a   *)
(* handler does after an await and before the next is part of the action.  *)
(* The reads that come before anything is decided (fs.resolve, the listing *)
(* an id is looked up in) are the moment the request is asked.  A step may *)
(* fail, a remote one also after it took effect, and the harness may stop  *)
(* at any of them and start again.  Git, the machine and the workspace     *)
(* registry are external; branches are left out, being nobody's state.     *)
(***************************************************************************)
EXTENDS Naturals, FiniteSets, Sequences

CONSTANTS
  Callers,   \* requests in flight at a time: one per open settings panel
  Remote,    \* repositories of the one machine reached over SSH
  Local,     \* repositories of this host
  Names,     \* names a worktree is given
  Parent,    \* the name a name with a slash lies under, None for a plain one
  Base,      \* the last path segment of each repository
  Hand,      \* last segments of the checkouts people cut by hand
  MaxSlips,  \* bound: changes left half done
  None

Repos == Remote \cup Local

ASSUME RepositoriesAssumption == Remote \cap Local = {}
ASSUME SlipsAssumption == MaxSlips \in Nat
ASSUME NamesAssumption == Parent \in [Names \cup Hand -> Names \cup {None}]
                          /\ DOMAIN Base = Repos

VARIABLES
  checkouts,   \* [repo, path]: what `git worktree list` answers
  anchors,     \* the anchor store's list
  meta,        \* the metadata files below the anchor root
  repos,       \* the repository store's list
  repoFile,    \* repos.json
  entries,     \* directories registered as workspaces
  known,       \* the machine has a record in the node registry
  request,     \* what each caller's request still has to do
  slips        \* history: effects whose other half failed or was cut short

worktreeVars == <<checkouts, anchors, meta, repos, repoFile, entries, known,
                  request, slips>>

-----------------------------------------------------------------------------
(* Paths.  A managed checkout lands at <root>/<repository>/<name>, an      *)
(* anchor at <root>/<node>/<repository>/<name> or .../.self: both are the  *)
(* repository's last segment and a name.                                   *)

Managed(r, n) == <<Base[r], n>>

Elsewhere == {<<"elsewhere", h>> : h \in Hand}

Paths == {Managed(r, n) : r \in Repos, n \in Names} \cup Elsewhere

Segment(path) == path[2]

Slot(r, kind, n) == <<Base[r], IF kind = "directory" THEN ".self" ELSE n>>

\* A name with a slash lies in the directory of the name before the slash.
IsWithin(parent, child) ==
  child = parent \/ /\ child[1] = parent[1]
                    /\ child[2] \in DOMAIN Parent
                    /\ Parent[child[2]] = parent[2]

Anchor(r, kind, path, n) ==
  [repo |-> r, kind |-> kind, path |-> path, slot |-> Slot(r, kind, n)]

\* This host's rows are derived: the checkout is its own workspace path.
LocalRow(r, kind, path) ==
  [repo |-> r, kind |-> kind, path |-> path, slot |-> <<"here">> \o path]

DirectoryRow(r) == LocalRow(r, "directory", <<Base[r], ".self">>)

LocalRows ==
  {DirectoryRow(r) : r \in repos \cap Local}
    \cup {LocalRow(c.repo, "worktree", c.path) :
            c \in {k \in checkouts : k.repo \in repos \cap Local}}

Held == anchors \cup LocalRows

\* mutant: the worktrees of a repository are not counted
HeldInNone(r) == {}

HeldIn(r) == {a \in Held : a.repo = r /\ a.kind = "worktree"}

\* The rows of the second source: what git reports and no anchor holds.
Discovered ==
  {c \in checkouts : /\ known /\ c.repo \in repos \cap Remote
                     /\ \A a \in anchors :
                          a.kind = "worktree" => a.path # c.path}

HeldRemote(c) ==
  {a \in anchors : a.kind = "worktree" /\ a.repo = c.repo /\ a.path = c.path}

DirectoryAnchorOf(r) == {a \in anchors : a.kind = "directory" /\ a.repo = r}

\* Which anchors a path below an anchor's directory is routed to: classifyPath
\* takes the first whose directory holds it.
RoutesOf(slot) == {a \in anchors : IsWithin(a.slot, slot)}

\* mutant: the scan stops a level early for a worktree of a later name
LoadedShallow == {a \in meta : a.kind = "directory"}

\* The scan goes three levels down: node, repository, name.
Loaded == {a \in meta : a.kind = "directory" \/ Parent[a.slot[2]] = None}

Checkout(a) == [repo |-> a.repo, path |-> a.path]

Taken(r, path) ==
  \E k \in checkouts : k.path = path /\ (k.repo \in Local) = (r \in Local)

\* mutant: the check that no anchor owns the directory is left out
OwnedNever(slot) == FALSE

Owned(slot) == \E a \in anchors : a.slot = slot

\* A directory exists while it or one below it holds a metadata file.
Resolves(a) ==
  IF a.repo \in Local
  THEN a.kind = "directory" \/ Checkout(a) \in checkouts
  ELSE \E m \in meta : IsWithin(a.slot, m.slot)

-----------------------------------------------------------------------------
(* Requests.                                                               *)

Ask(op, anchor, steps) ==
  [op |-> op, anchor |-> anchor, steps |-> steps, next |-> {}, ok |-> TRUE]

\* What is left of a request once it is answered.
Answered(ok) == [Ask("answered", None, <<>>) EXCEPT !.ok = ok]

\* The list a document write publishes is computed before the write is awaited.
Target(q) == CASE Head(q.steps) = "record" -> repos \cup {q.anchor.repo}
               [] Head(q.steps) = "forget" -> repos \ {q.anchor.repo}
               [] Head(q.steps) = "purge"  -> repos \ Remote

Ready(q) ==
  LET skips  == q.steps # <<>> /\ Head(q.steps) \in {"record", "forget", "purge"}
                               /\ Target(q) = repos
      rest   == IF skips THEN Tail(q.steps) ELSE q.steps
  IN  IF rest = <<>> THEN Answered(q.ok)
      ELSE [q EXCEPT !.steps = rest,
                     !.next = IF Head(rest) \in {"record", "forget", "purge"}
                              THEN Target(q) ELSE {}]

At(c, steps) ==
  /\ request[c] # None
  /\ request[c].steps # <<>>
  /\ Head(request[c].steps) \in steps

Rest(q) == [q EXCEPT !.steps = Tail(@)]

Go(c) == request' = [request EXCEPT ![c] = Ready(Rest(@))]

Fail(c) == request' = [request EXCEPT ![c] = Answered(FALSE)]

Start(c, q) == request' = [request EXCEPT ![c] = Ready(q)]

\* MaxSlips bounds the failures that leave one half of a change undone.
Slip(slip) ==
  /\ slips' = slips \cup slip
  /\ Cardinality(slips') <= MaxSlips

-----------------------------------------------------------------------------
(* The routes, each up to its first decision.                              *)

\* The checkout first, then its anchor, the repository's record, the entry.
CreateSteps(r) == IF r \in Local THEN <<"add", "record", "enter">>
                  ELSE <<"add", "write", "record", "enter">>

\* mutant: the anchor's directory goes first
TeardownSwapped == <<"drop", "leave">>

\* The workspace entry goes first: the anchor's directory resolves it.
Teardown == <<"leave", "drop">>

Create(c) == \E r \in Repos, n \in Names, path \in Paths :
  /\ path \in {Managed(r, n)} \cup Elsewhere
  /\ r \in Remote => known
  /\ Start(c, Ask("create", IF r \in Local THEN LocalRow(r, "worktree", path)
                            ELSE Anchor(r, "worktree", path, n), CreateSteps(r)))

\* Opening a row git reports adopts it; a checkout held meanwhile just opens.
Adopt(c) == \E k \in Discovered :
  LET a == Anchor(k.repo, "worktree", k.path, Segment(k.path))
  IN  Start(c, IF HeldRemote(k) # {}
               THEN Ask("open", CHOOSE h \in HeldRemote(k) : TRUE, <<"open">>)
               ELSE IF Owned(a.slot) THEN Answered(FALSE)
               ELSE Ask("adopt", a, <<"write", "openOrDrop">>))

Open(c) == \E a \in Held : Start(c, Ask("open", a, <<"open">>))

Close(c) == \E a \in Held : Start(c, Ask("close", a, <<"leaveOrFail">>))

Release(c) == \E a \in Held :
  Start(c, Ask("release", a, IF a.repo \in Local THEN <<"leaveOrFail">>
                             ELSE <<"leaveOrFail", "drop">>))

Remove(c) ==
  \/ \E a \in Held :
       /\ a.kind = "worktree"
       /\ a.repo \in Remote => known
       /\ Start(c, Ask("remove", a, IF a.repo \in Local THEN <<"cut", "leave">>
                                    ELSE <<"cut">> \o Teardown))
  \/ \E k \in Discovered :
       Start(c, Ask("remove", Anchor(k.repo, "worktree", k.path, Segment(k.path)),
                    <<"cut">>))

OpenDirectory(c) == \E r \in repos :
  LET a == Anchor(r, "directory", <<Base[r], ".self">>, None)
  IN  \/ /\ r \in Local
         /\ Start(c, Ask("open", DirectoryRow(r), <<"open">>))
      \/ \E d \in DirectoryAnchorOf(r) : Start(c, Ask("open", d, <<"open">>))
      \/ /\ r \in Remote /\ known /\ DirectoryAnchorOf(r) = {}
         /\ Start(c, IF Owned(a.slot) THEN Answered(FALSE)
                     ELSE Ask("adopt", a, <<"write", "openOrDrop">>))

\* mutant: closing the directory leaves its anchor
ClosingKeeps(r) == <<"leave">>

\* Closing the directory's own workspace drops the anchor with it.
Closing(r) == IF r \in Local THEN <<"leave">>
              ELSE IF DirectoryAnchorOf(r) # {} THEN Teardown
              ELSE <<>>

DirectoryOf(r) ==
  IF r \in Local \/ DirectoryAnchorOf(r) = {} THEN DirectoryRow(r)
  ELSE CHOOSE d \in DirectoryAnchorOf(r) : TRUE

CloseDirectory(c) == \E r \in repos :
  Start(c, Ask("release", DirectoryOf(r), Closing(r)))

AddRepo(c) == \E r \in Repos :
  /\ r \in Remote => known
  /\ Start(c, Ask("addRepo", DirectoryRow(r), <<"record">>))

\* Forgetting a repository is refused while worktrees belong to it.
DeleteRepo(c) == \E r \in repos :
  /\ HeldIn(r) = {}
  /\ Start(c, Ask("deleteRepo", DirectoryOf(r), Closing(r) \o <<"forget">>))

DeleteNode(c) ==
  /\ known
  /\ \E r \in Remote : Start(c, Ask("deleteNode", DirectoryRow(r),
                                    <<"unlist", "purge">>))

NewRequest(c) ==
  /\ request[c] = None
  /\ \/ Create(c) \/ Adopt(c) \/ Open(c) \/ Close(c) \/ Release(c) \/ Remove(c)
     \/ OpenDirectory(c) \/ CloseDirectory(c) \/ AddRepo(c) \/ DeleteRepo(c)
     \/ DeleteNode(c)
  /\ UNCHANGED <<checkouts, anchors, meta, repos, repoFile, entries, known,
                 slips>>

Answer(c) ==
  /\ request[c] # None
  /\ request[c].steps = <<>>
  /\ request' = [request EXCEPT ![c] = None]
  /\ UNCHANGED <<checkouts, anchors, meta, repos, repoFile, entries, known,
                 slips>>

-----------------------------------------------------------------------------
(* The awaits.                                                             *)

\* git worktree add; the anchor store checks the directory right after it.
AddWorktree(c) ==
  LET a == request[c].anchor
  IN  /\ At(c, {"add"})
      /\ \/ /\ ~Taken(a.repo, a.path)
            /\ checkouts' = checkouts \cup {Checkout(a)}
            /\ \/ IF a.repo \in Remote /\ Owned(a.slot) THEN Fail(c) ELSE Go(c)
               \/ Fail(c)
         \/ Fail(c) /\ UNCHANGED checkouts
      /\ UNCHANGED <<anchors, meta, repos, repoFile, entries, known, slips>>

\* mkdir and the metadata file, then the list in memory.
WriteAnchor(c) ==
  LET a == request[c].anchor
  IN  /\ At(c, {"write"})
      /\ \/ /\ meta' = {m \in meta : m.slot # a.slot} \cup {a}
            /\ anchors' = anchors \cup {a}
            /\ Go(c)
         \/ Fail(c) /\ UNCHANGED <<meta, anchors>>
      /\ UNCHANGED <<checkouts, repos, repoFile, entries, known, slips>>

DropAnchor(c) ==
  LET a == request[c].anchor
  IN  /\ At(c, {"drop"})
      /\ \/ /\ IF a \in anchors
               THEN /\ meta' = {m \in meta : ~IsWithin(a.slot, m.slot)}
                    /\ anchors' = anchors \ {a}
               ELSE UNCHANGED <<meta, anchors>>
            /\ Go(c)
            /\ UNCHANGED slips
         \/ /\ Fail(c)
            /\ Slip(IF request[c].op = "remove" THEN {<<"cut", Checkout(a)>>} ELSE {})
            /\ UNCHANGED <<meta, anchors>>
      /\ UNCHANGED <<checkouts, repos, repoFile, entries, known>>

\* git worktree remove, then prune: the second may fail after the first.
CutWorktree(c) ==
  LET a == request[c].anchor
  IN  /\ At(c, {"cut"})
      /\ \/ /\ Checkout(a) \in checkouts
            /\ checkouts' = checkouts \ {Checkout(a)}
            /\ \/ Go(c) /\ UNCHANGED slips
               \/ Fail(c) /\ Slip({<<"cut", Checkout(a)>>})
         \/ Fail(c) /\ UNCHANGED <<checkouts, slips>>
      /\ UNCHANGED <<anchors, meta, repos, repoFile, entries, known>>

\* One write of repos.json, and the list in memory after it.
WriteRepos(c) ==
  LET q == request[c]
  IN  /\ At(c, {"record", "forget", "purge"})
      /\ \/ /\ repoFile' = q.next
            /\ repos' = q.next
            /\ Go(c)
            /\ UNCHANGED slips
         \/ /\ Fail(c)
            /\ Slip({<<"record", q.anchor.repo>>})
            /\ UNCHANGED <<repoFile, repos>>
      /\ UNCHANGED <<checkouts, anchors, meta, entries, known>>

\* Registering is best effort after a create, asked for in an open, and undone
\* by dropping the anchor when it was minted for the sake of it.
RegisterWorkspace(c) ==
  LET q == request[c]
  IN  /\ At(c, {"enter", "open", "openOrDrop"})
      /\ \/ entries' = entries \cup {q.anchor.slot} /\ Go(c)
         \/ /\ UNCHANGED entries
            /\ CASE Head(q.steps) = "enter" -> Go(c)
                 [] Head(q.steps) = "open" -> Fail(c)
                 [] OTHER -> request' = [request EXCEPT ![c].steps = <<"drop">>,
                                                        ![c].ok = FALSE]
      /\ UNCHANGED <<checkouts, anchors, meta, repos, repoFile, known, slips>>

\* The registry finds an entry by its path, so only while the path exists.
UnregisterWorkspace(c) ==
  LET q == request[c]
  IN  /\ At(c, {"leave", "leaveOrFail"})
      /\ \/ /\ entries' = IF Resolves(q.anchor) THEN entries \ {q.anchor.slot}
                          ELSE entries
            /\ Go(c)
            /\ UNCHANGED slips
         \/ /\ UNCHANGED entries
            /\ IF Head(q.steps) = "leave"
               THEN Go(c) /\ Slip({<<"entry", q.anchor.slot>>})
               ELSE Fail(c) /\ UNCHANGED slips
      /\ UNCHANGED <<checkouts, anchors, meta, repos, repoFile, known>>

RemoveNode(c) ==
  /\ At(c, {"unlist"})
  /\ \/ known' = FALSE /\ Go(c)
     \/ Fail(c) /\ UNCHANGED known
  /\ UNCHANGED <<checkouts, anchors, meta, repos, repoFile, entries, slips>>

\* Someone cuts a worktree on the machine itself.
CutByHand == \E r \in Remote, path \in Elsewhere :
  /\ ~Taken(r, path)
  /\ checkouts' = checkouts \cup {[repo |-> r, path |-> path]}
  /\ UNCHANGED <<anchors, meta, repos, repoFile, entries, known, request, slips>>

\* The harness stops, and loads what is on disk.  Stopping between a write and
\* the change in memory after it is stopping after both.
Left(c, step) == \E i \in DOMAIN request[c].steps : request[c].steps[i] = step

CutShort ==
  {<<"cut", Checkout(request[c].anchor)>> :
     c \in {d \in Callers : /\ request[d] # None /\ request[d].op = "remove"
                            /\ ~Left(d, "cut") /\ Left(d, "drop")}}
  \cup {<<"record", request[c].anchor.repo>> :
     c \in {d \in Callers : request[d] # None /\ Left(d, "record")}}

Restart ==
  /\ anchors' = Loaded
  /\ repos' = repoFile
  /\ Slip(CutShort)
  /\ request' = [c \in Callers |-> None]
  /\ UNCHANGED <<checkouts, meta, repoFile, entries, known>>

WorktreeInit ==
  /\ checkouts = {} /\ anchors = {} /\ meta = {} /\ repos = {} /\ repoFile = {}
  /\ entries = {} /\ known = TRUE /\ slips = {}
  /\ request = [c \in Callers |-> None]

Step(c) ==
  \/ NewRequest(c) \/ Answer(c) \/ AddWorktree(c) \/ WriteAnchor(c)
  \/ DropAnchor(c) \/ CutWorktree(c) \/ WriteRepos(c) \/ RegisterWorkspace(c)
  \/ UnregisterWorkspace(c) \/ RemoveNode(c)

WorktreeNext == CutByHand \/ Restart \/ \E c \in Callers : Step(c)

WorktreeSpec == WorktreeInit /\ [][WorktreeNext]_worktreeVars

-----------------------------------------------------------------------------
(* Properties.                                                             *)

Anchors ==
  {Anchor(r, "worktree", p, n) : r \in Remote, p \in Paths, n \in Names \cup Hand}
    \cup {Anchor(r, "directory", <<Base[r], ".self">>, None) : r \in Remote}

Rows == Anchors \cup {DirectoryRow(r) : r \in Repos}
                \cup {LocalRow(r, "worktree", p) : r \in Local, p \in Paths}

Idle(c) == request[c] = None \/ request[c].steps = <<>>

Quiet == \A c \in Callers : Idle(c)

\* The types; what is in memory is what a restart would load.
WorktreeTypeOK ==
  /\ checkouts \subseteq [repo : Repos, path : Paths]
  /\ anchors \subseteq Anchors /\ meta \subseteq Anchors
  /\ repos \subseteq Repos /\ repoFile \subseteq Repos
  /\ entries \subseteq {a.slot : a \in Rows}
  /\ known \in BOOLEAN
  /\ \A c \in Callers : ~Idle(c) => /\ request[c].anchor \in Rows
                                    /\ Len(request[c].steps) <= 4

\* A path below an anchor's directory is routed to that anchor and no other:
\* two anchors never share a directory nor lie one inside the other, whatever
\* order creates, adoptions and removals come in (anchors.ts 345, routing.ts).
RoutesHome == \A a \in anchors : RoutesOf(a.slot) = {a}

\* A worktree anchor routes into a checkout that is there, but for removals
\* whose second half failed or was cut short (the order of worktrees.ts 751).
DanglingExplained == Quiet =>
  \A a \in anchors : a.kind = "worktree" =>
    Checkout(a) \in checkouts \/ <<"cut", Checkout(a)>> \in slips

\* The same without the exception, as the header of worktrees.ts promises: a
\* failure never leaves a local path routing into nothing.
NoRouteIntoNothing == Quiet =>
  \A a \in anchors : a.kind = "worktree" => Checkout(a) \in checkouts

\* A worktree this host holds has its repository recorded, so that the panel
\* shows it: through creates of a path nobody registered, adoptions, and the
\* refusal to forget a repository that has worktrees.
RepositoryRecorded == Quiet /\ known =>
  \A a \in anchors : a.kind = "worktree" =>
    a.repo \in repos \/ <<"record", a.repo>> \in slips

\* No workspace entry outlives its anchor, since teardown drops the entry while
\* its path still resolves; unregistering may fail, and then says nothing.
EntryHasAnchor == Quiet =>
  \A e \in entries : \/ e[1] = "here" \/ <<"entry", e>> \in slips
                     \/ \E a \in anchors : a.slot = e

\* Anchors, checkouts, repositories and workspace entries agree.
WorktreeInv ==
  /\ WorktreeTypeOK
  /\ RoutesHome
  /\ DanglingExplained
  /\ RepositoryRecorded
  /\ EntryHasAnchor

\* The same of this host's own checkouts.
LocalEntryHasCheckout == Quiet =>
  \A r \in Local, p \in Paths :
    LET a == LocalRow(r, "worktree", p)
    IN  a.slot \in entries => Checkout(a) \in checkouts \/ <<"entry", a.slot>> \in slips

NoEntryOf(a) == a.slot \notin entries \/ <<"entry", a.slot>> \in slips

\* What a route answers with success is so when it answers: what it made or
\* adopted is there, recorded and routed to, what it opened is registered and
\* what it closed is not, what it removed or released has no checkout, anchor
\* and workspace entry, nothing is held of a repository it forgot.  Excused are
\* an entry whose removal failed without a word (slips), the entry of a removed
\* checkout of this host (LocalEntryHasCheckout) or of an anchor that has the
\* directory still, and a checkout cut again by hand after git removed it.
Holds(q) ==
  LET a == q.anchor
  IN  CASE q.op = "create" -> /\ Checkout(a) \in checkouts /\ a.repo \in repos
                              /\ a.repo \in Remote => a \in anchors /\ a \in meta
        [] q.op = "adopt" -> a \in anchors \cap meta /\ a.slot \in entries
        [] q.op = "open" -> a \in Held /\ a.slot \in entries
        [] q.op = "close" -> a.slot \notin entries
        [] q.op = "remove" -> /\ a \notin anchors \cup meta
                              /\ \/ Checkout(a) \notin checkouts
                                 \/ a.path \in Elsewhere /\ Head(q.steps) # "cut"
                              /\ a.slot[1] = "here" \/ Owned(a.slot) \/ NoEntryOf(a)
        [] q.op = "release" -> a \notin anchors \cup meta /\ NoEntryOf(a)
        [] q.op = "addRepo" -> a.repo \in repos \cap repoFile
        [] q.op = "deleteRepo" -> a.repo \notin repos /\ \A h \in Held : h.repo # a.repo
        [] q.op = "deleteNode" -> ~known /\ repos \cap Remote = {}
        [] OTHER -> TRUE

AnswersHold ==
  [][\A c \in Callers : \A q \in {request[c]} :
       (~Idle(c) /\ request'[c] # None /\ request'[c].steps = <<>>
          /\ request'[c].ok) => Holds(q)']_worktreeVars

\* A restart brings back what was in memory (anchors.ts load: a stranded anchor
\* must be visible, not silently dropped).
HeldIsDurable == Quiet => Loaded = anchors

\* No two anchors route into one checkout, so that removing either leaves the
\* other routing into a directory that is there: what anchors.ts 346 says of its
\* check, which compares the anchors' own directories.
OneAnchorPerCheckout == \A a, b \in anchors :
  a.kind = "worktree" /\ b.kind = "worktree" /\ Checkout(a) = Checkout(b) => a = b

\* The anchors are a durable set: one request changes one of them, wholly or
\* not at all, and a restart changes none.
Durable == INSTANCE DurableSet WITH
  Elements <- Anchors,
  held <- anchors,
  asked <- [c \in Callers |->
              IF ~Idle(c) /\ (Left(c, "write") \/ Left(c, "drop"))
              THEN request[c].anchor ELSE None]

KeepsDurableSet == Durable!Spec
=============================================================================
