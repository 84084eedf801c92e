# dsh-remote-workspace: a TLA+ development

dsh-remote-workspace is a plugin for a coding harness. A workspace may live on
another machine: the plugin installs and keeps a connection to a small daemon on
that machine (the node agent, in Rust), routes files, processes and terminals to
it, keeps records of machines, repositories and worktrees, serves browser
terminals, and can run a program's steps next to the files (the program host).
Everything in the plugin runs on one event loop; the hard behaviour comes from
awaits (between any two of them anything else may run), from the daemon's tasks
and threads, from connections that drop, and from commands on another machine
that fail or are cut off half way.

Paths below are relative to `src/`. All commands are run in this directory:
`tlc -config terminal_sockets.cfg MCTerminalSockets.tla`,
`tlapm NodeConnectionsProofs.tla`.

## 1. Inventory

| Component | Source | State it keeps | Operations | What is hard | Correct when |
|---|---|---|---|---|---|
| Connection manager | `src/models/machines.ts` | one entry object per machine (state, live connection, published channel, pending attempt, transport, recovery mark, program host and its worker), a map of them, a disposed flag | connect, disconnect, dispose, channel, ptcHost; an attempt's two awaits; a recovery loop; the exit of a forward; a failing call | an attempt, a loop or an exit that settles after the entry has moved on; two closures over one entry | the fields agree with each other and with what runs; nothing runs that nobody holds; a drop is retried, a disconnect is not |
| Connection passes | `src/models/autoconnect.ts`, `src/index.ts` | a stopped flag, passes in flight | startup, follow-up timer, stop | a pass that sleeps between rounds while the machine is disconnected or the plugin stops | no attempt after the stop, none for a machine a person disconnected |
| Terminal registry | `src/terminal/host/registry.ts` | a table of shells: state, owner, sinks, valve timer, ring buffer, waits, geometry | open, attach, detach, data, exit, resize, wait, kill, releaseSession, disposeAll | one chunk in flight with pause and resume; the valve; exit, kill and detach in any order | output reaches each viewer in order and once, nobody waits for nothing, an entry goes with the last of process and viewers |
| Terminal sockets | `src/terminal/host/terminal.ts`, `socket.ts` | per socket: the terminal it views, an open in flight, requested and applied size, buffered keystrokes | open, attach, resize, input, close | close and resize while the spawn is in flight | socket and table agree on who views what; no orphan shell |
| Browser session | `src/plugin/client/terminal/session.ts`, `TerminalBody.tsx` | entries per tab, a socket each, reconnect timer, the tab's choice | choose, reconnect, restart, replace, dispose | a timer against a restart or a dispose; history against live output; attach falling back to open | one socket per tab, what is shown is attached, a shell is not let go while it lives |
| Terminal proxy | `src/remote/tty.ts` | offset, finished, releasing, the stopping promise, the local stream | allocate, follow, terminate | two pulls over one offset; a stream that waits for a drain; a transport that drops | no silent gap, nothing after the end, a handle settles |
| Agent terminals | `agent/src/terminal.rs`, `execution.rs` | a table and its closed flag; per terminal a window, exit facts, the master descriptor, a ladder lock | spawn, read, terminate, outcome, close; reader and reaper threads | lost wakeups; a spawn against a close; the reaper ahead of the reader | no read sleeps through output or exit; nothing outlives its connection |
| Worktree lifecycle, stores, management API | `src/models/worktrees.ts`, `src/storage/*.ts`, `src/plugin/api.ts` | checkouts of each git, anchors and their files, repository and machine records and theirs, workspace entries | create, adopt, open, close, release, remove; add and delete a repository; delete a machine | a step of several failing; a remote step that took effect and failed; a restart between any two | records agree with each other and with git; a success is true; a restart loses nothing |
| Agent install | `src/remote/agent/install.ts`, `release.ts` | binary, marker, token, launch record and state file on the machine, the agents running there | ensureAgent, ensurePtcHost | a host that stops or a connection that is cut between upload, move and marker; a decision to reuse from three files of different ages | a marker stands beside a whole binary; the agent answered with is the wanted one |
| Subprocess routing, agent subprocesses, remote client | `src/plugin/routing/subprocess.ts`, `agent/src/subprocess.rs`, `src/remote/client.ts` | handle, mirrors, the one notification handler; process group, captures, settlement, the bounded channel | spawn, terminate, wait, read, outcome, push, close | frames before the answer that names them; a full channel; a group that outlives its leader | what is published is what was printed; done means gone |
| Program host | `ptc-host/src/*.rs`, `program.js` | the frame loop, the program's body, output ledger, calls in flight | boot, call, reply, log, complete, end of channel | a budget met at the comma; replies in any order; work left behind; a channel that closes | output within its budget and the end of it told; a reply is whole and its own |
| Path routing | `src/models/routing.ts`, `src/plugin/routing/*` | none | classifyPath, forward one call | one anchor's directory inside another's | a path is routed to its own anchor |
| Machine and repository records | `src/storage/nodes.ts`, `repos.ts`, `document.ts`, `src/plugin/api.ts` | a list in memory per host, a JSON document per list, the requests being served | add and delete a machine or a repository, load | a list computed before the write of it is awaited; a cascade whose second write fails; a restart between write and answer | memory is the document; a write changes what its request names; a repository goes with its machine |
| Settings section | `src/plugin/client/Section.tsx`, `dialogs.tsx`, `index.ts` | per page: what the newest read showed, the banner, busy, the dialog, the reads in flight | mount, leave, refresh, poll, change from a control or a dialog | a read that overtakes a change or an older read; a dialog closed under its request; a page left | what is shown is the newest answer; a change's outcome is told; the controls come back |
| Others | server, wire, fs and git of the agent, terminal workspace resolver | | | see PROJECT.json | |

Who calls whom: the passes call the manager's connect; the manager opens an ssh
forward (which installs the agent), shakes hands and hands out a channel; the
routers take the channel for each call; the terminal proxy follows a terminal of
the daemon over the channel and is the handle the registry pumps; the registry's
sinks are the sockets; a socket's other end is a tab of the page. The close of a
connection reaches the daemon, whose connection task then closes the terminals
and processes it owns. The settings section drives the records and the worktree
lifecycle through the management API; an anchor it writes is what path routing
reads.

PROJECT.json lists the components, and under "hazards" each hard behaviour at
its line with the properties that watch it.

## 2. The modules

    NodeConnections  <-- Autoconnect                 (the manager; the passes that drive it)
                           ^-- NodeConnectionsProofs
    TerminalRegistry <-- TerminalSockets             (the table; the sockets over it)
                           ^-- TerminalProofs
    AgentTerminal    <-- RemoteTty                   (a daemon's terminal; the proxy over it)
                           ^-- AgentTerminalProofs
    BrowserSession                                   (a tab, and the host's end of its sockets)
      ^-- BrowserSessionProofs
    Worktrees        --> DurableSet                  (git, anchors, records; what a store promises)
      ^-- WorktreesProofs
    Records          <-- SettingsPages               (the machine and repository records; the pages over them)
                           ^-- SettingsProofs
    RemoteProcess                                    (a handle, the connection and its process group)
      ^-- RemoteProcessProofs
    AgentInstall                                     (the files and agents of one machine)
    ValueCodec       <-- ProgramHost                 (the value codec; the isolate's frame loop and program.js)
                           ^-- ProgramsProofs        (of AgentInstall too)

`<--` is EXTENDS: the composing module adds variables and interleaves or joins
the actions; `-->` is INSTANCE with a refinement mapping. Where a specification's
instances need constants or a symmetry of their own, an `MC` module has them;
each run has a `.cfg`. A definition marked `\* mutant` states a plausible bug of the
definition that follows it; no specification uses one. Substituted for it, it
makes a property fail: the one that PROJECT.json pairs with it, or one of its
conjuncts.

One action is one stretch of code between two awaits, with every synchronous call it
makes. What a promise resumes is an action of its own. Where several short
invariants make one statement about a component they are conjuncts of one named
invariant (ManagerInv, PassesKeepQuiet, TableInv, SocketInv, DaemonAnswers, TtyInv,
WorktreeInv, ProcessInv, MarkerMeansWhole, TabInv, OutputAccounted, RecordsInv,
PageInv), the type invariant among them.

**NodeConnections** is one machine. Entries of two machines share nothing but
the map, and no operation reads two of them, so one machine shows every
interleaving. `Entries` is still a set, because dispose forgets the entry object
while attempts and loops hold it. An attempt's name stands for its transport and
its connection too: `forwards` and `sockets` say which of these run. A slot is
used again when nothing refers to it (FreeAttempt and its like), as a collected
object would be.

| Action | Code |
|---|---|
| Connect, Begin | connectRecord up to its first await (502-516); a pending attempt is joined, a ready machine left alone |
| TransportOpens, HandshakeSucceeds, AttemptFails | the attempt's continuations (516-554), with ready, publish and the warm-up of the program host |
| ForwardDies, ForwardLost | the ssh process ends; `opened.exited` is noticed, and ignored unless the entry still holds that transport and is ready (539-544) |
| SocketDies, CallFails | requests stop; a failing call on a published channel fails the entry if the channel is still its own (485-499) |
| RecoveryEnds, RecoveryJoins, RecoveryConnects, Resumed | the recovery loop after its sleep and after its attempt (450-469) |
| ProgramAsks, InstallSettles | ptcHost and the install's answer (406-438, 576-582) |
| Disconnect, Dispose | 584-600 |

**Autoconnect** adds the passes: Startup and FollowUp begin them (86-104),
PassEnds, PassJoins and PassConnects are a pass after its sleep (71-79), and the
manager's Succeeds and Fails resume the passes that await that attempt. Stopping
the passes and disposing the manager are one synchronous cleanup in index.ts, so
the manager's `disposed` is `stopped` too.

**TerminalRegistry** is the table. Output is counted, not spelled: offsets are
absolute, a data event brings one or more units, the ring buffer keeps the last
`Cap`. `flying` is the set of sinks still taking the last chunk. `heard` records
what each sink was handed, so that a replay and the data events around it can be
compared. Kill, releaseSession and disposeAll are End over a set of terminals:
each kill runs up to its await before the next begins, and what follows the
await changes nothing in the table.

**TerminalSockets** adds one record per browser socket. An open frame passes
through resolving, spawning and spawned; a close, a resize or another frame may
come in between. SpawnAnswers is the registry's part of an open (the entry is in
the table), Opened the socket's continuation one microtask later.

**AgentTerminal** is one terminal of the daemon: the fork, the landing in the
table under its lock, the reader and the reaper thread, the reads, the
teardown ladder and close. A read takes two steps to look (the window, then the
facts) because the code takes two locks; being registered before it looks is the
`woken` flag, which a notification sets from the look on. The session's processes
are external: they print, start and end as they like, and end once they were
sent SIGKILL. Members of the group that an interactive shell moves to groups of
their own are not modelled: signals of the daemon reach the leader's group only.

**RemoteTty** puts the proxy over it. `pull` runs in two places, the follow loop
and the teardown, over one `offset`; each use is a read of the daemon and a
record of where its continuation is. A write to the stream may have to wait for
a drain, which comes while the consumer is reading and never after the stream's
end. LinkDrops is the disposal of the connection; the daemon sees its end close
later, on its own time. HandleSettles excuses one handle (Stranded): the loop has left
because a teardown released it, and the teardown was then rejected (finding 5).

**Worktrees** holds what the lifecycle must keep agreeing: `checkouts` is what
each machine's git lists, `anchors` and `repos` the lists in memory, `meta` and
`repoFile` the same on disk, `entries` the registered workspaces. A request is
the list of awaits it still has to make; each is one action that succeeds, fails,
or (a step on the machine) takes effect and then fails. Restart may come at any
point and loads the two lists from disk. `slips` is a history of effects whose
other half is missing; the properties use it to say exactly which disagreement
is explained by which failure.

| Action | Code |
|---|---|
| Create, Adopt, Open, Close, Release, Remove, OpenDirectory, CloseDirectory | the operations of worktrees.ts (841-1034) up to their first await: which steps they will take (CreateSteps, Teardown, Closing) |
| AddRepo, DeleteRepo, DeleteNode | the routes of api.ts (326-351, 389-402, 568-581), the guard of a repository with worktrees included |
| AddWorktree, CutWorktree | git's worktree add and remove on the machine or on this host |
| WriteAnchor, DropAnchor | the anchor store's create and remove (anchors.ts 334-386) |
| WriteRepos, RemoveNode | repos.ts 189-228, nodes.ts 346-357 |
| RegisterWorkspace, UnregisterWorkspace | the workspace registry: openOrDrop (614-672), the teardowns |
| CutByHand | somebody runs `git worktree add` on the machine |
| Restart | index.ts 245-252 after a stop anywhere |

**DurableSet** is what a store promises: a set that one caller's request changes
by one element, wholly or not at all, and that a restart leaves alone. The
property KeepsDurableSet says that the anchors in memory implement it, across
failures and restarts, under the mapping `held <- anchors`, `asked <-` the
anchor whose write or removal is still among the caller's steps.

**Records** is the two lists of the management routes. A request names a machine
or a repository; it is taken (up to its first await), awaits the machine, starts
the write of the list it has computed from memory, commits it to the document
under the document's lock, and publishes it in memory, in an action each. `Left`
are requests whose page has gone. The worktree routes and the connections of a
machine are answers here that come or do not ("other"). Three histories say what
the properties need to tell apart: `calm`, that the home has one host and no two
writes of a document have overlapped (what was failed, cut off or restarted does
not end it); `astray`, the repositories registered after their machine went or
left by a removal that failed; `minted`, the identities given out (randomUUID).

| Action | Code |
|---|---|
| Take (TakeAddNode, TakeRemoveNode, TakeOther) | the routes up to their first await (api.ts 326-402, 524-581) |
| Awaited (AddsRepo, RemovesRepo) | after the path was looked at on the machine, or the repository's directory closed |
| Commit, WriteFails | writeDocument (document.ts 91-103) |
| Publish | the store's assignment after it (nodes.ts 343, repos.ts 205), and removeByNode next |
| Restart | a host stops anywhere and loads both documents (nodes.ts 307-313) |

**SettingsPages** puts the pages over it. A read asks for machines and repositories;
its answers are taken at one moment (`Reads`), since the routes read memory and
nothing a page shows relates the two lists beyond `Listed`. A read that is no
longer the newest (`mine !== generation.current`) keeps only its flight, because a
change may await it. A change is `mutate` (from a control, with a timer that
polls) or `submit` (from a dialog, which Cancel closes at any time); it ends with a
read of its own, `Reread`. `missed`, `last`, `unsaid` and a snapshot's `own` are
histories. PATCH of a label, connection statuses and the directory picker change
no record and are left out. So are the reads that a new identity of the section's props
begins (Section.tsx 438-452): such a read, like a poll, could clear a failure the
banner tells, and PageInv says nothing of it.

**AgentInstall** is one machine's files and agents. A run is ensureAgent command
by command (the `stage` is the next command), or ensurePtcHost, whose files are
its own and which begins in the background once an agent answers (BeginHost,
machines.ts 406-438): `ptcHost` is the install the connection knows of, and the
next connection forgets it (Begin), while it goes on. How many of the host's
installs may be in flight at once is the bound `Installs`: one in the passing run,
two in install_overlap. Each `Look*` is a probe and what the code concludes from
it. A probe or a command in `MayFail` that fails reads as an empty answer and the
install carries on (Misses), the host's own lookup among them (LookHost,
install.ts 523-529); any other ends the run (CommandFails). Uploads, Move, Mark,
WriteToken, Kill, Start, Poll and RecordLaunch are the commands of the install.
Two uploads of one temporary name truncate each other: `by` says whose `cat`
writes the file, which is whole once that one has ended. UploadCut is a connection
lost during the upload: the remote shell sees its input end and moves half a
binary into place. Upgrade moves the plugin on to the next of `Releases`. The
agents publish their state file when they have started and may die; a plugin's
host that stops takes all the runs with it.

**RemoteProcess** has both ends of one connection. A handle's `stage` is the
request its promise chain awaits (spawn, wait, read, outcome), beside which a
terminate may be out. The daemon serves every request in a task of its own
(Serve*) and answers through `outbound`, the bounded channel that pushed frames
share: an answer waits for room, a frame that finds none abandons its stream and
terminates the process. `slot` is the one handler a JSON-RPC method has on the
plugin's side. The group has a leader and a child that may outlive it, hold its
pipe open and be deaf to SIGTERM.

**BrowserSession** is one tab: the entries it has created, of which one is
current, their sockets with the frames under way in both directions, and what the
body renders. `seen` is the state the mounted body last heard of: a choice leaves
it as it is, since the initial value of `useState` is taken at a mount only
(Remount), so a stale one and its restart button may stand over a live shell.
Restart either re-attaches over a new socket (Reattach) or disposes of the entry
and creates the next (Replace). The host's end is TerminalSockets' subject and is
reduced to its answers: open, attach with replayed history, refuse, output,
restart. A shell ends in two ways: by itself or because its stream fails, and then
its viewers get a last frame and their sockets are closed (ShellEnds); or killed
through the registry, from a chooser or with the Session, and then nobody who
views it is told and the sockets stay open (ShellKilled, registry.ts 676-688).

**ProgramHost** is the loop of main.rs around the isolate. A drain (everything a
program can do without new input) is the actions LogLine, LogBeyond, Call,
Returns and SendsDone in any order the program likes; Polls is its end. The
ledger counts bytes as `Ledger.push` does, the comma before an entry and the
escaping of a character included; the harness answers with streams that are
whole, cut short, run on or broken.

**ValueCodec** is how a value crosses the channel. A value is a tree, `Flatten` its
stream of tokens: a container is a marker with its size and then its children.
`ReadToken` is one round of the loop of unflatten over the containers under
construction: a value goes into the innermost one that it does not fill (`Room`),
inside the ones it fills and so closes (`Closing`). That the two are inverse is not in
the definitions: it is what section 4 proves. The early refusal of a marker larger
than what is left of the stream answers what the end of the stream does, none, and
has no case of its own. Recursion is written as functions over a range, so that
proofs can use it.

## 3. The runs

Twelve runs. Eleven pass; one, manager_disconnect, is a sentence of the
repository's own tests that the code does not keep.

| Run | Distinct states | Shows |
|---|---|---|
| manager | 331,882 | two entry objects, two attempts, two recovery loops over ssh: fields agree with each other and with what runs; a ready machine fails on its own loss, or on the late failure of an attempt a disconnect met; a lost forward is answered with a new attempt; a machine that keeps failing is not attempted for ever |
| manager_disconnect | | *violation*: a disconnect during an attempt is undone when the attempt completes |
| autoconnect | 126,883 | no attempt after the stop; a disconnected machine is left alone by timer and recoveries while no pass is between two rounds; a failed one comes back once the link is good |
| terminal_sockets | 1,027,431 | pacing, replay, valve, waits and release agree in every order; sockets and table agree on who views what; no orphan shell; an exited terminal is told and released |
| agent_terminal | 14,565 | no read sleeps through output or exit facts; no allocation survives a close; a closed session's processes end |
| remote_tty | 167,784 | output without silent gaps until a teardown, nothing after the end, handles settle unless stranded, terminate returns |
| worktrees | 1,437,408 | records agree when no request runs, every success is true when it is told, the anchors are a durable set |
| processes | 201,641 | what a handle publishes is what was printed; done means gone; handles settle |
| settings | 613,655 | memory is the document; while writes do not overlap, a write changes what its request names and a repository without a machine is explained; a page shows the newest answer and tells how its change ended, with the exceptions of finding 16; its controls come back |
| install | 1,233,016 | either binary's marker stands beside a whole binary of its build; the agent answered with is the wanted one; a machine is served in the end |
| browser | 130,660 | one socket, muted history, live means attached unless the shell was killed; no shell let go while it lives; an entry that lost its socket gets an answer or is left |
| program_host | 181,546 | output within its budget, the limit told once, success only with a report; replies whole and their own; a closed channel ends the run |

Fourteen further configurations check a sentence of the repository's documentation
that the code does not keep; each is run like the others and ends in a violation
(section 5): terminal_pause, terminal_size, remote_repeat, remote_release,
worktree_claims (two sentences), install_token, install_lookup (two sentences),
install_overlap, install_state, process_survivor, pipe_slot, browser_choice,
settings_claims (two sentences), settings_shared. With `-continue` TLC shows the
second sentence of a configuration that has two.

### Bounds, and why they are enough

* manager: two attempts and two loops, because the hazards are between an older one
  and a newer one; a third could only meet the entry as one of those two does. One
  install: two overlapping installs of one entry differ only in which one a worker
  is told by, which WorkerTellsInstall, a part of ManagerInv that is proved for any
  number of them, states. Slots are reused, so behaviours are as long as they like.
  Recovery of two rounds has a first and a last failure; one round is enough in
  `autoconnect`, where the passes' rounds are the question and the machine is at a
  direct address (`Ssh = FALSE`; the ssh actions are exercised by `manager`).
* Terminals: two sinks, as the code distinguishes none, the last one and another
  one. One terminal: the table's entries do not touch each other but for the
  ordinals. Output of two units over a ring of one reaches an empty, a full and
  an overrun buffer and a chunk larger than the cap. One wait and one resize at a
  time: neither reads another one. Two sizes: the same or another. `MaxTyped = 1`
  reaches the limit of buffered keystrokes and stays. What the run shows of these
  sizes the theorems of TerminalProofs show of all.
* Daemon and proxy: two units over a window of one reach a lossy read; two reads
  are all the proxy ever has. `Children` is whether the session's leader starts
  other members of its group; `remote_tty` leaves them to `agent_terminal`.
* `Valve = FALSE` (a detach grace of zero) in the configurations that ask about a
  shell left alone for ever: with the valve on, it is killed after a while.
* worktrees: one repository of the machine and one of this host, one managed path
  and one cut by hand with the same last segment, so that an adoption and a
  creation compete for one anchor directory. One caller, because the settings
  section is `busy` while a request is in flight (Section.tsx 437-480); what two
  would do is under section 5. One slip: after it, every request runs over the
  disagreement it left. Names are plain; worktree_claims has one with a slash.
* settings: one host, one page and one request left behind by a page, so that two
  requests overlap in the host while the page sees one of them; two machines, one
  on record and one to be added; a repository on the first. One slot for polls
  beside the change's own read: a third read could only supersede one of these
  two. settings_shared gives each of two pages a host of its own over one home.
* processes: one handle, piped or collected as it is born; three chunks over a
  window of two overrun a capture, over a channel of two they fill it. Two
  handles matter only for the one handler slot: pipe_slot.
* install: one agent install at a time, because the attempt that makes it awaits it,
  and one of the program host's, which the code does not see to: two are
  install_overlap. An upgrade comes while no agent is starting. Three faults allow a
  broken upload, a broken marker and a stop in one history. `MayFail` names the
  commands whose failure the code takes for an answer: the run leaves out the three
  that a promise rests on, the looks for a whole agent and for a whole program host
  and the reading of the state file, and the configurations install_lookup and
  install_state put them back. MCUpgrades changes the recipe, then the build, and
  MCRotation (install_token) the token. Five pids, of which one is free whenever an
  agent is started; a pid is not used again while a state file names it, so the
  reuse of pids by another program is not modelled.
* browser: two entries (one disposed of, one current), two sockets, two shells
  (one the host had, one fresh), three faults (a socket lost, a host restarted or a
  request refused).
* program_host: a budget of twelve bytes with a line of one character and one with
  an escaped character meets it before, at and after the comma; three lines; two
  calls so that replies cross; values to a depth of two with two children, six token
  streams for the first call (whole, cut short at either level, run on, with a
  marker that is none) and one for the second.

Deadlock is not checked: every part really may come to rest (a disposed manager,
terminals that have all ended, an answered request that nobody follows with
another, a program that has exited).

### Fairness

* Manager: an attempt is answered. forwardTimeoutMs and handshakeTimeoutMs bound the
  forward and the handshake; the ssh commands of ensureAgent, which the first await
  covers too, carry no timeout of their own, and that each of them ends is assumed
  (as in `install`); timers of recovery loops fire; an
  install settles; the exit of a forward is an event that is delivered. Nobody
  is obliged to connect, to disconnect, to call or to lose a link.
* `BoundRelease` is not about the code: the model's slots are finite, and it says
  that an attempt no entry refers to is let go in the end so that its slot is
  free for the next.
* `LinkComesGood` (autoconnect) is strong fairness of an attempt's success: the
  property it serves says what happens once the link works again.
* Sockets: a closing socket gets its close event, a chunk is taken or fails,
  what a socket awaits is answered.
* Daemon: its tasks and threads run; a killed process ends. Nothing is assumed
  of a read's budget in `agent_terminal`, because the property says that the
  answer does not depend on it; in `remote_tty` budgets do run out (READ_WAIT_MS).
* Proxy: promises go on; a consumer keeps coming back to read, and a stream that
  is read again and again drains. A consumer that never reads again (the finding
  of terminal_pause) is outside these properties.
* Processes: messages that were sent are received while the link holds, the
  daemon's tasks and threads run, the ladder's timer fires. A program is not
  obliged to end, nor its child.
* Install: a command ends, a failed connection is tried again (the manager's
  recovery or a person), an agent that has started publishes. Faults are bounded.
* Browser: events are delivered, timers fire, the host answers a frame.
* Program host: the loop goes on, which includes that a drain ends; a program that
  spins for ever is outside CloseEndsRun.
* Settings: a host goes on with what it was asked, a write and a machine's answer
  come or fail, and what a page asked is answered or fails; on a direct address the
  client may leave a request unanswered (client.ts:209), which is outside PageSettles.
  Nobody is obliged to use a page.
* worktrees states no liveness and assumes none.

## 4. What is proved

NodeConnectionsProofs proves, for every set of entry objects, attempts, loops and
installs and every positive number of recovery rounds, over ssh or not:

* TypeCorrect: `Spec => []TypeOK`;
* HandedOutIsLive, ConnectingIsAttempted, OneAttemptAtATime, DisconnectEndsRetry and
  WorkerTellsInstall, and ManagerInv, which is the conjunction of these the run checks;
* NothingLeaks and DisposedStaysQuiet;
* OnlyOwnLossDrops and CalmDisconnectStaysDown, about every step. The first holds in
  every state, and excuses one more way for a ready machine to fail (FailsLate):
  once a disconnect met an attempt in flight, that attempt may still fail beside the
  one that made the machine ready, and its catch fails the entry (machines.ts
  546-553).

They assume the named assumptions of NodeConnections and nothing else: None is
not an identity, RecoveryAttempts is a positive number, Ssh is a Boolean.

None of the invariants is inductive alone. That the published channel is the
live one says nothing about an attempt about to write both; that nothing leaks
depends on which attempt may still complete. The inductive invariant is
`IInv == TypeOK /\ Links`, and Links has five named parts:

* OwnersExist: what is in flight will act on an entry object that exists;
* EntryLinks: what the fields of one entry say about each other, in the map or
  forgotten (published is live, a live connection reads as ready, a pending
  attempt is in flight for this entry, a disconnected entry has no retry);
* MapLinks: the converses for the entry in the map and those not yet created. They
  fail for a forgotten entry, which dispose leaves in whatever state it had;
* CalmLinks: while no disconnect or dispose has met an attempt, whatever is in
  flight belongs to the entry in the map and is its pending attempt. This is
  what makes a settling attempt write to an entry that still expects it; it is
  false without `calm`, and the run manager_disconnect is the behaviour that
  shows it;
* NothingLeaks itself.

WorkerTellsInstall needs one part more, beside IInv: WorkerLinks says of every entry,
in the map or not, what its worker status and its install say of each other, and
that no two entries remember one install.

Each action has a lemma that it keeps Links; NextIInv collects them, and the
theorems follow from IInv. For the action properties a lemma per kind of step
says how it may change the state of an entry (kept, begun, ended, settled, lost).

Of the passes over the manager, for any number of passes and rounds:

* PassesDriveTheManager: `PassSpec => Spec`. A step of a pass that attempts is the
  manager's Connect, and any other leaves the manager alone, so that every theorem
  above holds beside the passes. What Startup needs for it is NothingBefore: until
  then there is no entry and nothing in flight;
* PassesWaitForTheLiving: PassTypeOK, that a pass which waits waits for an attempt
  that will settle, also when a clear has forgotten it;
* PassesKeepQuietHold: the action property PassesKeepQuiet, from CalmLinks. Of a
  machine disconnected while a pass is between two rounds it says nothing: the next
  round connects it.

AgentTerminalProofs proves of the daemon's terminal, for any number of reads,
any amount of output and any size of the window: AgentTypeOK (the window is
exactly the newest output up to its cap), NoReadOversleeps and NoSurvivor. Its
invariant AgentInv adds what makes the last two inductive: ReadsKnow, that a
read which has looked and was not notified since knows the window's end, also
before it decides to sleep; and DrainedIsClosed, that the table is emptied only
behind its closed flag. A step is quiet (it touches no read, no window and no
facts), notifies, or belongs to one read; each kind has a lemma.

Of the proxy over it, with the daemon's reads and threads going on between its
steps and a transport that may drop at any of them:

* ProxySound, the inductive invariant ProxyInv;
* ProxyPublishesInOrder: TtyInv; NothingFollowsTheEnd: the action property
  NothingAfterEnd; DaemonKeepsItsWord: NoReadOversleeps and NoSurvivor under the
  proxy's requests, which are not those of AgentTerminal alone.

That the stream has no silent gap is not inductive: what the next publish may
append depends on what its read was asked. ReadsWithin says that a read asks for
nothing that was not pushed; PullsHold that a pull which has noted a loss or
published still holds its answer; LoopAlone that before a teardown only the loop
pulls, and from the proxy's offset; StreamFits that the stream, before a teardown,
is what was published up to the offset (FitsUpTo: once, in order, a note at every
gap). `~releasing` is the exact premise: with the teardown's last pull beside
the loop's read both publish the same output (finding 4), and
nothing is claimed of the order after it.

BrowserSessionProofs proves of a tab, for any entries, sockets, shells and any
number of faults: TabAgrees, which is TabInv (one socket, muted history, live
means attached, unless the registry killed the shell and so told nobody), and
LetsGoOfTheDead, which is the action property KeepsItsShell.
It assumes that there is a socket to be had (`SomeSocket`). None of the parts of
TabInv is inductive: whether a history frame is muted depends on whether the
entry replays when the frame arrives, so the invariant has to follow a request
from the page to the host and its answer back. `Agree` says of the one socket
the tab holds and the entry it belongs to what each knows of the other:

* Waits: a request under way is the one the entry waits for, and nothing is
  coming down meanwhile; an attach is under way only for an entry that replays;
* Replays: an entry that replays has its answer coming, at the head of what comes
  down, and a history comes at no other time;
* Names, Errs: a shell that is named is the one that was asked for; an error is
  all its socket carries, and after an attach it says that the shell is gone;
* Views, Lives: the host's view of the socket is the shell the entry knows, or none
  any more where that shell was killed;
* EntriesAgree, LiveIsHeld: only the entry shown has a timer, and only without a
  socket; what is shown as live has one.

Every action of the page and of the host has a lemma that keeps the invariant;
the actions that only advance one link share one (HeldMoves, Hears).

WorktreesProofs proves of the worktree lifecycle, for one request at a time, names
without a slash, any repositories and hand-cut checkouts and any number of half-done
changes:

* RequestsRelyRightly, the inductive invariant: besides types (which say that file
  and memory agree at every step), what each request may rely on at each of the
  steps it has left (`Relies`): an anchor about to be written finds its directory
  free and its checkout there, a list about to be published is the one that
  should still be published, an anchor is dropped only once its entry is gone;
* WorktreesAgree: WorktreeInv, that every anchor without a checkout is one whose
  removal did not finish (DanglingExplained) included;
* AnchorsSurvive: HeldIsDurable, that a restart loads what was in memory, at any
  moment and not only between requests;
* AnchorsAreDurable: `WorktreeSpec => KeepsDurableSet`, the refinement of DurableSet.
  The proof maps the initial state to the initial state (`asked` is empty while
  nobody is at work) and each step to a step of the abstract set or a stutter: a
  request that will write or drop an anchor is an ask, its write or its removal
  is the take, and a failure, an abandoned request and a restart are a refusal;
* AnswersAreTrue: AnswersHold. Beside `Relies`, which says what a request may do
  next, it needs what the request has brought about so far: `Promised` says so by
  its route and the steps it has left (a create past the checkout has it, one past
  the anchor is routed to, a removal whose anchor is still there has its drop to
  come). What a success means is `Holds`, a case for every route that makes or takes
  away something; its excuses are a workspace entry whose removal failed without a
  word, the entry of a removed checkout of this host (finding 8) or of an anchor
  that has the directory still, and a checkout cut again by hand. Each route then is
  one lemma over the heads of its steps, the writes that are skipped because the
  list says it already included.

The premises are three. `OneCaller` is the settings section's `busy`: with two
callers the check of anchors.ts:347 is stale when it is used, and the theorem is
false. `PlainNames` says that a name is one path segment; with a slash a restart
loses the anchor (finding 6). `NoneIsNothing` says that None is not a value.

ProgramsProofs proves of the install, for any sequence of releases, any processes and any
number of faults: InstallTypesHold; AgentMarkerVouches and HostMarkerVouches, the two
parts of MarkerMeansWhole, and MarkersVouch, both at once; and AnswersAreCurrent, which
is AnswerIsCurrent.
For the markers the invariant (FileInv, of one of the two binaries) says what each
stage of a run knows of its files: while it fetches, uploads or moves, no marker
vouches for what lies there, and what is moved is what it uploaded. For the answers
(AgentInv, Knows) it says what the launch record, the token and the published state
say of the agent they name. The premises:

* `OneAttempt`, one agent install at a time, which the manager's attempts see to while
  calm (OneAttemptAtATime); any number of the host's installs may run beside it.
  `OneInstall`, one install of the program host, which nothing in the code sees to:
  HostMarkerVouches says what one of them does, and finding 19 what two do;
* "installed", "look" and "state" are not in `MayFail`: findings 13 and 14;
* `BuildsMoveOn` and `RecipesMoveOn`, that the plugin does not return to a build or a
  recipe it has left: the marker of an older build that comes back, or a launch record
  written before a stop, would vouch for something else;
* `TokenKept`: finding 9.

Without OneInstall, TokenKept or the premises on `MayFail` TLC has a counterexample
(install_overlap, install_token, install_lookup, install_state).

TerminalProofs proves of the terminal table and the sockets over it, for any
terminals, sinks, sessions, waits, resizes and sizes, any amount of output, any
size of the ring buffer and of the buffered keystrokes, with the valve or without:

* TerminalsSound, the inductive invariant `SoundInv`;
* TableAgrees: TableInv, whose part PauseEnds leaves out the shell of finding 2 (`cut`);
  WaitsMissNothing: NoWaitMissed; SocketsAgree: SocketInv.

SoundInv has six parts. `Sound` is what one entry says of itself; what it adds to
TableInv is that an entry out of the table has no sinks and that a detached one
still paused was left in the middle of a chunk. It is stated of a record, so that
what kill, attach, detach, append, a taken chunk and an exit do to an entry are
lemmas about one record (KilledSound .. ResizedSound), and a step of the table is one
of them and a frame. OrdinalsSound says that no entry is in the table beyond the
last ordinal, without which an open could overwrite a live one. WaitsSound says
that a pending wait is on a live terminal: NoWaitMissed is not inductive by itself,
as a wait on an unregistered terminal would have no one to wake it; WaitsNotified is
the lemma that waking the waits of the terminals a step changed is enough.
HeardSound names the terminal a sink was handed output of, which is what makes a
sink belong to one terminal only. OpensAlone is what a socket relies on between
the spawn's answer and the attach: nobody else knows the terminal, nobody views it,
and the socket views no other meanwhile. With ViewsAgree it gives NoOrphanShell for
a socket that goes at any point of that.

They assume that ordinals are consecutive from 1, that the buffer has room for a
unit, that there is a size to open at, and that None is none of the values.

SettingsProofs proves of the records and the settings section, for any hosts of one
home, machines, repositories, pages, requests left behind and reads in flight:

* SettingsStaySound, the inductive invariant `RecSound` and `PagesSound`;
* RecordsAgree: RecordsInv. Of a home with one host: memory is the document, whatever
  overlaps; and while `calm`, a stray repository is explained. Of several hosts it says
  no more than that the records keep their shape;
* WritesChangeTheNamed: the action property OnlyTheNamed, while `calm`;
* PagesAgree: PageInv. A page at rest tells how its change ended, except a failure
  that came with a read in flight or with its dialog closed (`unsaid`, finding 16);
  and while `calm` a machine that has gone from a page does not come back to it.

RecSound says what a request may rely on between computing its list and publishing
it. JobsSound: which operation writes which document, and that a list of machines
holds only identities that were given out. CommittedIsWritten: the document is what
its one committed request wrote, which is what makes the assignment after the write
bring memory level with it. AddsAnew: a machine being added is in no memory, no
document and no other request's list. CalmWrites: while `calm`, a document has one
writer, whose list is still the one it would compute. `calm` says only that the home
has one host and that no two writes of a document have overlapped, neither that
memory is level with the document nor that nothing failed: that a write which fails
or is cut off leaves memory level is MemoryIsDocument, and proved. Without `calm`
the properties are false, since nodes.ts:338 computes the list before the write is
awaited: two requests of one host, or two hosts, lose a record (settings_shared). A
removal is two writes; what explains a stray repository between them is the request
itself.

PagesSound is stated of one page, so that a step of another page is a frame. A
machine leaves a page for good because of what the records promise, not because of
the page: `MachinesKept` says of any step that a machine with an identity that is no
longer being added stays in a host's memory or is nowhere that host could have it
from, and does not come into a memory it is not in. SeenSound and MissedSound carry
that to what a page shows, has missed, and has in a read not shown yet: an answer
taken at one moment may be shown much later, and must not bring back what an
earlier one was without. ChangeSound follows a change from the click to its reread,
also through a dialog closed under it.

The proofs assume that None is none of the values, that an identity names a machine
or a repository and neither of the dialogs' own names, and that each repository of
an earlier run had its machine on record.

RemoteProcessProofs proves of the subprocesses of a connection, for any handles,
any output, window and queue:

* SubprocessesSound, the inductive invariant ProcessesSound;
* HandlesTellTheProcess: ProcessInv;
* StreamsInOrder: what a handle has had of its stream, held frames included, is the
  first of the print, in order and without a gap, whoever takes the handler over;
* StreamsAreThePrint: PipeIsThePrint of every behaviour in which no handle loses the
  handler before it ends, and OneStreamIsThePrint: of every behaviour that pipes one
  process, beside any number that are collected. Without such a premise it is
  false: the second piped process takes the handler of the first (pipe_slot), and
  the first is done without the chunks pushed since.

The invariant has three layers. The first is of one process (ProcSound): a reader
that has left has drained its pipe, facts settle only behind that or as a cut, what
a close has taken does not run. The lemmas of it are about one record: what a
signal, a push, a close does (SignalledStep, PushedSteps, DisposedSound), and that
each only takes a process on (ProcessesAdvance). The second is of the requests: a
handle has one under way, the one of its stage (OneRequest); a process is there
exactly once its spawn was answered (Births); what an answer is relied on for holds
from when it was served, also while it waits for room in the queue (WaitsHold,
ReadsHold). The third says where the frames are: what a handle has had is counted
up from one (HadInOrder); while the handler is its own, the frames under way
follow on it, ascending and without a gap, and up to what was pushed unless the
stream was given up (FramesFollow); the answer to the wait comes behind the last
of them (FramesBeforeEnd). A frame counts as pushed once it is in the queue, so that
a chunk in the reader's hand, which a full queue may still cost the stream, is not.

ProgramsProofs proves of the program host, for any budget, lines, completions and
answers, any number of calls, and values of any width and any nesting:

* ValuesReadBack: `Unflatten(Flatten[v]) = v` for every value;
* ReadValuesSpell: a stream that reads as a value is the tokens of that value, and
  one reads as none exactly when it is no value's. The premise is that the stream
  opens no more than Depth containers at a time, which is what bounds the values
  of the model and which the code does not bound (WiresAssumption has it of the
  answers a run gives);
* ProgramInvHolds, the inductive invariant;
* OutputIsAccounted: OutputAccounted; RepliesAreWhole: RepliesArriveWhole.

The codec and the sums of costs are recursive, and what a recursive function
computes takes an induction. The library's induction theorems are about an operator,
which these provers cannot instantiate; the first part of the module proves the same
about sets from the well-foundedness of `<` (Induction, InductionTo), and from it
that a function by recursion over a range exists and is determined (Recursion,
SameSteps). That the codec reads back is an induction over the nesting (ReadsTrees):
the tokens of a value, read into whatever is under construction, do what placing the
value does (`ReadsBack`). A container reads back when its children do, one child at
a time (ReadsContainer). The converse is an induction over the stream: what has been
read so far is spelled by what is under construction, each open container its marker
and the children it has (`Spells`, `Spine`), and placing a value keeps that through
every container it closes (PlacedSpells).

ProgramInv has three parts. OutputState says that the ledger is what the lines
written come to (`Logged(sent) = ledger.bytes`) unless a write has failed and the
process with it, that the frames are in order (InOrder: one limit and no line behind
it, one end, the completion within what the lines before it left), and that a limit
or an end was told exactly when the ledger and the body say so. A step that writes
is one lemma about a frame that may follow the others (MayFollow, InOrderAppend):
nothing is said of lines after the completion, which the ledger does not charge it
for. BootFirst is what lets a body that is told to run be one that has not ended.
ReplyState says that a promise that settled holds what was said to its own call, in
whatever order the replies come.

The assumptions are that the budget and the bounds are numbers, that characters
cost at least one byte, and WiresAssumption.

Only model-checked: liveness, which is out of the prover's reach, as ENABLED is
(DropIsRetried, NoEndlessRetry, FailedComesBack, ExitedIsReleased, DaemonAnswers,
HandleSettles, TeardownReturns, TerminateEndsLeader, Heals, Reattaches,
CloseEndsRun, PageSettles). Every other property of a passing run is a theorem,
under the premises named above.

## 5. Where the code does not keep its word

Each is quoted in PROJECT.json "findings". The first is a run; the configuration
that shows each of the others is named in brackets.

1. *A disconnect is undone* (machines.ts:584; run manager_disconnect). disconnect
   clears the entry and leaves the attempt in flight alone; its success makes the
   machine ready again. recovery.test.ts:138 has "a deliberate disconnect is not
   undone". While no attempt is met (`calm`) it is proved.
2. *A shell stays paused* (registry.ts:423) [terminal_pause]. `resume` resumes only
   a `running` terminal; a last viewer that leaves mid-chunk makes it `detached`
   first, and no attach resumes it.
3. *A size is lost* (terminal.ts:151) [terminal_size]. The spawn uses the size
   requested when it was called; a resize before its answer is recorded as applied
   and never sent.
4. *Output twice* (tty.ts:239) [remote_repeat]. The last pull of a teardown and the
   loop's read in flight ask from one offset.
5. *A handle that never settles* (tty.ts:234) [remote_release]. terminate rejects
   after the loop has returned because of `releasing`.
6. *A worktree that a restart loses* (anchors.ts:71) [worktree_claims,
   HeldIsDurable]. A name with a slash puts its anchor four levels down; the scan
   goes three.
7. *A route into nothing* (worktrees.ts:752). removeRemote removes the checkout
   first and the anchor last; a step that fails between leaves an anchor without a
   checkout, which the header of the file rules out. NoRouteIntoNothing states the
   promise; DanglingExplained, a part of WorktreeInv, says what does hold.
8. *An entry without a directory* (worktrees.ts:592). Of this host's own worktrees
   the workspace entry goes after the directory, against the comment there.
   LocalEntryHasCheckout states the promise.
9. *A rotated token* (install.ts:410) [install_token]. A live agent of the wanted
   build and recipe is reused before the token is rewritten.
10. *A survivor is not signalled* (agent/src/subprocess.rs:470) [process_survivor].
    terminate does nothing once the leader has been reaped.
11. *One handler for two processes* (client.ts:217) [pipe_slot]. The second piped
    process of a machine takes over the first one's frames.
12. *A tab asks again* (session.ts:645) [browser_choice]. A restart disposes of the
    tab's choice with the entry, and the chooser is drawn over a running shell.
13. *A marker beside a broken binary* (install.ts:354, and 528 for the program host)
    [install_lookup, AgentMarkerMeansWhole and HostMarkerMeansWhole]. A look for the
    binary that fails reads as "not installed"; the upload that follows replaces the
    binary under a marker that still vouches for it, and a cut leaves half of it
    there.
14. *The superseded agent is answered with* (install.ts:287) [install_state]. A failed
    read of the state file is "no state": the pid that the start replaces is
    then unknown, and the poll takes the old publication for the new one.
15. *Two anchors of one checkout* (anchors.ts:347) [worktree_claims,
    OneAnchorPerCheckout]. create compares places, not checkouts: after a removal
    that lost its anchor step, a worktree made at the same path under another name
    records the checkout twice.
16. *A failure is not told* (Section.tsx:444) [settings_claims, FailureTold]. A read
    the change's timer began outlives the change and clears its banner; and a
    dialog closed under its request has nowhere to tell of its failure.
17. *A repository without a machine* (api.ts:579) [settings_claims, NoRepoSurvives]. It
    is registered while its machine goes, or the second write of the removal fails.
18. *A lost update* (nodes.ts:338) [settings_shared]. The list is computed before the
    document's lock is taken, from memory that was read from disk at the start:
    of two hosts, or of two requests at once, the second undoes the first.
19. *Two installs of one program host* (machines.ts:535) [install_overlap]. A
    connection begins the install in the background and a drop forgets it without
    ending it; the next connection's install writes the same temporary name, the
    first to end moves and marks what the other is still writing, and a cut of the
    other leaves half a binary beside the marker.

Seen while modelling, and not configurations of this project:

* A pass between two rounds connects a machine that was disconnected meanwhile
  (autoconnect.ts:72-77, against its header): it checks only `stopped`. For this
  reason PassesKeepQuiet asks that no pass is between two rounds.
* A terminal ended through the close route tells its viewers nothing: kill clears
  the sinks before the process exits (registry.ts:684, against terminal.ts:14-16). A tab
  on it goes on saying it is live; TabInv excuses exactly this shell.
* The body of a tab takes the state of its entry at its mount and by events only:
  chosen over an entry that exists, it may draw a stale state, and its restart
  button, over a live shell (TerminalBody.tsx:69).
* A handle may settle with its exit facts before the last output is published: the
  reaper thread records the facts while the reader thread has not pushed the
  tail (terminal.rs:391-434), and the read that brings the facts ends the loop.
* When the transport drops while a teardown's last pull waits for a drain, the
  handle settles, the stream ends, no drain comes, and terminate never returns
  (tty.ts:157, 168). TeardownReturns therefore speaks of a transport that holds.
* Two connects around a disconnect overlap, and the second overwrites the
  transport of the first, whose ssh process then has no owner (machines.ts:517).
* Two requests of two browsers at once: the check that no anchor owns a path is
  made before two awaits (anchors.ts:345-347), and so is the one that a repository
  has no worktrees (api.ts:389-402). With `Callers = {c1, c2}` RoutesHome fails.
* startSshCommand takes a process ended by a signal for a success (`code ?? 0`).
* The daemon serves each request in a task of its own (server.rs:119), so a
  terminate can overtake what was asked before it.
* The tab: a replaced entry publishes nothing until its first frame; disposing of
  an entry that is opening publishes 'closed' for the tab; a `ready` frame lost
  with its socket leaves a shell no tab knows; the set of pending choices is
  never emptied.
* The program host: lines logged by work left behind after the completion was
  written are charged without it; a call whose arguments exceed a frame ends the
  process instead of rejecting; a write to a closed channel exits with failure; a
  program that awaits a reply that never comes stays until the channel closes.

## 6. Not modelled, and the plan

Not modelled because nothing of it is a state change over time worth a checker:
JSON-RPC framing, the workspace resolver, single calls into files and git, the
rendering of the settings pages and of console values, the wording of anything.

To come, in this order:

1. Streams written to a process (stdin, control) in RemoteProcess.
2. classifyPath as an operator over paths of several segments against a reference
   definition by components; Worktrees uses its answer for paths of two.
