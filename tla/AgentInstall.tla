---------------------------- MODULE AgentInstall ----------------------------
(***************************************************************************)
(* Putting a release's binaries on one machine and keeping its agent       *)
(* running: ensureAgent and ensurePtcHost of                               *)
(* src/src/remote/agent/install.ts, one command over ssh at a time, with   *)
(* the files they read and write there and the agents they start.          *)
(*                                                                         *)
(* A command may fail, which ends the run unless install.ts carries on;    *)
(* the plugin may stop between two commands; a connection lost during an   *)
(* upload may leave half of it in place, because the shell behind it only  *)
(* sees its input end.  The next connection tries again.  The plugin is    *)
(* upgraded in the order of Releases, each a build, a launch recipe and a  *)
(* token.  Once an agent answers, the program host is installed in the     *)
(* background (ptcHostFor of src/src/models/machines.ts): a later          *)
(* connection forgets that install, which goes on, and begins its own.     *)
(* Creating the directory is folded into the step after it.                *)
(***************************************************************************)
EXTENDS Naturals, Sequences

CONSTANTS
  Attempts,   \* agent installs in flight at a time
  Installs,   \* bound: program-host installs in flight at a time
  Releases,   \* [build, recipe, token] of each plugin configuration, in order
  MayFail,    \* the commands install.ts carries on without that may fail
  MaxFaults,  \* bound: failures, stops and deaths
  Pids,       \* bound: agent processes at a time
  None

ASSUME FaultsAssumption == MaxFaults \in Nat
ASSUME PidsAssumption == None \notin Pids

ASSUME RunsAssumption == Attempts \cap Installs = {} /\ None \notin Installs

VARIABLES
  release,    \* the configuration this host runs with
  attempt,    \* the runs of ensureAgent and of ensurePtcHost
  ptcHost,    \* the program-host install this connection knows of
  files,      \* the binaries, their temporary names and their markers
  token,      \* the token file
  launch,     \* launch-env.json
  state,      \* state.json
  agents,     \* the agent processes
  faults

installVars ==
  <<release, attempt, ptcHost, files, token, launch, state, agents, faults>>

Runs == Attempts \cup Installs

NoAttempt == [stage |-> "idle", seen |-> None, running |-> None, pid |-> None]

NoAgent == [up |-> "gone", build |-> None, recipe |-> None, token |-> None]

Wanted == Releases[release]

Binary(build, whole, by) == [build |-> build, whole |-> whole, by |-> by]

-----------------------------------------------------------------------------
At(a, stage) == attempt[a].stage = stage

\* The binary a run installs.
Target(a) == IF a \in Installs THEN "host" ELSE "agent"

\* Its agent answers, and the connection goes up.
Answered(a) == a \in Attempts /\ At(a, "served")

Resting(a) == attempt[a].stage \in {"idle", "failed", "served"}

Goes(a, stage) == attempt' = [attempt EXCEPT ![a].stage = stage]

Fault == faults < MaxFaults /\ faults' = faults + 1

\* A command install.ts carries on without fails: it reads as an empty answer.
Misses(step) == step \in MayFail /\ Fault

\* A connection is attempted: the one before is cleared, its install forgotten.
Begin(a) ==
  /\ Resting(a)
  /\ attempt' = [attempt EXCEPT ![a] = [NoAttempt EXCEPT !.stage = "state"]]
  /\ ptcHost' = None
  /\ UNCHANGED <<release, files, token, launch, state, agents, faults>>

\* In the background of a connection that is up, once unless it fails.
BeginHost(a) ==
  /\ Resting(a)
  /\ \E b \in Attempts : Answered(b)
  /\ ptcHost # None => At(ptcHost, "failed")
  /\ attempt' = [attempt EXCEPT ![a] = [NoAttempt EXCEPT !.stage = "look"]]
  /\ ptcHost' = a
  /\ UNCHANGED <<release, files, token, launch, state, agents, faults>>

\* state.json, read whatever the command's exit status.
LookState(a) ==
  /\ At(a, "state")
  /\ \E seen \in {state, None} :
       /\ IF seen = state THEN UNCHANGED faults ELSE Misses("state")
       /\ attempt' = [attempt EXCEPT ![a].seen = seen,
                        ![a].stage = IF seen = None THEN "installed" ELSE "alive"]
  /\ UNCHANGED <<release, ptcHost, files, token, launch, state, agents>>

\* mutant: the process the state file names is taken to be alive
AliveAssumed(p) == TRUE

Alive(p) == agents[p].up # "gone"

LookAlive(a) ==
  LET seen == attempt[a].seen
  IN  /\ At(a, "alive")
      /\ \E alive \in {Alive(seen.pid), FALSE} :
           /\ IF alive = Alive(seen.pid) THEN UNCHANGED faults
              ELSE Misses("alive")
           /\ attempt' = [attempt EXCEPT
                ![a].running = IF alive THEN seen.pid ELSE None,
                ![a].stage = IF alive /\ seen.build = Wanted.build THEN "recipe"
                             ELSE "installed"]
      /\ UNCHANGED <<release, ptcHost, files, token, launch, state, agents>>

\* mutant: the recipe is not compared
ReusesAny(a) == TRUE

\* A live agent of this build, started this build's way, is left alone.
Reuses(a) == launch = Wanted.recipe

LookRecipe(a) ==
  /\ At(a, "recipe")
  /\ \/ /\ attempt' = IF Reuses(a)
                      THEN [attempt EXCEPT ![a].stage = "served",
                                           ![a].pid = attempt[a].seen.pid]
                      ELSE [attempt EXCEPT ![a].stage = "installed"]
        /\ UNCHANGED faults
     \/ Misses("recipe") /\ Goes(a, "installed")
  /\ UNCHANGED <<release, ptcHost, files, token, launch, state, agents>>

LookInstalled(a) ==
  /\ At(a, "installed")
  /\ \/ /\ Goes(a, IF files.agent.marker = Wanted.build THEN "token" ELSE "fetch")
        /\ UNCHANGED faults
     \/ Misses("installed") /\ Goes(a, "fetch")
  /\ UNCHANGED <<release, ptcHost, files, token, launch, state, agents>>

\* The program host's marker counts while its binary is there to execute; a
\* command that fails says neither.
LookHost(a) ==
  /\ At(a, "look")
  /\ \/ /\ Goes(a, IF files.host.bin # None /\ files.host.marker = Wanted.build
                   THEN "served" ELSE "fetch")
        /\ UNCHANGED faults
     \/ Misses("look") /\ Goes(a, "fetch")
  /\ UNCHANGED <<release, ptcHost, files, token, launch, state, agents>>

\* From the cache or the network, checked against the release's sums.
Fetch(a) ==
  /\ At(a, "fetch")
  /\ Goes(a, "upload")
  /\ UNCHANGED <<release, ptcHost, files, token, launch, state, agents, faults>>

\* mutant: the marker is written ahead of the binary
UploadingMarked(file, a) ==
  [file EXCEPT !.temp = Binary(Wanted.build, FALSE, a), !.marker = Wanted.build]

Uploading(file, a) == [file EXCEPT !.temp = Binary(Wanted.build, FALSE, a)]

\* cat > x.new truncates what another upload is writing there.
Uploads(a) ==
  /\ At(a, "upload")
  /\ Goes(a, "move")
  /\ files' = [files EXCEPT ![Target(a)] = Uploading(@, a)]
  /\ UNCHANGED <<release, ptcHost, token, launch, state, agents, faults>>

\* A cat that ends leaves the file it was last to truncate whole.
Written(bin, a) == IF bin # None /\ bin.by = a THEN [bin EXCEPT !.whole = TRUE] ELSE bin

\* The cat ends, then chmod and mv; another run may have moved the file away.
Moved(file, a) ==
  IF file.temp = None THEN [file EXCEPT !.bin = Written(@, a)]
  ELSE [file EXCEPT !.temp = None, !.bin = Written(file.temp, a)]

Move(a) ==
  /\ At(a, "move")
  /\ Goes(a, IF files[Target(a)].temp = None THEN "failed" ELSE "mark")
  /\ files' = [files EXCEPT ![Target(a)] = Moved(@, a)]
  /\ UNCHANGED <<release, ptcHost, token, launch, state, agents, faults>>

\* The connection is lost during the upload: cat ends, and so may the rest run.
UploadCut(a) ==
  LET file == files[Target(a)]
  IN  /\ At(a, "move") /\ file.temp # None
      /\ Fault
      /\ Goes(a, "failed")
      /\ files' = [files EXCEPT ![Target(a)] =
                     [file EXCEPT !.temp = None, !.bin = file.temp]]
      /\ UNCHANGED <<release, ptcHost, token, launch, state, agents>>

Mark(a) ==
  /\ At(a, "mark")
  /\ Goes(a, IF a \in Attempts THEN "token" ELSE "served")
  /\ files' = [files EXCEPT ![Target(a)].marker = Wanted.build]
  /\ UNCHANGED <<release, ptcHost, token, launch, state, agents, faults>>

WriteToken(a) ==
  /\ At(a, "token")
  /\ Goes(a, IF attempt[a].running = None THEN "start" ELSE "kill")
  /\ token' = Wanted.token
  /\ UNCHANGED <<release, ptcHost, files, launch, state, agents, faults>>

Kill(a) ==
  /\ At(a, "kill")
  /\ Goes(a, "start")
  /\ \/ /\ agents' = [agents EXCEPT ![attempt[a].running].up = "gone"]
        /\ UNCHANGED faults
     \/ Misses("kill") /\ UNCHANGED agents
  /\ UNCHANGED <<release, ptcHost, files, token, launch, state>>

\* A process id no file and no attempt still names.
FreePids ==
  {p \in Pids :
     /\ agents[p].up = "gone"
     /\ state # None => state.pid # p
     /\ \A a \in Attempts :
          /\ attempt[a].pid # p
          /\ attempt[a].seen # None => attempt[a].seen.pid # p}

\* The start is detached and succeeds whatever becomes of the agent.
Start(a) ==
  /\ At(a, "start")
  /\ Goes(a, "poll")
  /\ \/ /\ files.agent.bin # None /\ files.agent.bin.whole
        /\ FreePids # {}
        /\ agents' = [agents EXCEPT ![CHOOSE p \in FreePids : TRUE] =
                        [up |-> "starting", build |-> files.agent.bin.build,
                         recipe |-> Wanted.recipe, token |-> None]]
     \/ /\ files.agent.bin = None \/ ~files.agent.bin.whole
        /\ UNCHANGED agents
  /\ UNCHANGED <<release, ptcHost, files, token, launch, state, faults>>

\* A publication of this build that is not the replaced agent's.
Published(a) ==
  /\ state # None /\ state.build = Wanted.build
  /\ attempt[a].seen # None => state.pid # attempt[a].seen.pid

Poll(a) ==
  /\ At(a, "poll")
  /\ Published(a)
  /\ attempt' = [attempt EXCEPT ![a].stage = "record", ![a].pid = state.pid]
  /\ UNCHANGED <<release, ptcHost, files, token, launch, state, agents, faults>>

Starting == {p \in Pids : agents[p].up = "starting"}

\* The budget for a publication: it ends early only as one of the faults.
TimeOut(a) ==
  /\ At(a, "poll") /\ ~Published(a)
  /\ IF Starting = {} THEN UNCHANGED faults ELSE Fault
  /\ Goes(a, "failed")
  /\ UNCHANGED <<release, ptcHost, files, token, launch, state, agents>>

RecordLaunch(a) ==
  /\ At(a, "record")
  /\ Goes(a, "served")
  /\ launch' = Wanted.recipe
  /\ UNCHANGED <<release, ptcHost, files, token, state, agents, faults>>

\* A command the install cannot go on without fails.
CommandFails(a) ==
  /\ attempt[a].stage \in {"state", "fetch", "upload", "move", "mark", "token", "start",
                            "record"}
  /\ Fault
  /\ Goes(a, "failed")
  /\ UNCHANGED <<release, ptcHost, files, token, launch, state, agents>>

HostStops ==
  /\ Fault
  /\ attempt' = [a \in Runs |-> NoAttempt] /\ ptcHost' = None
  /\ UNCHANGED <<release, files, token, launch, state, agents>>

\* The plugin is upgraded once the agents already started are up.
Upgrade ==
  /\ release < Len(Releases)
  /\ Starting = {}
  /\ release' = release + 1
  /\ attempt' = [a \in Runs |-> NoAttempt] /\ ptcHost' = None
  /\ UNCHANGED <<files, token, launch, state, agents, faults>>

\* The agent reads the token file, binds, and renames its state into place.
Publish(p) ==
  /\ agents[p].up = "starting"
  /\ agents' = [agents EXCEPT ![p].up = "serving", ![p].token = token]
  /\ state' = [pid |-> p, build |-> agents[p].build]
  /\ UNCHANGED <<release, ptcHost, attempt, files, token, launch, faults>>

AgentDies(p) ==
  /\ agents[p].up # "gone"
  /\ Fault
  /\ agents' = [agents EXCEPT ![p].up = "gone"]
  /\ UNCHANGED <<release, ptcHost, attempt, files, token, launch, state>>

-----------------------------------------------------------------------------
NoFile == [bin |-> None, temp |-> None, marker |-> None]

InstallInit ==
  /\ release = 1 /\ faults = 0
  /\ attempt = [a \in Runs |-> NoAttempt] /\ ptcHost = None
  /\ files = [agent |-> NoFile, host |-> NoFile]
  /\ token = None /\ launch = None /\ state = None
  /\ agents = [p \in Pids |-> NoAgent]

Replace(a) == Fetch(a) \/ Uploads(a) \/ Move(a) \/ Mark(a)

EnsureAgent(a) ==
  \/ Begin(a) \/ LookState(a) \/ LookAlive(a) \/ LookRecipe(a) \/ LookInstalled(a)
  \/ Replace(a) \/ WriteToken(a) \/ Kill(a) \/ Start(a) \/ Poll(a) \/ TimeOut(a)
  \/ RecordLaunch(a)

EnsurePtcHost(a) == BeginHost(a) \/ LookHost(a) \/ Replace(a)

InstallNext ==
  \/ HostStops \/ Upgrade
  \/ \E a \in Attempts : EnsureAgent(a)
  \/ \E a \in Installs : EnsurePtcHost(a)
  \/ \E a \in Runs : UploadCut(a) \/ CommandFails(a)
  \/ \E p \in Pids : Publish(p) \/ AgentDies(p)

\* Commands end, a failed connection is tried again, an agent that starts
\* publishes.
InstallFairness ==
  /\ \A a \in Attempts : WF_installVars(EnsureAgent(a))
  /\ \A a \in Installs : WF_installVars(EnsurePtcHost(a))
  /\ \A p \in Pids : WF_installVars(Publish(p))

InstallSpec == InstallInit /\ [][InstallNext]_installVars

FairInstallSpec == InstallSpec /\ InstallFairness

-----------------------------------------------------------------------------
(* Properties.                                                             *)

Vouches(t) == files[t].marker = Wanted.build =>
  files[t].bin # None /\ files[t].bin.whole /\ files[t].bin.build = Wanted.build

\* The agent's marker of the build this plugin wants stands beside a whole binary
\* of it, however uploads, moves and markers fail or are cut off and the plugin
\* stops between them (UPLOAD_BINARY, WRITE_INSTALLED), for one agent install at a
\* time whose look at the marker does not fail (install_lookup.cfg).
AgentMarkerMeansWhole == Vouches("agent")

\* The same of the program host's marker (UPLOAD_PTC_HOST, WRITE_PTC_HOST), for one
\* install of it at a time whose look does not fail: with two a marker stands
\* beside half a binary (install_overlap.cfg).
HostMarkerMeansWhole == Vouches("host")

\* Neither marker vouches for another or half a binary.
MarkerMeansWhole == AgentMarkerMeansWhole /\ HostMarkerMeansWhole

\* The agent an attempt answers with is one this plugin would start: its build,
\* its launch recipe and its token (reused or not: install.ts 410, 426, 463).
AnswerIsCurrent == \A a \in Attempts : Answered(a) =>
  LET agent == agents[attempt[a].pid]
  IN  /\ agent.build = Wanted.build /\ agent.recipe = Wanted.recipe
      /\ agent.token = Wanted.token

\* A machine that keeps being connected to is served in the end, however
\* earlier attempts were broken off.
Heals == []<>(\E a \in Attempts : /\ Answered(a)
                                  /\ agents[attempt[a].pid].up = "serving")
=============================================================================
