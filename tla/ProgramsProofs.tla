--------------------------- MODULE ProgramsProofs ---------------------------
(***************************************************************************)
(* Proofs about the two programs the plugin brings to a machine: how they  *)
(* get there and one of them is kept running (AgentInstall), and what the  *)
(* other does with a program (ProgramHost over ValueCodec).                *)
(*                                                                         *)
(* The install: for any releases, any processes and any number of faults.  *)
(* What is proved of the agent holds for one install of it at a time,      *)
(* beside any number of the host's (the connection manager keeps one per   *)
(* machine while no disconnect meets an attempt: NodeConnectionsProofs,    *)
(* OneAttemptAtATime); what is proved of the host, for one install of it   *)
(* at a time, which the manager does not see to.  The plugin does not go   *)
(* back to a build or a recipe it left, and the probes an answer rests on  *)
(* are not among the commands that may fail unnoticed.  Each premise is    *)
(* needed: TLC finds a counterexample without it.                          *)
(*                                                                         *)
(* The program host: for any budget, lines, completions and answers, and   *)
(* for values of any width and depth.  Its codec is recursive, so a first  *)
(* part says what induction and recursion give; then the codec, whose      *)
(* reader is the inverse of its writer; then the frames a run writes, its  *)
(* ledger and the replies to its calls.                                    *)
(***************************************************************************)
EXTENDS AgentInstall, ProgramHost, SequenceTheorems, FiniteSetTheorems,
        NaturalsInduction, WellFoundedInduction, TLAPS

-----------------------------------------------------------------------------
(* The install.                                                              *)

Targets == {"agent", "host"}

Builds    == {Releases[i].build : i \in 1 .. Len(Releases)}
Recipes   == {Releases[i].recipe : i \in 1 .. Len(Releases)}
RunTokens == {Releases[i].token : i \in 1 .. Len(Releases)}

\* The premises.
OneAttempt == \A a, b \in Attempts : a = b

OneInstall == \A a, b \in Installs : a = b

SomeReleases == Len(Releases) \in Nat \ {0}

BuildsMoveOn == \A i, j, k \in 1 .. Len(Releases) :
  i <= j /\ j <= k /\ Releases[i].build = Releases[k].build
    => Releases[j].build = Releases[k].build

RecipesMoveOn == \A i, j, k \in 1 .. Len(Releases) :
  i <= j /\ j <= k /\ Releases[i].recipe = Releases[k].recipe
    => Releases[j].recipe = Releases[k].recipe

TokenKept == \A i, j \in 1 .. Len(Releases) : Releases[i].token = Releases[j].token

-----------------------------------------------------------------------------
(* Types.                                                                  *)

Publications == [pid : Pids, build : Builds]

Bins == [build : Builds, whole : BOOLEAN, by : Runs]

NoneIsNothing == /\ None \notin Builds /\ None \notin Recipes /\ None \notin RunTokens
                 /\ None \notin Bins /\ None \notin Publications

File == [bin : Bins \cup {None}, temp : Bins \cup {None}, marker : Builds \cup {None}]

States == Publications \cup {None}

Stages == {"idle", "state", "alive", "recipe", "installed", "look", "fetch", "upload",
           "move", "mark", "token", "kill", "start", "poll", "record", "served",
           "failed"}

Attempt ==
  {x \in [stage : Stages, seen : States, running : Pids \cup {None},
          pid : Pids \cup {None}] :
     x.stage \in {"alive", "recipe"} => x.seen # None}

Agent ==
  {x \in [up : {"gone", "starting", "serving"}, build : Builds \cup {None},
          recipe : Recipes \cup {None}, token : RunTokens \cup {None}] :
     x.up = "starting" => x.build # None}

InstallTypes ==
  /\ release \in 1 .. Len(Releases)
  /\ attempt \in [Runs -> Attempt]
  /\ ptcHost \in Installs \cup {None}
  /\ files \in [agent : File, host : File]
  /\ token \in RunTokens \cup {None}
  /\ launch \in Recipes \cup {None}
  /\ state \in States
  /\ agents \in [Pids -> Agent]

-----------------------------------------------------------------------------
(* The files: the marker and the binary of one of the two.                 *)

Sound(file) == /\ file.bin # None /\ file.bin.whole
               /\ file.bin.build = Wanted.build

\* One run at a time replaces it.
OneReplaces(t) == \A a, b \in Runs : Target(a) = t /\ Target(b) = t => a = b

\* The look at its marker does not fail unnoticed.
LookIsSure(t) == (IF t = "host" THEN "look" ELSE "installed") \notin MayFail

\* The marker names a build the plugin has had.
MarkerIsPast(t) == files[t].marker # None =>
  \E i \in 1 .. release : files[t].marker = Releases[i].build

\* While a run replaces the binary no marker vouches for what lies there; what
\* it has moved into place is whole, and it marks nothing else.
StageKnowsFile(t) == \A a \in Runs : Target(a) = t =>
  /\ attempt[a].stage \in {"fetch", "upload", "move"}
       => files[t].marker # Wanted.build
  /\ attempt[a].stage = "move" /\ files[t].temp # None =>
       files[t].temp.by = a /\ files[t].temp.build = Wanted.build
  /\ attempt[a].stage = "mark" => Sound(files[t])

FileInv(t) == MarkerIsPast(t) /\ StageKnowsFile(t) /\ Vouches(t)

-----------------------------------------------------------------------------
(* The agents: whom state.json names, and how that one was started.        *)

\* The plugin's token is the one the agents were given.
TokensAgree ==
  /\ token \in {None, Wanted.token}
  /\ \A p \in Pids : agents[p].up = "starting" => token = Wanted.token
  /\ state # None => agents[state.pid].token = Wanted.token

\* An agent is still starting only under the configuration that started it.
StartsAreCurrent == \A p \in Pids :
  agents[p].up = "starting" => agents[p].recipe = Wanted.recipe

StateIsAgents == state # None => agents[state.pid].build = state.build

\* The launch record is that of the agent state.json names, or an older one.
LaunchIsOlder == launch # None =>
  /\ state # None
  /\ \E i, j \in 1 .. release : /\ i <= j /\ launch = Releases[i].recipe
                                /\ agents[state.pid].recipe = Releases[j].recipe

Busy == {"alive", "recipe", "installed", "fetch", "upload", "move", "mark", "token",
         "kill", "start", "poll"}

\* What an attempt saw was given the token; it writes it before it starts one.
KnowsToken(a) ==
  /\ attempt[a].seen # None => agents[attempt[a].seen.pid].token = Wanted.token
  /\ attempt[a].stage \in {"kill", "start", "poll", "record"} => token = Wanted.token

\* An attempt under way has seen the state there is, or a newer one came from
\* an agent started this release's way; what it saw it may believe.
KnowsState(a) ==
  LET seen == attempt[a].seen
  IN  /\ attempt[a].stage \in Busy =>
           state = seen \/ (state # None /\ agents[state.pid].recipe = Wanted.recipe)
      /\ attempt[a].stage \in {"alive", "recipe"} =>
           /\ seen # None
           /\ agents[seen.pid].build = seen.build
           /\ launch = Wanted.recipe => agents[seen.pid].recipe = Wanted.recipe
      /\ attempt[a].stage = "recipe" => seen.build = Wanted.build

\* The agent it answers with is the one the plugin wants.
KnowsAnswer(a) ==
  /\ attempt[a].stage = "record" =>
       state # None /\ agents[state.pid].recipe = Wanted.recipe
  /\ attempt[a].stage = "record" \/ Answered(a) =>
       /\ attempt[a].pid # None
       /\ agents[attempt[a].pid].build = Wanted.build
       /\ agents[attempt[a].pid].recipe = Wanted.recipe
       /\ agents[attempt[a].pid].token = Wanted.token

Knows(a) == KnowsToken(a) /\ KnowsState(a) /\ KnowsAnswer(a)

AgentInv == /\ TokensAgree /\ StartsAreCurrent /\ StateIsAgents /\ LaunchIsOlder
            /\ \A a \in Attempts : Knows(a)

-----------------------------------------------------------------------------
(* Type correctness *)

(* What the plugin wants is of one of its releases.                          *)
LEMMA WantedIsListed ==
  ASSUME release \in 1 .. Len(Releases)
  PROVE  Wanted.build \in Builds /\ Wanted.recipe \in Recipes /\ Wanted.token \in RunTokens
BY DEF Wanted, Builds, Recipes, RunTokens

(* Moving on to another stage keeps the type of the attempts.                *)
LEMMA GoesType ==
  ASSUME attempt \in [Runs -> Attempt], NEW a \in Runs, NEW stage \in Stages,
         Goes(a, stage), stage \notin {"alive", "recipe"}
  PROVE  attempt' \in [Runs -> Attempt]
BY DEF Goes, Attempt

(* Agent installs and host installs are all the runs there are, each of its  *)
(* own binary.                                                               *)
LEMMA RunsSplit ==
  /\ \A a \in Attempts : a \in Runs /\ a \notin Installs /\ Target(a) = "agent"
  /\ \A a \in Installs : a \in Runs /\ a \notin Attempts /\ Target(a) = "host"
  /\ \A a \in Runs : a \in Attempts \/ a \in Installs
BY RunsAssumption DEF Runs, Target

(* The plugin starts with nothing on the machine and no attempt.             *)
LEMMA InitTypes ==
  ASSUME SomeReleases, InstallInit
  PROVE  InstallTypes
<1>1. NoAttempt \in Attempt
  BY DEF NoAttempt, Attempt, Stages, States
<1>2. NoFile \in File
  BY DEF NoFile, File
<1>3. NoAgent \in Agent
  BY DEF NoAgent, Agent
<1>4. 1 \in 1 .. Len(Releases)
  BY DEF SomeReleases
<1> QED BY <1>1, <1>2, <1>3, <1>4 DEF InstallInit, InstallTypes, States

(* A run that begins keeps the types.                                        *)
LEMMA BeginsType ==
  ASSUME InstallTypes, NEW a \in Runs,
         (a \in Attempts /\ Begin(a)) \/ (a \in Installs /\ BeginHost(a))
  PROVE  InstallTypes'
<1>1. PICK stage \in {"state", "look"} :
        attempt' = [attempt EXCEPT ![a] = [NoAttempt EXCEPT !.stage = stage]]
  BY DEF Begin, BeginHost
<1>2. [NoAttempt EXCEPT !.stage = stage] \in Attempt
  BY DEF NoAttempt, Attempt, Stages, States
<1>3. attempt' \in [Runs -> Attempt]
  BY <1>1, <1>2 DEF InstallTypes
<1>4. UNCHANGED <<release, files, token, launch, state, agents>>
  BY DEF Begin, BeginHost
<1>5. ptcHost' \in Installs \cup {None}
  BY DEF Begin, BeginHost
<1> QED BY <1>3, <1>4, <1>5 DEF InstallTypes

(* The steps that look keep the types.                                       *)
LEMMA LooksType ==
  ASSUME InstallTypes, NEW a \in Runs,
         \/ LookState(a) \/ LookAlive(a) \/ LookRecipe(a) \/ LookInstalled(a)
         \/ LookHost(a) \/ Fetch(a)
  PROVE  InstallTypes'
<1>1. attempt \in [Runs -> Attempt] /\ attempt[a] \in Attempt
  BY DEF InstallTypes
<1>2. UNCHANGED <<release, ptcHost, files, token, launch, state, agents>>
  BY DEF LookState, LookAlive, LookRecipe, LookInstalled, LookHost, Fetch
<1>3. attempt' \in [Runs -> Attempt]
  <2>1. CASE LookState(a)
    <3>1. state \in States /\ None \in States
      BY DEF InstallTypes, States
    <3> QED BY <1>1, <2>1, <3>1 DEF LookState, Attempt, Stages
  <2>2. CASE LookAlive(a)
    <3>1. PICK alive \in BOOLEAN : attempt' = [attempt EXCEPT
            ![a].running = IF alive THEN attempt[a].seen.pid ELSE None,
            ![a].stage = IF alive /\ attempt[a].seen.build = Wanted.build THEN "recipe"
                         ELSE "installed"]
      BY <2>2 DEF LookAlive, Alive
    <3>2. attempt[a].seen # None
      BY <1>1, <2>2 DEF LookAlive, At, Attempt
    <3>3. attempt[a].seen.pid \in Pids
      BY <1>1, <3>2 DEF Attempt, States, Publications
    <3> QED BY <1>1, <3>1, <3>2, <3>3 DEF Attempt, Stages
  <2>3. CASE LookRecipe(a)
    <3>1. attempt[a].seen # None
      BY <1>1, <2>3 DEF LookRecipe, At, Attempt
    <3>2. attempt[a].seen.pid \in Pids
      BY <1>1, <3>1 DEF Attempt, States, Publications
    <3> QED BY <1>1, <2>3, <3>1, <3>2 DEF LookRecipe, Goes, Attempt, Stages
  <2>4. CASE LookInstalled(a) \/ LookHost(a) \/ Fetch(a)
    BY <1>1, <2>4, GoesType DEF LookInstalled, LookHost, Fetch, Stages
  <2> QED BY <2>1, <2>2, <2>3, <2>4
<1> QED BY <1>2, <1>3 DEF InstallTypes

(* The steps that write files keep the types.                                *)
LEMMA WritesType ==
  ASSUME InstallTypes, NEW a \in Runs,
         \/ Uploads(a) \/ Move(a) \/ UploadCut(a) \/ Mark(a) \/ WriteToken(a)
         \/ RecordLaunch(a)
  PROVE  InstallTypes'
<1>1. /\ attempt \in [Runs -> Attempt] /\ attempt[a] \in Attempt
      /\ Wanted.build \in Builds /\ Wanted.recipe \in Recipes /\ Wanted.token \in RunTokens
  BY WantedIsListed DEF InstallTypes
<1>2. attempt' \in [Runs -> Attempt]
  BY <1>1, GoesType
     DEF Uploads, Move, UploadCut, Mark, WriteToken, RecordLaunch, Stages
<1>3. UNCHANGED <<release, ptcHost, state, agents>>
  BY DEF Uploads, Move, UploadCut, Mark, WriteToken, RecordLaunch
<1>4. token' \in RunTokens \cup {None} /\ launch' \in Recipes \cup {None}
  BY <1>1 DEF InstallTypes, Uploads, Move, UploadCut, Mark, WriteToken, RecordLaunch
<1>5. files' \in [agent : File, host : File]
  <2> DEFINE t == Target(a)
  <2>1. t \in Targets /\ files \in [agent : File, host : File] /\ files[t] \in File
    BY <1>1 DEF InstallTypes, Target, Targets
  <2>2. \A file \in File : [files EXCEPT ![t] = file] \in [agent : File, host : File]
    BY <2>1 DEF Targets
  <2>3. CASE Uploads(a)
    <3>1. Uploading(files[t], a) \in File
      BY <1>1, <2>1 DEF Uploading, Binary, File, Bins
    <3> QED BY <2>1, <2>2, <2>3, <3>1 DEF Uploads
  <2>4. CASE Move(a)
    <3>1. \A bin \in Bins \cup {None} : Written(bin, a) \in Bins \cup {None}
      BY DEF Written, Bins
    <3>2. Moved(files[t], a) \in File
      BY <2>1, <3>1 DEF Moved, File
    <3> QED BY <2>1, <2>2, <2>4, <3>2 DEF Move
  <2>5. CASE UploadCut(a)
    <3>1. [files[t] EXCEPT !.temp = None, !.bin = files[t].temp] \in File
      BY <2>1 DEF File
    <3> QED BY <2>1, <2>2, <2>5, <3>1 DEF UploadCut
  <2>6. CASE Mark(a)
    BY <1>1, <2>1, <2>6 DEF Mark, File, Targets
  <2>7. CASE WriteToken(a) \/ RecordLaunch(a)
    BY <2>1, <2>7 DEF WriteToken, RecordLaunch
  <2> QED BY <2>3, <2>4, <2>5, <2>6, <2>7
<1> QED BY <1>2, <1>3, <1>4, <1>5 DEF InstallTypes

(* An agent is started from a binary that is there.                          *)
LEMMA StartedType ==
  ASSUME NoneIsNothing, InstallTypes, files.agent.bin # None
  PROVE  [up |-> "starting", build |-> files.agent.bin.build,
          recipe |-> Wanted.recipe, token |-> None] \in Agent
<1>1. files.agent.bin.build \in Builds /\ Wanted.recipe \in Recipes
  BY WantedIsListed DEF InstallTypes, File, Bins
<1> QED BY <1>1 DEF Agent, NoneIsNothing

(* The steps that start, kill and await an agent keep the types.             *)
LEMMA AgentsType ==
  ASSUME NoneIsNothing, InstallTypes, NEW a \in Runs,
         Kill(a) \/ Start(a) \/ Poll(a) \/ TimeOut(a) \/ CommandFails(a)
  PROVE  InstallTypes'
<1>1. attempt \in [Runs -> Attempt] /\ attempt[a] \in Attempt
  BY DEF InstallTypes
<1>2. attempt' \in [Runs -> Attempt]
  <2>1. CASE Poll(a)
    <3>1. state.pid \in Pids
      BY <2>1 DEF Poll, Published, InstallTypes, States, Publications
    <3> QED BY <1>1, <2>1, <3>1 DEF Poll, Attempt, Stages
  <2>2. CASE Kill(a) \/ Start(a) \/ TimeOut(a) \/ CommandFails(a)
    BY <1>1, <2>2, GoesType DEF Kill, Start, TimeOut, CommandFails, Stages
  <2> QED BY <2>1, <2>2
<1>3. UNCHANGED <<release, ptcHost, files, token, launch, state>>
  BY DEF Kill, Start, Poll, TimeOut, CommandFails
<1>4. agents' \in [Pids -> Agent]
  <2>1. agents \in [Pids -> Agent]
    BY DEF InstallTypes
  <2>2. CASE Kill(a)
    BY <2>1, <2>2 DEF Kill, Agent
  <2>3. CASE Start(a)
    <3>1. \/ UNCHANGED agents
          \/ /\ files.agent.bin # None
             /\ agents' = [agents EXCEPT ![CHOOSE p \in FreePids : TRUE] =
                             [up |-> "starting", build |-> files.agent.bin.build,
                              recipe |-> Wanted.recipe, token |-> None]]
      BY <2>3 DEF Start
    <3> QED BY <2>1, <3>1, StartedType
  <2>4. CASE Poll(a) \/ TimeOut(a) \/ CommandFails(a)
    BY <2>1, <2>4 DEF Poll, TimeOut, CommandFails
  <2> QED BY <2>2, <2>3, <2>4
<1> QED BY <1>2, <1>3, <1>4 DEF InstallTypes

(* What happens outside the attempts keeps the types.                        *)
LEMMA AroundType ==
  ASSUME InstallTypes,
         HostStops \/ Upgrade \/ \E p \in Pids : Publish(p) \/ AgentDies(p)
  PROVE  InstallTypes'
<1>1. NoAttempt \in Attempt
  BY DEF NoAttempt, Attempt, Stages, States
<1>2. CASE HostStops
  BY <1>1, <1>2 DEF HostStops, InstallTypes
<1>3. CASE Upgrade
  <2>1. release' \in 1 .. Len(Releases)
    BY <1>3 DEF Upgrade, InstallTypes
  <2> QED BY <1>1, <1>3, <2>1 DEF Upgrade, InstallTypes
<1>4. ASSUME NEW p \in Pids, Publish(p)
      PROVE  InstallTypes'
  <2>1. agents[p] \in Agent /\ agents[p].build \in Builds
    BY <1>4 DEF Publish, InstallTypes, Agent
  <2>2. state' \in States
    BY <1>4, <2>1 DEF Publish, States, Publications
  <2>3. agents' \in [Pids -> Agent]
    BY <1>4, <2>1 DEF Publish, InstallTypes, Agent
  <2> QED BY <1>4, <2>2, <2>3 DEF Publish, InstallTypes
<1>5. ASSUME NEW p \in Pids, AgentDies(p)
      PROVE  InstallTypes'
  BY <1>5 DEF AgentDies, InstallTypes, Agent
<1> QED BY <1>2, <1>3, <1>4, <1>5

(* Every step keeps the types.                                               *)
LEMMA TypesKept ==
  ASSUME NoneIsNothing, InstallTypes, [InstallNext]_installVars
  PROVE  InstallTypes'
<1>1. CASE UNCHANGED installVars
  BY <1>1 DEF installVars, InstallTypes
<1>2. ASSUME NEW a \in Runs,
             \/ a \in Attempts /\ EnsureAgent(a)
             \/ a \in Installs /\ EnsurePtcHost(a)
             \/ UploadCut(a) \/ CommandFails(a)
      PROVE  InstallTypes'
  <2>1. CASE (a \in Attempts /\ Begin(a)) \/ (a \in Installs /\ BeginHost(a))
    BY <2>1, BeginsType
  <2>2. CASE \/ LookState(a) \/ LookAlive(a) \/ LookRecipe(a) \/ LookInstalled(a)
             \/ LookHost(a) \/ Fetch(a)
    BY <2>2, LooksType
  <2>3. CASE \/ Uploads(a) \/ Move(a) \/ UploadCut(a) \/ Mark(a) \/ WriteToken(a)
             \/ RecordLaunch(a)
    BY <2>3, WritesType
  <2>4. CASE Kill(a) \/ Start(a) \/ Poll(a) \/ TimeOut(a) \/ CommandFails(a)
    BY <2>4, AgentsType
  <2> QED BY <1>2, <2>1, <2>2, <2>3, <2>4 DEF EnsureAgent, EnsurePtcHost, Replace
<1> QED BY <1>1, <1>2, AroundType, RunsSplit DEF InstallNext

(* Every variable of the install keeps its type: what each file holds, how   *)
(* far an attempt is and what it has seen, whatever fails (install.ts).      *)
THEOREM InstallTypesHold ==
  ASSUME SomeReleases, NoneIsNothing
  PROVE  InstallSpec => []InstallTypes
<1>1. InstallInit => InstallTypes
  BY InitTypes
<1>2. InstallTypes /\ [InstallNext]_installVars => InstallTypes'
  BY TypesKept
<1> QED BY <1>1, <1>2, PTL DEF InstallSpec

-----------------------------------------------------------------------------
(* The binaries and their markers *)

\* The stages that replace a binary and mark it.
Replacing == {"fetch", "upload", "move", "mark"}

(* A step that leaves the file alone and begins no replacement of it keeps   *)
(* what is known of the file.                                                *)
LEMMA FileStays ==
  ASSUME NEW t \in Targets, FileInv(t), UNCHANGED release, files'[t] = files[t],
         \A b \in Runs : Target(b) = t => \/ attempt'[b] = attempt[b]
                                         \/ attempt'[b].stage \notin Replacing
  PROVE  FileInv(t)'
<1>1. MarkerIsPast(t)' /\ Vouches(t)'
  BY DEF FileInv, MarkerIsPast, Vouches, Wanted
<1>2. StageKnowsFile(t)'
  BY DEF FileInv, StageKnowsFile, Sound, Wanted, Replacing
<1> QED BY <1>1, <1>2 DEF FileInv

(* Deciding to replace a binary: no marker vouches for it.                   *)
LEMMA DecisionKeepsFile ==
  ASSUME NEW t \in Targets, OneReplaces(t), LookIsSure(t), InstallTypes, FileInv(t),
         NEW a \in Runs, Target(a) = t,
         \/ t = "agent" /\ LookInstalled(a)
         \/ t = "host" /\ LookHost(a)
         \/ Fetch(a)
  PROVE  FileInv(t)'
<1>1. a \in Runs /\ attempt[a] \in Attempt /\ attempt \in [Runs -> Attempt]
  BY DEF InstallTypes
<1>2. UNCHANGED <<release, files>>
  BY DEF LookInstalled, LookHost, Fetch
<1>3. MarkerIsPast(t)' /\ Vouches(t)'
  BY <1>2 DEF FileInv, MarkerIsPast, Vouches, Wanted
<1>4. attempt'[a].stage \notin {"move", "mark"}
  BY <1>1 DEF LookInstalled, LookHost, Fetch, Goes, Misses, Attempt
<1>5. attempt'[a].stage \in {"fetch", "upload"} => files[t].marker # Wanted.build
  <2>1. CASE t = "agent" /\ LookInstalled(a)
    BY <1>1, <2>1 DEF LookInstalled, Goes, Misses, Attempt, LookIsSure
  <2>2. CASE t = "host" /\ LookHost(a)
    <3>1. Goes(a, IF files.host.bin # None /\ files.host.marker = Wanted.build
                  THEN "served" ELSE "fetch")
      BY <2>2 DEF LookHost, Misses, LookIsSure
    <3>2. attempt'[a].stage \in {"fetch", "upload"} =>
            ~(files.host.bin # None /\ files.host.marker = Wanted.build)
      BY <1>1, <3>1 DEF Goes, Attempt
    <3> QED BY <2>2, <3>2 DEF FileInv, Vouches
  <2>3. CASE Fetch(a)
    BY <2>3 DEF Fetch, At, FileInv, StageKnowsFile
  <2> QED BY <2>1, <2>2, <2>3
<1>6. StageKnowsFile(t)'
  BY <1>2, <1>4, <1>5 DEF StageKnowsFile, OneReplaces, Wanted
<1> QED BY <1>3, <1>6 DEF FileInv

(* Replacing a binary and marking it: the marker comes last.                 *)
LEMMA ReplacementKeepsFile ==
  ASSUME NEW t \in Targets, OneReplaces(t), NoneIsNothing, InstallTypes, FileInv(t),
         NEW a \in Runs, Target(a) = t, Uploads(a) \/ Move(a) \/ UploadCut(a) \/ Mark(a)
  PROVE  FileInv(t)'
<1>1. /\ a \in Runs /\ attempt[a] \in Attempt /\ attempt \in [Runs -> Attempt]
      /\ files \in [agent : File, host : File] /\ files[t] \in File
      /\ release \in 1 .. Len(Releases)
  BY DEF InstallTypes, Targets
<1>2. release' = release /\ Wanted' = Wanted
  BY DEF Uploads, Move, UploadCut, Mark, Wanted
<1>3. CASE Uploads(a)
  <2>1. /\ files'[t] = Uploading(files[t], a) /\ At(a, "upload")
        /\ attempt'[a].stage = "move"
    BY <1>1, <1>3 DEF Uploads, Goes, Targets
  <2>2. /\ files'[t].bin = files[t].bin /\ files'[t].marker = files[t].marker
        /\ files'[t].temp = Binary(Wanted.build, FALSE, a)
    BY <1>1, <2>1 DEF Uploading, File
  <2>3. MarkerIsPast(t)' /\ Vouches(t)'
    BY <1>2, <2>2 DEF FileInv, MarkerIsPast, Vouches
  <2>4. files[t].marker # Wanted.build
    BY <2>1 DEF FileInv, StageKnowsFile, At
  <2>5. StageKnowsFile(t)'
    BY <1>2, <2>1, <2>2, <2>4 DEF StageKnowsFile, OneReplaces, Binary
  <2> QED BY <2>3, <2>5 DEF FileInv
<1>4. CASE Move(a) \/ UploadCut(a)
  <2>1. At(a, "move") /\ attempt'[a].stage \in {"mark", "failed"}
    BY <1>1, <1>4 DEF Move, UploadCut, Goes, Attempt
  <2>2. files[t].marker # Wanted.build
    BY <2>1 DEF FileInv, StageKnowsFile, At
  <2>3. \/ files'[t] = Moved(files[t], a)
        \/ files'[t] = [files[t] EXCEPT !.temp = None, !.bin = files[t].temp]
    BY <1>1, <1>4 DEF Move, UploadCut, Targets
  <2>4. files'[t].marker = files[t].marker
    BY <1>1, <2>3 DEF Moved, File
  <2>5. MarkerIsPast(t)' /\ Vouches(t)'
    BY <1>2, <2>2, <2>4 DEF FileInv, MarkerIsPast, Vouches
  <2>6. attempt'[a].stage = "mark" => Sound(files[t])'
    <3>1. SUFFICES ASSUME attempt'[a].stage = "mark" PROVE Sound(files[t])'
      OBVIOUS
    <3>2. files[t].temp # None /\ files'[t] = Moved(files[t], a)
      BY <1>1, <1>4, <3>1 DEF Move, UploadCut, Goes, Targets, Attempt
    <3>3. files[t].temp.by = a /\ files[t].temp.build = Wanted.build
      BY <2>1, <3>2 DEF FileInv, StageKnowsFile, At
    <3>4. files[t].temp \in Bins
      BY <1>1, <3>2 DEF File
    <3>5. files'[t].bin = [files[t].temp EXCEPT !.whole = TRUE]
      BY <1>1, <3>2, <3>3, <3>4 DEF Moved, Written, File
    <3>6. /\ files'[t].bin \in Bins /\ files'[t].bin.whole
          /\ files'[t].bin.build = Wanted.build
      BY <3>3, <3>4, <3>5 DEF Bins
    <3> QED BY <1>2, <3>6 DEF Sound, NoneIsNothing
  <2>7. StageKnowsFile(t)'
    BY <1>2, <2>1, <2>6 DEF StageKnowsFile, OneReplaces
  <2> QED BY <2>5, <2>7 DEF FileInv
<1>5. CASE Mark(a)
  <2>1. Sound(files[t]) /\ attempt'[a].stage \in {"token", "served"}
    BY <1>1, <1>5 DEF Mark, Goes, At, FileInv, StageKnowsFile
  <2>2. /\ files'[t].bin = files[t].bin /\ files'[t].marker = Wanted.build
        /\ files'[t].temp = files[t].temp
    BY <1>1, <1>5 DEF Mark, Targets, File
  <2>3. MarkerIsPast(t)'
    BY <1>1, <1>2, <2>2 DEF MarkerIsPast, Wanted
  <2>4. Vouches(t)'
    BY <1>2, <2>1, <2>2 DEF Vouches, Sound
  <2>5. StageKnowsFile(t)'
    BY <1>2, <2>1 DEF StageKnowsFile, OneReplaces
  <2> QED BY <2>3, <2>4, <2>5 DEF FileInv
<1> QED BY <1>3, <1>4, <1>5

(* An upgrade that wants the build a marker names wants the one before it.   *)
LEMMA UpgradeKeepsFile ==
  ASSUME NEW t \in Targets, SomeReleases, NoneIsNothing, BuildsMoveOn, InstallTypes,
         FileInv(t), Upgrade
  PROVE  FileInv(t)'
<1>1. /\ release \in 1 .. Len(Releases) /\ release' = release + 1
      /\ release' \in 1 .. Len(Releases) /\ files' = files
  BY DEF InstallTypes, Upgrade, SomeReleases
<1>2. MarkerIsPast(t)'
  BY <1>1 DEF FileInv, MarkerIsPast, InstallTypes, SomeReleases
<1>3. ASSUME files[t].marker = Releases[release + 1].build, files[t].marker # None
      PROVE  Releases[release].build = Releases[release + 1].build
  <2>1. PICK i \in 1 .. release : files[t].marker = Releases[i].build
    BY <1>3 DEF FileInv, MarkerIsPast
  <2>2. /\ i \in 1 .. Len(Releases) /\ i <= release /\ release <= release + 1
        /\ Releases[i].build = Releases[release + 1].build
    BY <1>1, <1>3, <2>1 DEF SomeReleases
  <2> QED BY <1>1, <2>2 DEF BuildsMoveOn
<1>4. Releases[release + 1].build # None
  BY <1>1 DEF NoneIsNothing, Builds
<1>5. Vouches(t)'
  BY <1>1, <1>3, <1>4 DEF FileInv, Vouches, Wanted
<1>6. StageKnowsFile(t)'
  BY DEF Upgrade, StageKnowsFile, NoAttempt
<1> QED BY <1>2, <1>5, <1>6 DEF FileInv

(* The steps of a run that replace nothing: looks, the token, the agents.    *)
LEMMA OthersKeepFile ==
  ASSUME NEW t \in Targets, InstallTypes, FileInv(t), NEW a \in Runs,
         \/ Begin(a) \/ BeginHost(a) \/ LookState(a) \/ LookAlive(a) \/ LookRecipe(a)
         \/ WriteToken(a) \/ Kill(a) \/ Start(a) \/ Poll(a) \/ TimeOut(a)
         \/ RecordLaunch(a) \/ CommandFails(a)
  PROVE  FileInv(t)'
<1>1. attempt \in [Runs -> Attempt] /\ attempt[a] \in Attempt
  BY DEF InstallTypes
<1>2. UNCHANGED <<release, files>>
  BY DEF Begin, BeginHost, LookState, LookAlive, LookRecipe, WriteToken, Kill, Start, Poll,
         TimeOut, RecordLaunch, CommandFails
<1>3. /\ \A b \in Runs \ {a} : attempt'[b] = attempt[b]
      /\ attempt'[a].stage \notin Replacing
  <2>1. CASE Begin(a) \/ BeginHost(a)
    BY <1>1, <2>1 DEF Begin, BeginHost, NoAttempt, Replacing
  <2>2. CASE LookState(a)
    <3>1. PICK seen : attempt' = [attempt EXCEPT ![a].seen = seen,
                        ![a].stage = IF seen = None THEN "installed" ELSE "alive"]
      BY <2>2 DEF LookState
    <3> QED BY <1>1, <3>1 DEF Attempt, Replacing
  <2>3. CASE LookAlive(a)
    <3>1. PICK alive \in BOOLEAN : attempt' = [attempt EXCEPT
            ![a].running = IF alive THEN attempt[a].seen.pid ELSE None,
            ![a].stage = IF alive /\ attempt[a].seen.build = Wanted.build THEN "recipe"
                         ELSE "installed"]
      BY <2>3 DEF LookAlive, Alive
    <3> QED BY <1>1, <3>1 DEF Attempt, Replacing
  <2>4. CASE LookRecipe(a)
    BY <1>1, <2>4 DEF LookRecipe, Goes, Attempt, Replacing
  <2>5. CASE Poll(a)
    BY <1>1, <2>5 DEF Poll, Attempt, Replacing
  <2>6. CASE \/ WriteToken(a) \/ Kill(a) \/ Start(a) \/ TimeOut(a) \/ RecordLaunch(a)
             \/ CommandFails(a)
    <3>1. PICK stage \in {"start", "kill", "poll", "served", "failed"} : Goes(a, stage)
      BY <2>6 DEF WriteToken, Kill, Start, TimeOut, RecordLaunch, CommandFails
    <3> QED BY <1>1, <3>1 DEF Goes, Attempt, Replacing
  <2> QED BY <2>1, <2>2, <2>3, <2>4, <2>5, <2>6
<1>4. \A b \in Runs : attempt'[b] = attempt[b] \/ attempt'[b].stage \notin Replacing
  BY <1>1, <1>3
<1> QED BY <1>2, <1>4, FileStays

(* A run that replaces the other binary leaves this one alone.               *)
LEMMA ElsewhereKeepsFile ==
  ASSUME NEW t \in Targets, InstallTypes, FileInv(t), NEW a \in Runs, Target(a) # t,
         \/ LookInstalled(a) \/ LookHost(a) \/ Replace(a) \/ UploadCut(a)
  PROVE  FileInv(t)'
<1>1. attempt \in [Runs -> Attempt] /\ files \in [agent : File, host : File]
  BY DEF InstallTypes
<1>2. UNCHANGED release
  BY DEF LookInstalled, LookHost, Replace, Fetch, Uploads, Move, Mark, UploadCut
<1>3. files'[t] = files[t]
  BY <1>1 DEF LookInstalled, LookHost, Replace, Fetch, Uploads, Move, Mark, UploadCut,
              Targets
<1>4. \E stage : Goes(a, stage)
  BY DEF LookInstalled, LookHost, Replace, Fetch, Uploads, Move, Mark, UploadCut
<1>5. \A b \in Runs : Target(b) = t => attempt'[b] = attempt[b]
  BY <1>1, <1>4 DEF Goes
<1> QED BY <1>2, <1>3, <1>5, FileStays

(* No step leaves a marker that vouches for something else than it says.     *)
LEMMA FileInvKept ==
  ASSUME NEW t \in Targets, OneReplaces(t), LookIsSure(t), SomeReleases, NoneIsNothing,
         BuildsMoveOn, InstallTypes, FileInv(t), [InstallNext]_installVars
  PROVE  FileInv(t)'
<1>1. CASE UNCHANGED installVars
  BY <1>1, FileStays DEF installVars
<1>2. CASE HostStops \/ \E p \in Pids : Publish(p) \/ AgentDies(p)
  <2>1. UNCHANGED <<release, files>>
    BY <1>2 DEF HostStops, Publish, AgentDies
  <2>2. \A b \in Runs : attempt'[b] = attempt[b] \/ attempt'[b] = NoAttempt
    BY <1>2 DEF HostStops, Publish, AgentDies
  <2> QED BY <2>1, <2>2, FileStays DEF NoAttempt, Replacing
<1>3. CASE Upgrade
  BY <1>3, UpgradeKeepsFile
<1>4. ASSUME NEW a \in Runs,
             \/ a \in Attempts /\ EnsureAgent(a)
             \/ a \in Installs /\ EnsurePtcHost(a)
             \/ UploadCut(a) \/ CommandFails(a)
      PROVE  FileInv(t)'
  <2>1. CASE \/ Begin(a) \/ BeginHost(a) \/ LookState(a) \/ LookAlive(a) \/ LookRecipe(a)
             \/ WriteToken(a) \/ Kill(a) \/ Start(a) \/ Poll(a) \/ TimeOut(a)
             \/ RecordLaunch(a) \/ CommandFails(a)
    BY <2>1, OthersKeepFile
  <2>2. CASE /\ \/ a \in Attempts /\ LookInstalled(a)
                \/ a \in Installs /\ LookHost(a)
                \/ Replace(a) \/ UploadCut(a)
    <3>1. CASE Target(a) # t
      BY <2>2, <3>1, ElsewhereKeepsFile
    <3>2. CASE Target(a) = t
      BY <2>2, <3>2, DecisionKeepsFile, ReplacementKeepsFile, RunsSplit DEF Replace
    <3> QED BY <3>1, <3>2
  <2> QED BY <1>4, <2>1, <2>2 DEF EnsureAgent, EnsurePtcHost
<1> QED BY <1>1, <1>2, <1>3, <1>4, RunsSplit DEF InstallNext

(* Nothing is on the machine to begin with.                                  *)
LEMMA InitFile ==
  ASSUME NEW t \in Targets, SomeReleases, NoneIsNothing, InstallInit
  PROVE  FileInv(t)
<1>1. files[t].marker = None
  BY DEF InstallInit, NoFile, Targets
<1>2. \A a \in Runs : attempt[a].stage = "idle"
  BY DEF InstallInit, NoAttempt
<1>3. Wanted.build # None
  BY InitTypes, WantedIsListed DEF InstallTypes, NoneIsNothing
<1> QED BY <1>1, <1>2, <1>3 DEF FileInv, MarkerIsPast, StageKnowsFile, Vouches

(* The agent's marker of the build the plugin wants stands beside a whole    *)
(* binary of it, however uploads, moves and markers fail or are cut off and  *)
(* the plugin stops between them (install.ts UPLOAD_BINARY, WRITE_INSTALLED);*)
(* for one agent install at a time, beside any number of the host's, whose   *)
(* look at the marker does not fail, and releases that do not go back to a   *)
(* build they left.                                                          *)
THEOREM AgentMarkerVouches ==
  ASSUME OneAttempt, "installed" \notin MayFail, SomeReleases, NoneIsNothing, BuildsMoveOn
  PROVE  InstallSpec => []AgentMarkerMeansWhole
<1>1. OneReplaces("agent")
  BY RunsSplit DEF OneReplaces, OneAttempt
<1>2. LookIsSure("agent") /\ "agent" \in Targets
  BY DEF LookIsSure, Targets
<1>3. InstallInit => InstallTypes /\ FileInv("agent")
  BY <1>2, InitTypes, InitFile
<1>4. InstallTypes /\ FileInv("agent") /\ [InstallNext]_installVars
        => (InstallTypes /\ FileInv("agent"))'
  BY <1>1, <1>2, TypesKept, FileInvKept
<1>5. FileInv("agent") => AgentMarkerMeansWhole
  BY DEF FileInv, AgentMarkerMeansWhole
<1> QED BY <1>3, <1>4, <1>5, PTL DEF InstallSpec

(* The same of the program host's marker (UPLOAD_PTC_HOST, WRITE_PTC_HOST),  *)
(* for one install of it at a time, which the manager does not see to        *)
(* (machines.ts ptcHostFor), whose look at the marker does not fail.         *)
THEOREM HostMarkerVouches ==
  ASSUME OneInstall, "look" \notin MayFail, SomeReleases, NoneIsNothing, BuildsMoveOn
  PROVE  InstallSpec => []HostMarkerMeansWhole
<1>1. OneReplaces("host")
  BY RunsSplit DEF OneReplaces, OneInstall
<1>2. LookIsSure("host") /\ "host" \in Targets
  BY DEF LookIsSure, Targets
<1>3. InstallInit => InstallTypes /\ FileInv("host")
  BY <1>2, InitTypes, InitFile
<1>4. InstallTypes /\ FileInv("host") /\ [InstallNext]_installVars
        => (InstallTypes /\ FileInv("host"))'
  BY <1>1, <1>2, TypesKept, FileInvKept
<1>5. FileInv("host") => HostMarkerMeansWhole
  BY DEF FileInv, HostMarkerMeansWhole
<1> QED BY <1>3, <1>4, <1>5, PTL DEF InstallSpec

(* Both at once, under the premises of both (install.ts).                    *)
THEOREM MarkersVouch ==
  ASSUME OneAttempt, OneInstall, {"installed", "look"} \cap MayFail = {},
         SomeReleases, NoneIsNothing, BuildsMoveOn
  PROVE  InstallSpec => []MarkerMeansWhole
<1>1. "installed" \notin MayFail /\ "look" \notin MayFail
  OBVIOUS
<1>2. AgentMarkerMeansWhole /\ HostMarkerMeansWhole => MarkerMeansWhole
  BY DEF MarkerMeansWhole
<1> QED BY <1>1, <1>2, AgentMarkerVouches, HostMarkerVouches, PTL

-----------------------------------------------------------------------------
(* The agents and their publications *)

(* A step of the attempt that touches no agent and none of the files that    *)
(* name one keeps the invariant when the attempt still knows what it did.    *)
LEMMA AttemptMoves ==
  ASSUME OneAttempt, AgentInv, NEW a \in Attempts, Knows(a)',
         UNCHANGED <<release, token, launch, state, agents>>
  PROVE  AgentInv'
<1>1. \A b \in Attempts : Knows(b)'
  <2> SUFFICES ASSUME NEW b \in Attempts PROVE Knows(b)'
    OBVIOUS
  <2>1. b = a
    BY DEF OneAttempt
  <2> QED BY <2>1
<1>2. (TokensAgree /\ StartsAreCurrent /\ StateIsAgents /\ LaunchIsOlder)'
  BY DEF AgentInv, TokensAgree, StartsAreCurrent, StateIsAgents, LaunchIsOlder, Wanted
<1> QED BY <1>1, <1>2 DEF AgentInv

(* Moving on to a stage that answers nothing keeps what the attempt knows.   *)
LEMMA GoesOn ==
  ASSUME InstallTypes, AgentInv, NEW a \in Attempts, NEW stage \in Stages, Goes(a, stage),
         UNCHANGED <<release, token, launch, state, agents>>,
         stage \notin {"alive", "recipe", "kill", "start", "poll", "record"},
         stage # "served", stage \in Busy => attempt[a].stage \in Busy
  PROVE  Knows(a)'
<1>1. a \in Runs /\ attempt[a] \in Attempt /\ attempt \in [Runs -> Attempt] /\ Knows(a)
  BY RunsSplit DEF InstallTypes, AgentInv
<1>2. attempt'[a].stage = stage /\ attempt'[a].seen = attempt[a].seen
  BY <1>1 DEF Goes, Attempt
<1>3. KnowsToken(a)'
  BY <1>1, <1>2 DEF Knows, KnowsToken, Wanted
<1>4. KnowsState(a)'
  BY <1>1, <1>2 DEF Knows, KnowsState, Wanted
<1>5. KnowsAnswer(a)'
  BY <1>1, <1>2 DEF KnowsAnswer, Answered, At
<1> QED BY <1>3, <1>4, <1>5 DEF Knows

(* What state.json says now can be believed: its agent's build, and its      *)
(* recipe when the launch record is of the recipe the plugin wants.          *)
LEMMA StateTells ==
  ASSUME SomeReleases, NoneIsNothing, RecipesMoveOn, InstallTypes, AgentInv,
         state # None
  PROVE  /\ agents[state.pid].build = state.build
         /\ agents[state.pid].token = Wanted.token
         /\ launch = Wanted.recipe => agents[state.pid].recipe = Wanted.recipe
<1>1. agents[state.pid].build = state.build /\ agents[state.pid].token = Wanted.token
  BY DEF AgentInv, StateIsAgents, TokensAgree
<1>2. ASSUME launch = Wanted.recipe
      PROVE  agents[state.pid].recipe = Wanted.recipe
  <2> launch # None
    BY <1>2, WantedIsListed DEF InstallTypes, NoneIsNothing
  <2>1. PICK i \in 1 .. release, j \in 1 .. release :
          /\ i <= j /\ launch = Releases[i].recipe
          /\ agents[state.pid].recipe = Releases[j].recipe
    BY <1>2 DEF AgentInv, LaunchIsOlder
  <2>2. /\ release \in 1 .. Len(Releases) /\ i \in 1 .. Len(Releases)
        /\ j \in 1 .. Len(Releases) /\ j <= release
        /\ Releases[i].recipe = Releases[release].recipe
    BY <1>2, <2>1 DEF InstallTypes, SomeReleases, Wanted
  <2>3. Releases[j].recipe = Releases[release].recipe
    BY <2>1, <2>2 DEF RecipesMoveOn
  <2> QED BY <2>1, <2>3 DEF Wanted
<1> QED BY <1>1, <1>2

(* The looks of ensureAgent: what they find is what there is.                *)
LEMMA LooksKeepAgents ==
  ASSUME OneAttempt, SomeReleases, NoneIsNothing, RecipesMoveOn, "state" \notin MayFail,
         InstallTypes, AgentInv, NEW a \in Attempts,
         Begin(a) \/ LookState(a) \/ LookAlive(a) \/ LookRecipe(a) \/ Poll(a)
  PROVE  AgentInv'
<1>1. /\ a \in Runs /\ attempt[a] \in Attempt /\ attempt \in [Runs -> Attempt] /\ Knows(a)
      /\ state \in States
  BY RunsSplit DEF InstallTypes, AgentInv
<1>2. UNCHANGED <<release, token, launch, state, agents>>
  BY DEF Begin, LookState, LookAlive, LookRecipe, Poll
<1>3. CASE Begin(a)
  <2>1. attempt'[a].stage = "state" /\ attempt'[a].seen = None
    BY <1>1, <1>3 DEF Begin, NoAttempt
  <2>2. Knows(a)'
    BY <2>1 DEF Knows, KnowsToken, KnowsState, KnowsAnswer, Answered, At, Busy
  <2> QED BY <1>2, <2>2, AttemptMoves
<1>4. CASE LookState(a)
  <2>1. /\ attempt'[a].seen = state
        /\ attempt'[a].stage \in {"alive", "installed"}
        /\ attempt'[a].stage = "alive" => state # None
    BY <1>1, <1>4 DEF LookState, Misses, Attempt
  <2>2. KnowsToken(a)'
    BY <1>2, <2>1, StateTells DEF KnowsToken, Wanted
  <2>3. KnowsState(a)'
    BY <1>2, <2>1, StateTells DEF KnowsState, Wanted
  <2>4. KnowsAnswer(a)'
    BY <2>1 DEF KnowsAnswer, Answered, At
  <2> QED BY <1>2, <2>2, <2>3, <2>4, AttemptMoves DEF Knows
<1>5. CASE LookAlive(a)
  <2>1. PICK alive \in BOOLEAN : attempt' = [attempt EXCEPT
          ![a].running = IF alive THEN attempt[a].seen.pid ELSE None,
          ![a].stage = IF alive /\ attempt[a].seen.build = Wanted.build THEN "recipe"
                       ELSE "installed"]
    BY <1>5 DEF LookAlive, Alive
  <2>2. /\ attempt'[a].stage \in {"recipe", "installed"}
        /\ attempt'[a].stage = "recipe" => attempt[a].seen.build = Wanted.build
        /\ attempt'[a].seen = attempt[a].seen
        /\ attempt[a].stage = "alive"
    BY <1>1, <1>5, <2>1 DEF Attempt, LookAlive, At
  <2>3. KnowsToken(a)'
    BY <1>1, <1>2, <2>2 DEF Knows, KnowsToken, Wanted
  <2>4. KnowsState(a)'
    BY <1>1, <1>2, <2>2 DEF Knows, KnowsState, Wanted, Busy
  <2>5. KnowsAnswer(a)'
    BY <2>2 DEF KnowsAnswer, Answered, At
  <2> QED BY <1>2, <2>3, <2>4, <2>5, AttemptMoves DEF Knows
<1>6. CASE LookRecipe(a)
  <2>1. CASE Goes(a, "installed")
    <3>1. attempt[a].stage \in Busy
      BY <1>6 DEF LookRecipe, At, Busy
    <3>2. Knows(a)'
      BY <1>2, <2>1, <3>1, GoesOn DEF Stages
    <3> QED BY <1>2, <3>2, AttemptMoves
  <2>2. CASE ~Goes(a, "installed")
    <3>1. /\ launch = Wanted.recipe
          /\ attempt' = [attempt EXCEPT ![a].stage = "served",
                                        ![a].pid = attempt[a].seen.pid]
          /\ attempt[a].stage = "recipe"
      BY <1>6, <2>2 DEF LookRecipe, Reuses, Goes, At
    <3>2. /\ attempt'[a].stage = "served" /\ attempt'[a].seen = attempt[a].seen
          /\ attempt'[a].pid = attempt[a].seen.pid
      BY <1>1, <3>1 DEF Attempt
    <3>3. /\ attempt[a].seen # None
          /\ agents[attempt[a].seen.pid].build = Wanted.build
          /\ agents[attempt[a].seen.pid].recipe = Wanted.recipe
          /\ agents[attempt[a].seen.pid].token = Wanted.token
      BY <1>1, <3>1 DEF Knows, KnowsState, KnowsToken
    <3>4. attempt[a].seen.pid # None
      BY <1>1, <3>3, PidsAssumption DEF Attempt, States, Publications
    <3>5. KnowsToken(a)' /\ KnowsState(a)'
      BY <1>1, <1>2, <3>2, <3>3 DEF Knows, KnowsToken, KnowsState, Wanted, Busy
    <3>6. KnowsAnswer(a)'
      BY <1>2, <3>2, <3>3, <3>4 DEF KnowsAnswer, Wanted
    <3> QED BY <1>2, <3>5, <3>6, AttemptMoves DEF Knows
  <2> QED BY <2>1, <2>2
<1>7. CASE Poll(a)
  <2>1. /\ state # None /\ state.build = Wanted.build
        /\ attempt[a].seen # None => state.pid # attempt[a].seen.pid
        /\ attempt[a].stage = "poll"
        /\ attempt' = [attempt EXCEPT ![a].stage = "record", ![a].pid = state.pid]
    BY <1>7 DEF Poll, Published, At
  <2>2. /\ attempt'[a].stage = "record" /\ attempt'[a].seen = attempt[a].seen
        /\ attempt'[a].pid = state.pid
    BY <1>1, <2>1 DEF Attempt
  <2>3. agents[state.pid].recipe = Wanted.recipe
    BY <1>1, <2>1, <2>2 DEF Knows, KnowsState, Busy
  <2>4. state.pid # None
    BY <1>1, <2>1, PidsAssumption DEF States, Publications
  <2>5. KnowsToken(a)' /\ KnowsState(a)'
    BY <1>1, <1>2, <2>1, <2>2 DEF Knows, KnowsToken, KnowsState, Wanted, Busy
  <2>6. KnowsAnswer(a)'
    BY <1>2, <2>1, <2>2, <2>3, <2>4, StateTells DEF KnowsAnswer, Wanted
  <2> QED BY <1>2, <2>5, <2>6, AttemptMoves DEF Knows
<1> QED BY <1>3, <1>4, <1>5, <1>6, <1>7

(* The steps on the files leave the agents and what is known of them alone.  *)
LEMMA FilesKeepAgents ==
  ASSUME OneAttempt, InstallTypes, AgentInv, NEW a \in Attempts,
         \/ LookInstalled(a) \/ Fetch(a) \/ Uploads(a) \/ Move(a) \/ UploadCut(a)
         \/ Mark(a) \/ TimeOut(a) \/ CommandFails(a)
  PROVE  AgentInv'
<1>1. UNCHANGED <<release, token, launch, state, agents>>
  BY DEF LookInstalled, Fetch, Uploads, Move, UploadCut, Mark, TimeOut, CommandFails
<1>2. PICK stage \in {"token", "fetch", "upload", "move", "failed", "mark"} :
        Goes(a, stage) /\ (stage \in Busy => attempt[a].stage \in Busy)
  BY DEF LookInstalled, Fetch, Uploads, Move, UploadCut, Mark, TimeOut, CommandFails,
         At, Busy
<1>3. Knows(a)'
  BY <1>1, <1>2, GoesOn DEF Stages
<1> QED BY <1>1, <1>3, AttemptMoves

(* So do the runs of the program host's install, all of them.                *)
LEMMA HostKeepsAgents ==
  ASSUME InstallTypes, AgentInv, NEW a \in Installs,
         EnsurePtcHost(a) \/ UploadCut(a) \/ CommandFails(a)
  PROVE  AgentInv'
<1>1. UNCHANGED <<release, token, launch, state, agents>>
  BY DEF EnsurePtcHost, Replace, BeginHost, LookHost, Fetch, Uploads, Move, UploadCut, Mark,
         CommandFails
<1>2. ASSUME NEW b \in Attempts
      PROVE  attempt'[b] = attempt[b]
  <2>1. a # b
    BY RunsSplit
  <2>2. \E x : attempt' = [attempt EXCEPT ![a] = x]
    BY DEF EnsurePtcHost, Replace, BeginHost, LookHost, Fetch, Uploads, Move, UploadCut,
           Mark, CommandFails, Goes, InstallTypes
  <2> QED BY <2>1, <2>2, RunsSplit DEF InstallTypes
<1>3. \A b \in Attempts : Knows(b)'
  <2> SUFFICES ASSUME NEW b \in Attempts PROVE Knows(b)'
    OBVIOUS
  <2>1. attempt'[b] = attempt[b] /\ Knows(b)
    BY <1>2 DEF AgentInv
  <2> QED BY <1>1, <2>1
          DEF Knows, KnowsToken, KnowsState, KnowsAnswer, Answered, At, Wanted, Busy
<1>4. (TokensAgree /\ StartsAreCurrent /\ StateIsAgents /\ LaunchIsOlder)'
  BY <1>1 DEF AgentInv, TokensAgree, StartsAreCurrent, StateIsAgents, LaunchIsOlder, Wanted
<1> QED BY <1>3, <1>4 DEF AgentInv

(* An agent that dies stays what it was started as.                          *)
LEMMA DeathTells ==
  ASSUME InstallTypes, AgentInv, NEW p, agents' = [agents EXCEPT ![p].up = "gone"]
  PROVE  \A q \in Pids : /\ agents'[q].build = agents[q].build
                         /\ agents'[q].recipe = agents[q].recipe
                         /\ agents'[q].token = agents[q].token
                         /\ agents'[q].up = "starting" => agents[q].up = "starting"
BY DEF InstallTypes, Agent

(* While the agents there are keep what they were started as, what is known  *)
(* of them stays known.                                                      *)
LEMMA SameAgents ==
  ASSUME InstallTypes, AgentInv, UNCHANGED <<release, token, launch, state>>,
         \A q \in Pids : /\ agents'[q].build = agents[q].build
                         /\ agents'[q].recipe = agents[q].recipe
                         /\ agents'[q].token = agents[q].token
                         /\ agents'[q].up = "starting" => agents[q].up = "starting"
  PROVE  /\ (TokensAgree /\ StartsAreCurrent /\ StateIsAgents /\ LaunchIsOlder)'
         /\ \A a \in Attempts : attempt'[a] = attempt[a] => Knows(a)'
<1>1. /\ state # None => state.pid \in Pids
      /\ \A a \in Attempts : attempt[a].seen # None => attempt[a].seen.pid \in Pids
      /\ \A a \in Attempts : attempt[a].pid # None => attempt[a].pid \in Pids
  BY RunsSplit DEF InstallTypes, States, Publications, Attempt
<1>2. (TokensAgree /\ StartsAreCurrent)'
  BY <1>1 DEF AgentInv, TokensAgree, StartsAreCurrent, Wanted
<1>3. (StateIsAgents /\ LaunchIsOlder)'
  BY <1>1 DEF AgentInv, StateIsAgents, LaunchIsOlder
<1>4. ASSUME NEW a \in Attempts, attempt'[a] = attempt[a]
      PROVE  Knows(a)'
  <2>1. Knows(a)
    BY DEF AgentInv
  <2>2. KnowsToken(a)'
    BY <1>1, <1>4, <2>1 DEF Knows, KnowsToken, Wanted
  <2>3. KnowsState(a)'
    BY <1>1, <1>4, <2>1 DEF Knows, KnowsState, Wanted, Busy
  <2>4. KnowsAnswer(a)'
    BY <1>1, <1>4, <2>1 DEF Knows, KnowsAnswer, Answered, At, Wanted
  <2> QED BY <2>2, <2>3, <2>4 DEF Knows
<1> QED BY <1>2, <1>3, <1>4

(* Writing the token and replacing the agent, and recording how it started.  *)
LEMMA WriteTokenKeepsAgents ==
  ASSUME OneAttempt, InstallTypes, AgentInv, NEW a \in Attempts, WriteToken(a)
  PROVE  AgentInv'
<1>1. a \in Runs /\ attempt[a] \in Attempt /\ attempt \in [Runs -> Attempt] /\ Knows(a)
  BY RunsSplit DEF InstallTypes, AgentInv
<1>2. /\ attempt[a].stage = "token" /\ attempt'[a].stage \in {"start", "kill"}
      /\ attempt'[a].seen = attempt[a].seen
      /\ token' = Wanted.token
      /\ UNCHANGED <<release, launch, state, agents>>
  BY <1>1 DEF WriteToken, Goes, At, Attempt
<1>3. (TokensAgree /\ StartsAreCurrent /\ StateIsAgents /\ LaunchIsOlder)'
  BY <1>2 DEF AgentInv, TokensAgree, StartsAreCurrent, StateIsAgents, LaunchIsOlder, Wanted
<1>4. KnowsToken(a)' /\ KnowsState(a)' /\ KnowsAnswer(a)'
  BY <1>1, <1>2 DEF Knows, KnowsToken, KnowsState, KnowsAnswer, Answered, At, Wanted, Busy
<1>5. \A b \in Attempts : Knows(b)'
  <2> SUFFICES ASSUME NEW b \in Attempts PROVE Knows(b)'
    OBVIOUS
  <2> QED BY <1>4 DEF OneAttempt, Knows
<1> QED BY <1>3, <1>5 DEF AgentInv

LEMMA KillKeepsAgents ==
  ASSUME OneAttempt, InstallTypes, AgentInv, NEW a \in Attempts, Kill(a)
  PROVE  AgentInv'
<1>1. a \in Runs /\ attempt[a] \in Attempt /\ attempt \in [Runs -> Attempt] /\ Knows(a)
  BY RunsSplit DEF InstallTypes, AgentInv
<1>2. /\ attempt[a].stage = "kill" /\ attempt'[a].stage = "start"
      /\ attempt'[a].seen = attempt[a].seen
      /\ UNCHANGED <<release, token, launch, state>>
  BY <1>1 DEF Kill, Goes, At, Attempt
<1>3. \A q \in Pids : /\ agents'[q].build = agents[q].build
                      /\ agents'[q].recipe = agents[q].recipe
                      /\ agents'[q].token = agents[q].token
                      /\ agents'[q].up = "starting" => agents[q].up = "starting"
  BY DeathTells DEF Kill
<1>4. (TokensAgree /\ StartsAreCurrent /\ StateIsAgents /\ LaunchIsOlder)'
  BY <1>2, <1>3, SameAgents
<1>5. /\ state # None => state.pid \in Pids
      /\ attempt[a].seen # None => attempt[a].seen.pid \in Pids
  BY <1>1 DEF InstallTypes, States, Publications, Attempt
<1>6. KnowsToken(a)' /\ KnowsState(a)' /\ KnowsAnswer(a)'
  BY <1>1, <1>2, <1>3, <1>5
     DEF Knows, KnowsToken, KnowsState, KnowsAnswer, Answered, At, Wanted, Busy
<1>7. \A b \in Attempts : Knows(b)'
  <2> SUFFICES ASSUME NEW b \in Attempts PROVE Knows(b)'
    OBVIOUS
  <2> QED BY <1>6 DEF OneAttempt, Knows
<1> QED BY <1>4, <1>7 DEF AgentInv

(* A start takes a process nothing names, and gives it this release's        *)
(* recipe behind the token it will read.                                     *)
LEMMA StartKeepsAgents ==
  ASSUME OneAttempt, InstallTypes, AgentInv, NEW a \in Attempts, Start(a)
  PROVE  AgentInv'
<1>1. /\ a \in Runs /\ attempt[a] \in Attempt /\ attempt \in [Runs -> Attempt] /\ Knows(a)
      /\ agents \in [Pids -> Agent]
  BY RunsSplit DEF InstallTypes, AgentInv
<1>2. /\ attempt[a].stage = "start" /\ attempt'[a].stage = "poll"
      /\ attempt'[a].seen = attempt[a].seen
      /\ UNCHANGED <<release, token, launch, state>>
  BY <1>1 DEF Start, Goes, At, Attempt
<1>3. token = Wanted.token
  BY <1>1, <1>2 DEF Knows, KnowsToken
<1>4. \A q \in Pids : \/ agents'[q] = agents[q]
                      \/ q \in FreePids /\ agents'[q].recipe = Wanted.recipe
  <2> DEFINE p == CHOOSE p \in FreePids : TRUE
  <2>1. CASE UNCHANGED agents
    BY <2>1
  <2>2. CASE FreePids # {} /\ agents' = [agents EXCEPT ![p] =
                                [up |-> "starting", build |-> files.agent.bin.build,
                                 recipe |-> Wanted.recipe, token |-> None]]
    <3>1. p \in FreePids /\ p \in Pids
      BY <2>2 DEF FreePids
    <3> QED BY <1>1, <2>2, <3>1
  <2> QED BY <2>1, <2>2 DEF Start
<1>5. /\ state # None => state.pid \in Pids /\ agents'[state.pid] = agents[state.pid]
      /\ attempt[a].seen # None =>
           agents'[attempt[a].seen.pid] = agents[attempt[a].seen.pid]
  <2>1. /\ state # None => state.pid \in Pids
        /\ attempt[a].seen # None => attempt[a].seen.pid \in Pids
    BY <1>1 DEF InstallTypes, States, Publications, Attempt
  <2>2. \A q \in FreePids : /\ state # None => state.pid # q
                            /\ attempt[a].seen # None => attempt[a].seen.pid # q
    BY DEF FreePids
  <2> QED BY <1>4, <2>1, <2>2
<1>6. (TokensAgree /\ StartsAreCurrent)'
  BY <1>2, <1>3, <1>4, <1>5 DEF AgentInv, TokensAgree, StartsAreCurrent, Wanted
<1>7. (StateIsAgents /\ LaunchIsOlder)'
  BY <1>2, <1>5 DEF AgentInv, StateIsAgents, LaunchIsOlder
<1>8. KnowsToken(a)' /\ KnowsState(a)' /\ KnowsAnswer(a)'
  BY <1>1, <1>2, <1>3, <1>5
     DEF Knows, KnowsToken, KnowsState, KnowsAnswer, Answered, At, Wanted, Busy
<1>9. \A b \in Attempts : Knows(b)'
  <2> SUFFICES ASSUME NEW b \in Attempts PROVE Knows(b)'
    OBVIOUS
  <2> QED BY <1>8 DEF OneAttempt, Knows
<1> QED BY <1>6, <1>7, <1>9 DEF AgentInv

LEMMA RecordKeepsAgents ==
  ASSUME OneAttempt, InstallTypes, AgentInv, NEW a \in Attempts, RecordLaunch(a)
  PROVE  AgentInv'
<1>1. /\ a \in Runs /\ attempt[a] \in Attempt /\ attempt \in [Runs -> Attempt] /\ Knows(a)
      /\ release \in 1 .. Len(Releases)
  BY RunsSplit DEF InstallTypes, AgentInv
<1>2. /\ attempt[a].stage = "record" /\ attempt'[a].stage = "served"
      /\ attempt'[a].seen = attempt[a].seen /\ attempt'[a].pid = attempt[a].pid
      /\ launch' = Wanted.recipe
      /\ UNCHANGED <<release, token, state, agents>>
  BY <1>1 DEF RecordLaunch, Goes, At, Attempt
<1>3. state # None /\ agents[state.pid].recipe = Wanted.recipe
  BY <1>1, <1>2 DEF Knows, KnowsAnswer
<1>4. release \in 1 .. release /\ release <= release
  BY <1>1
<1>5. LaunchIsOlder'
  BY <1>2, <1>3, <1>4 DEF LaunchIsOlder, Wanted
<1>6. (TokensAgree /\ StartsAreCurrent /\ StateIsAgents)'
  BY <1>2 DEF AgentInv, TokensAgree, StartsAreCurrent, StateIsAgents, Wanted
<1>7. KnowsToken(a)' /\ KnowsState(a)' /\ KnowsAnswer(a)'
  BY <1>1, <1>2 DEF Knows, KnowsToken, KnowsState, KnowsAnswer, Answered, At, Wanted, Busy
<1>8. \A b \in Attempts : Knows(b)'
  <2> SUFFICES ASSUME NEW b \in Attempts PROVE Knows(b)'
    OBVIOUS
  <2> QED BY <1>7 DEF OneAttempt, Knows
<1> QED BY <1>5, <1>6, <1>8 DEF AgentInv

(* Attempts that are given up know nothing they could answer with.           *)
LEMMA IdleKnows ==
  ASSUME attempt' = [b \in Runs |-> NoAttempt], NEW a \in Attempts
  PROVE  Knows(a)'
<1>1. attempt'[a].stage = "idle" /\ attempt'[a].seen = None
  BY RunsSplit DEF NoAttempt
<1> QED BY <1>1 DEF Knows, KnowsToken, KnowsState, KnowsAnswer, Answered, At, Busy

(* A restart, an upgrade once nothing is starting, an agent that publishes   *)
(* and one that dies.                                                        *)
LEMMA UpgradeKeepsAgents ==
  ASSUME SomeReleases, TokenKept, InstallTypes, AgentInv, Upgrade
  PROVE  AgentInv'
<1>1. /\ release \in 1 .. Len(Releases) /\ release' = release + 1
      /\ release' \in 1 .. Len(Releases) /\ 1 .. release \subseteq 1 .. release'
      /\ UNCHANGED <<token, launch, state, agents>>
  BY DEF Upgrade, InstallTypes, SomeReleases
<1>2. Wanted'.token = Wanted.token
  BY <1>1 DEF Wanted, TokenKept
<1>3. \A p \in Pids : agents'[p].up # "starting"
  BY <1>1 DEF Upgrade, Starting
<1>4. (TokensAgree /\ StartsAreCurrent)'
  BY <1>1, <1>2, <1>3 DEF AgentInv, TokensAgree, StartsAreCurrent
<1>5. StateIsAgents'
  BY <1>1 DEF AgentInv, StateIsAgents
<1>6. LaunchIsOlder'
  BY <1>1 DEF AgentInv, LaunchIsOlder
<1>7. \A a \in Attempts : Knows(a)'
  BY IdleKnows DEF Upgrade
<1> QED BY <1>4, <1>5, <1>6, <1>7 DEF AgentInv

LEMMA PublishKeepsAgents ==
  ASSUME NoneIsNothing, InstallTypes, AgentInv, NEW p \in Pids, Publish(p)
  PROVE  AgentInv'
<1>1. /\ agents \in [Pids -> Agent] /\ agents[p].up = "starting"
      /\ state' = [pid |-> p, build |-> agents[p].build]
      /\ UNCHANGED <<release, attempt, token, launch>>
      /\ release \in 1 .. Len(Releases)
  BY DEF InstallTypes, Publish
<1>2. /\ token = Wanted.token /\ agents[p].recipe = Wanted.recipe
  BY <1>1 DEF AgentInv, TokensAgree, StartsAreCurrent
<1>3. /\ agents'[p].build = agents[p].build /\ agents'[p].recipe = agents[p].recipe
      /\ agents'[p].token = Wanted.token /\ agents'[p].up = "serving"
      /\ \A q \in Pids : q # p => agents'[q] = agents[q]
  BY <1>1, <1>2 DEF Publish, Agent
<1>4. state'.pid = p /\ state'.build = agents[p].build /\ state' # None
  <2>1. state' \in Publications
    BY <1>1 DEF Publications, Agent
  <2> QED BY <1>1, <2>1 DEF NoneIsNothing
<1>5. (TokensAgree /\ StartsAreCurrent /\ StateIsAgents)'
  BY <1>1, <1>2, <1>3, <1>4
     DEF AgentInv, TokensAgree, StartsAreCurrent, StateIsAgents, Wanted
<1>6. LaunchIsOlder'
  <2>1. launch # None => \E i \in 1 .. release : launch = Releases[i].recipe
    BY DEF AgentInv, LaunchIsOlder
  <2>2. release \in 1 .. release /\ \A i \in 1 .. release : i <= release
    BY <1>1
  <2> QED BY <1>1, <1>2, <1>3, <1>4, <2>1, <2>2 DEF LaunchIsOlder, Wanted
<1>7. ASSUME NEW a \in Attempts
      PROVE  Knows(a)'
  <2>1. /\ attempt[a].seen # None => attempt[a].seen.pid \in Pids
        /\ attempt[a].pid # None => attempt[a].pid \in Pids
        /\ Knows(a)
    BY RunsSplit DEF InstallTypes, States, Publications, Attempt, AgentInv
  <2>2. KnowsToken(a)'
    BY <1>1, <1>2, <1>3, <2>1 DEF Knows, KnowsToken, Wanted
  <2>3. KnowsState(a)'
    BY <1>1, <1>2, <1>3, <1>4, <2>1 DEF Knows, KnowsState, Wanted, Busy
  <2>4. KnowsAnswer(a)'
    BY <1>1, <1>2, <1>3, <1>4, <2>1 DEF Knows, KnowsAnswer, Answered, At, Wanted
  <2> QED BY <2>2, <2>3, <2>4 DEF Knows
<1> QED BY <1>5, <1>6, <1>7 DEF AgentInv

(* No step leaves an attempt knowing of an agent what is not so.             *)
LEMMA AgentInvKept ==
  ASSUME OneAttempt, SomeReleases, NoneIsNothing, RecipesMoveOn, TokenKept,
         "state" \notin MayFail, InstallTypes, AgentInv, [InstallNext]_installVars
  PROVE  AgentInv'
<1>1. CASE UNCHANGED installVars
  <2>1. UNCHANGED <<release, token, launch, state, agents, attempt>>
    BY <1>1 DEF installVars
  <2> QED BY <2>1, SameAgents DEF AgentInv
<1>2. CASE HostStops
  <2>1. UNCHANGED <<release, token, launch, state, agents>>
    BY <1>2 DEF HostStops
  <2>2. \A a \in Attempts : Knows(a)'
    BY <1>2, IdleKnows DEF HostStops
  <2> QED BY <2>1, <2>2, SameAgents DEF AgentInv
<1>3. CASE Upgrade
  BY <1>3, UpgradeKeepsAgents
<1>4. ASSUME NEW p \in Pids, Publish(p)
      PROVE  AgentInv'
  BY <1>4, PublishKeepsAgents
<1>5. ASSUME NEW p \in Pids, AgentDies(p)
      PROVE  AgentInv'
  <2>1. UNCHANGED <<release, token, launch, state, attempt>>
    BY <1>5 DEF AgentDies
  <2>2. \A q \in Pids : /\ agents'[q].build = agents[q].build
                        /\ agents'[q].recipe = agents[q].recipe
                        /\ agents'[q].token = agents[q].token
                        /\ agents'[q].up = "starting" => agents[q].up = "starting"
    BY <1>5, DeathTells DEF AgentDies
  <2> QED BY <2>1, <2>2, SameAgents DEF AgentInv
<1>6. ASSUME NEW a \in Attempts, EnsureAgent(a) \/ UploadCut(a) \/ CommandFails(a)
      PROVE  AgentInv'
  BY <1>6, LooksKeepAgents, FilesKeepAgents, WriteTokenKeepsAgents, KillKeepsAgents,
     StartKeepsAgents, RecordKeepsAgents DEF EnsureAgent, Replace
<1> QED BY <1>1, <1>2, <1>3, <1>4, <1>5, <1>6, HostKeepsAgents, RunsSplit
        DEF InstallNext

(* The agent an install answers with is one this plugin would start: its     *)
(* build, its launch recipe and its token, reused or replaced, whatever died *)
(* or was broken off on the way (install.ts ensureAgent); for one agent      *)
(* install at a time, a token that is not rotated, releases that do not go   *)
(* back to a recipe they left, and a state.json whose reading does not fail. *)
THEOREM AnswersAreCurrent ==
  ASSUME OneAttempt, SomeReleases, NoneIsNothing, RecipesMoveOn, TokenKept,
         "state" \notin MayFail
  PROVE  InstallSpec => []AnswerIsCurrent
<1>1. InstallInit => InstallTypes /\ AgentInv
  <2>1. InstallInit => AgentInv
    <3>1. SUFFICES ASSUME InstallInit PROVE AgentInv
      OBVIOUS
    <3>2. \A p \in Pids : agents[p].up = "gone"
      BY <3>1 DEF InstallInit, NoAgent
    <3>3. \A a \in Attempts : attempt[a].stage = "idle" /\ attempt[a].seen = None
      BY <3>1, RunsSplit DEF InstallInit, NoAttempt
    <3>4. token = None /\ launch = None /\ state = None
      BY <3>1 DEF InstallInit
    <3>5. TokensAgree /\ StartsAreCurrent /\ StateIsAgents /\ LaunchIsOlder
      BY <3>2, <3>4 DEF TokensAgree, StartsAreCurrent, StateIsAgents, LaunchIsOlder
    <3>6. \A a \in Attempts : Knows(a)
      BY <3>3 DEF Knows, KnowsToken, KnowsState, KnowsAnswer, Answered, At, Busy
    <3> QED BY <3>5, <3>6 DEF AgentInv
  <2> QED BY <2>1, InitTypes
<1>2. InstallTypes /\ AgentInv /\ [InstallNext]_installVars => (InstallTypes /\ AgentInv)'
  BY TypesKept, AgentInvKept
<1>3. AgentInv => AnswerIsCurrent
  BY DEF AgentInv, Knows, KnowsAnswer, AnswerIsCurrent
<1> QED BY <1>1, <1>2, <1>3, PTL DEF InstallSpec

-----------------------------------------------------------------------------
(* Induction.  The library's induction theorems are about predicates; what   *)
(* follows says the same of sets, from the fact that < is well-founded.      *)

\* A set of numbers that is not empty has a least one.
LEMMA NatMin ==
  ASSUME NEW T \in SUBSET Nat, T # {}
  PROVE  \E x \in T : \A y \in T : x <= y
<1> DEFINE R == {ss \in Nat \X Nat : ss[1] < ss[2]}
<1>1. IsWellFoundedOn(R, Nat)
  BY NatLessThanWellFounded DEF OpToRel
<1>2. \A x, y \in Nat : y < x => <<y, x>> \in R
  OBVIOUS
<1>3. \E x \in T : \A y \in T : ~(<<y, x>> \in R)
  <2> HIDE DEF R
  <2> QED BY <1>1, WFMin
<1>4. PICK x \in T : \A y \in T : ~(<<y, x>> \in R)
  BY <1>3
<1>5. \A y \in T : ~(y < x)
  <2> HIDE DEF R
  <2> QED BY <1>2, <1>4
<1>6. \A y \in T : x \in Nat /\ y \in Nat
  OBVIOUS
<1>7. \A y \in T : x <= y
  BY <1>5, <1>6
<1> QED BY <1>7

\* What holds of 0 and goes from each number to the next holds of all.
LEMMA Induction ==
  ASSUME NEW S, 0 \in S, \A n \in Nat : n \in S => n + 1 \in S
  PROVE  \A n \in Nat : n \in S
<1> SUFFICES ASSUME Nat \ S # {} PROVE FALSE
  OBVIOUS
<1>1. PICK x \in Nat \ S : \A y \in Nat \ S : x <= y
  BY NatMin
<1>2. x - 1 \in Nat /\ x - 1 \notin Nat \ S /\ x = (x - 1) + 1
  BY <1>1
<1> QED BY <1>1, <1>2

(* Up to a bound, as for the functions on 0 .. N the model is written with.  *)
LEMMA InductionTo ==
  ASSUME NEW N \in Nat, NEW S, 0 \in S,
         \A n \in 0 .. N - 1 : n \in S => n + 1 \in S
  PROVE  N \in S
<1> DEFINE T == {n \in Nat : n <= N => n \in S}
<1>1. 0 \in T /\ \A n \in Nat : n \in T => n + 1 \in T
  OBVIOUS
<1>2. \A n \in Nat : n \in T
  <2> HIDE DEF T
  <2> QED BY <1>1, Induction
<1> QED BY <1>2

\* The greatest of some numbers up to N is one of them.
LEMMA MaxOf ==
  ASSUME NEW N \in Nat, NEW S \in SUBSET (0 .. N), S # {}
  PROVE  Max(S) \in S /\ \A n \in S : n <= Max(S)
<1> DEFINE T == {k \in Nat : \E n \in S : k = N - n}
<1>1. T \in SUBSET Nat /\ T # {}
  <2>1. PICK n \in S : TRUE
    OBVIOUS
  <2>2. N - n \in T
    BY <2>1
  <2> QED BY <2>2
<1>2. PICK x \in T : \A y \in T : x <= y
  BY <1>1, NatMin
<1>3. PICK m \in S : x = N - m
  BY <1>2
<1>4. \A n \in S : N - m <= N - n
  BY <1>2, <1>3
<1>5. \A n \in S : m >= n
  BY <1>4
<1>6. \E y \in S : \A n \in S : y >= n
  BY <1>3, <1>5
<1>7. Max(S) \in S /\ \A n \in S : Max(S) >= n
  BY <1>6 DEF Max
<1> QED BY <1>7

(* A function by recursion over 0 .. N, with values in A.                    *)
Steps(g, N, b, F) == g[0] = b /\ \A n \in 1 .. N : g[n] = F[n][g[n - 1]]

\* There is such a function, so the CHOOSE behind a recursive one has it.
LEMMA Recursion ==
  ASSUME NEW N \in Nat, NEW A, NEW b \in A, NEW F \in [1 .. N -> [A -> A]]
  PROVE  \E g \in [0 .. N -> A] : Steps(g, N, b, F)
<1> DEFINE Good(n, g) == g[0] = b /\ \A k \in 1 .. n : g[k] = F[k][g[k - 1]]
           S == {n \in Nat : \E g \in [0 .. n -> A] : Good(n, g)}
<1>1. 0 \in S
  <2>1. Good(0, [k \in 0 .. 0 |-> b])
    OBVIOUS
  <2> QED BY <2>1
<1>2. ASSUME NEW n \in 0 .. N - 1, n \in S PROVE n + 1 \in S
  <2>1. PICK g \in [0 .. n -> A] : Good(n, g)
    BY <1>2
  <2> DEFINE h == [k \in 0 .. n + 1 |-> IF k <= n THEN g[k] ELSE F[n + 1][g[n]]]
  <2>2. F[n + 1][g[n]] \in A
    BY <1>2
  <2>3. h \in [0 .. n + 1 -> A]
    BY <2>1, <2>2
  <2>4. Good(n + 1, h)
    BY <2>1
  <2> HIDE DEF h, Good
  <2> QED BY <1>2, <2>3, <2>4
<1> HIDE DEF S
<1>3. N \in S
  BY <1>1, <1>2, InductionTo
<1> QED BY <1>3 DEF S, Steps

(* Two functions that go from one value to the next in the same way.         *)
LEMMA SameSteps ==
  ASSUME NEW N \in Nat, NEW g, NEW h, g[0] = h[0],
         \A n \in 0 .. N - 1 : g[n] = h[n] => g[n + 1] = h[n + 1]
  PROVE  g[N] = h[N]
<1> DEFINE S == {n \in Nat : g[n] = h[n]}
<1>1. 0 \in S /\ \A n \in 0 .. N - 1 : n \in S => n + 1 \in S
  OBVIOUS
<1> HIDE DEF S
<1>2. N \in S
  BY <1>1, InductionTo
<1> QED BY <1>2 DEF S

\* The longest prefix that fits exists (truncateJsonString).
LEMMA LargestOf ==
  ASSUME NEW N \in Nat, NEW S \in SUBSET (0 .. N), S # {}
  PROVE  \E m \in S : \A n \in S : n <= m
BY MaxOf

-----------------------------------------------------------------------------
(* Lines and what they cost.                                                 *)

LineSeqs == Seq(Nat \ {0})

\* jsonStringBytes is a number, the two quotes at least.
LEMMA BytesNat ==
  ASSUME NEW line \in LineSeqs
  PROVE  Bytes(line) \in Nat /\ Bytes(line) >= 2
<1> DEFINE N == Len(line)
           A == {x \in Nat : x >= 2}
           F == [n \in 1 .. N |-> [x \in A |-> x + line[n]]]
<1>1. N \in Nat /\ 2 \in A /\ \A n \in 1 .. N : line[n] \in Nat
  BY DEF LineSeqs
<1>2. \A n \in 1 .. N : \A x \in A : F[n][x] = x + line[n] /\ F[n][x] \in A
  BY <1>1
<1>3. \E g \in [0 .. N -> A] : g[0] = 2 /\ \A n \in 1 .. N : g[n] = F[n][g[n - 1]]
  <2>1. F \in [1 .. N -> [A -> A]]
    BY <1>2
  <2>2. N \in Nat /\ 2 \in A
    BY <1>1
  <2>3. \E g \in [0 .. N -> A] : Steps(g, N, 2, F)
    <3> HIDE DEF N, A, F
    <3> QED BY <2>1, <2>2, Recursion
  <2> HIDE DEF N, A, F
  <2> QED BY <2>3 DEF Steps
<1>4. PICK g \in [0 .. N -> A] : g[0] = 2 /\ \A n \in 1 .. N : g[n] = F[n][g[n - 1]]
  BY <1>3
<1> DEFINE E(h) == [n \in 0 .. N |-> IF n = 0 THEN 2 ELSE h[n - 1] + line[n]]
<1>5. \A n \in 1 .. N : g[n] = g[n - 1] + line[n]
  <2> TAKE n \in 1 .. N
  <2>1. n - 1 \in 0 .. N
    BY <1>1
  <2> QED BY <1>2, <1>4, <2>1
<1>6. g = E(g)
  BY <1>1, <1>4, <1>5
<1> DEFINE f == CHOOSE h : h = E(h)
<1>7. f = E(f)
  <2> HIDE DEF E
  <2> QED BY <1>6
<1>8. Bytes(line) = f[N]
  BY DEF Bytes
<1>9. f[N] = g[N]
  <2> HIDE DEF f
  <2>1. f[0] = g[0]
    BY <1>1, <1>4, <1>7
  <2>2. ASSUME NEW n \in 0 .. N - 1, f[n] = g[n] PROVE f[n + 1] = g[n + 1]
    <3>1. n + 1 \in 0 .. N /\ n + 1 # 0 /\ n + 1 \in 1 .. N /\ (n + 1) - 1 = n
      BY <1>1
    <3>2. f[n + 1] = f[n] + line[n + 1]
      BY <1>7, <3>1
    <3> QED BY <3>1, <3>2, <2>2, <1>5
  <2> HIDE DEF f, N
  <2> QED BY <1>1, <2>1, <2>2, SameSteps
<1>10. g[N] \in A
  BY <1>1, <1>4
<1> QED BY <1>8, <1>9, <1>10

\* What truncateJsonString keeps of a line fits, unless it keeps nothing.
LEMMA TruncatedFits ==
  ASSUME NEW line \in LineSeqs, NEW limit \in Int
  PROVE  /\ Truncated(line, limit) \in LineSeqs
         /\ Truncated(line, limit) # <<>> => Fits(Truncated(line, limit), limit)
<1> DEFINE fitting == {n \in 0 .. Len(line) : Fits(SubSeq(line, 1, n), limit)}
<1>1. CASE fitting = {}
  BY <1>1 DEF Truncated, LineSeqs
<1>2. CASE fitting # {}
  <2>1. \E m \in fitting : \A n \in fitting : n <= m
    <3>1. Len(line) \in Nat /\ fitting \in SUBSET (0 .. Len(line))
      BY DEF LineSeqs
    <3> HIDE DEF fitting
    <3> QED BY <1>2, <3>1, LargestOf
  <2> DEFINE m == CHOOSE n \in fitting : \A k \in fitting : k <= n
  <2>2. m \in fitting
    BY <2>1
  <2>3. Truncated(line, limit) = SubSeq(line, 1, m)
    BY <1>2 DEF Truncated
  <2>4. Fits(SubSeq(line, 1, m), limit) /\ m \in 0 .. Len(line)
    BY <2>2
  <2> HIDE DEF m
  <2>5. SubSeq(line, 1, m) \in LineSeqs
    BY <2>4 DEF LineSeqs
  <2> QED BY <2>3, <2>4, <2>5
<1> QED BY <1>1, <1>2

Frames == [type : {"ready", "log", "output-limit", "call", "done", "overflow"}, cost : Nat]

\* What a frame adds to what the lines before it come to.
Counted(frame, sum) ==
  IF frame.type = "log" THEN sum + frame.cost + (IF sum = 2 THEN 0 ELSE 1) ELSE sum

\* Logged by its steps, a frame at a time.
LEMMA LoggedSteps ==
  ASSUME NEW frames \in Seq(Frames)
  PROVE  \E g \in [0 .. Len(frames) -> Nat] :
           /\ g[0] = 2
           /\ \A n \in 1 .. Len(frames) : g[n] = Counted(frames[n], g[n - 1])
           /\ Logged(frames) = g[Len(frames)]
<1> DEFINE N == Len(frames)
           F == [n \in 1 .. N |-> [x \in Nat |-> Counted(frames[n], x)]]
<1>1. N \in Nat /\ \A n \in 1 .. N : frames[n].cost \in Nat
  <2>1. N \in Nat /\ \A n \in 1 .. N : frames[n] \in Frames
    OBVIOUS
  <2>2. \A frame \in Frames : frame.cost \in Nat
    BY DEF Frames
  <2> QED BY <2>1, <2>2
<1>2. \A n \in 1 .. N : \A x \in Nat : F[n][x] = Counted(frames[n], x) /\ F[n][x] \in Nat
  BY <1>1 DEF Counted
<1>3. \E g \in [0 .. N -> Nat] : g[0] = 2 /\ \A n \in 1 .. N : g[n] = F[n][g[n - 1]]
  <2>1. F \in [1 .. N -> [Nat -> Nat]]
    BY <1>2
  <2>2. N \in Nat /\ 2 \in Nat
    BY <1>1
  <2>3. \E g \in [0 .. N -> Nat] : Steps(g, N, 2, F)
    <3> HIDE DEF N, F
    <3> QED BY <2>1, <2>2, Recursion
  <2> HIDE DEF N, F
  <2> QED BY <2>3 DEF Steps
<1>4. PICK g \in [0 .. N -> Nat] : g[0] = 2 /\ \A n \in 1 .. N : g[n] = F[n][g[n - 1]]
  BY <1>3
<1>5. \A n \in 1 .. N : g[n] = Counted(frames[n], g[n - 1])
  <2> TAKE n \in 1 .. N
  <2>1. n - 1 \in 0 .. N
    BY <1>1
  <2> HIDE DEF F
  <2> QED BY <1>2, <1>4, <2>1
<1> DEFINE E(h) == [n \in 0 .. N |->
                      IF n = 0
                        THEN 2
                        ELSE IF frames[n].type = "log"
                               THEN h[n - 1] + frames[n].cost
                                      + (IF h[n - 1] = 2 THEN 0 ELSE 1)
                               ELSE h[n - 1]]
<1>6. g = E(g)
  BY <1>1, <1>4, <1>5 DEF Counted
<1> DEFINE f == CHOOSE h : h = E(h)
<1>7. f = E(f)
  <2> HIDE DEF E
  <2> QED BY <1>6
<1>8. Logged(frames) = f[N]
  BY DEF Logged
<1>9. f[N] = g[N]
  <2> HIDE DEF f
  <2>1. f[0] = g[0]
    BY <1>1, <1>4, <1>7
  <2>2. ASSUME NEW n \in 0 .. N - 1, f[n] = g[n] PROVE f[n + 1] = g[n + 1]
    <3>1. n + 1 \in 0 .. N /\ n + 1 # 0 /\ n + 1 \in 1 .. N /\ (n + 1) - 1 = n
      BY <1>1
    <3>2. f[n + 1] = Counted(frames[n + 1], f[n])
      BY <1>7, <3>1 DEF Counted
    <3> QED BY <3>1, <3>2, <2>2, <1>5
  <2> HIDE DEF f, N
  <2> QED BY <1>1, <2>1, <2>2, SameSteps
<1> QED BY <1>4, <1>5, <1>8, <1>9

\* What one more frame adds to the lines written.
LEMMA LoggedOf ==
  /\ Logged(<<>>) = 2
  /\ \A frames \in Seq(Frames), frame \in Frames :
       /\ Logged(frames) \in Nat
       /\ Logged(Append(frames, frame)) = Counted(frame, Logged(frames))
<1>1. Logged(<<>>) = 2
  <2>1. <<>> \in Seq(Frames) /\ Len(<<>>) = 0
    OBVIOUS
  <2> QED BY <2>1, LoggedSteps
<1>2. ASSUME NEW frames \in Seq(Frames), NEW frame \in Frames
      PROVE  /\ Logged(frames) \in Nat
             /\ Logged(Append(frames, frame)) = Counted(frame, Logged(frames))
  <2> DEFINE N == Len(frames)
             all == Append(frames, frame)
  <2>1. N \in Nat /\ all \in Seq(Frames) /\ Len(all) = N + 1
    OBVIOUS
  <2>2. all[N + 1] = frame /\ \A n \in 1 .. N : all[n] = frames[n]
    OBVIOUS
  <2> HIDE DEF all
  <2>3. PICK g \in [0 .. N -> Nat] :
           /\ g[0] = 2
           /\ \A n \in 1 .. N : g[n] = Counted(frames[n], g[n - 1])
           /\ Logged(frames) = g[N]
    BY LoggedSteps
  <2>4. PICK h \in [0 .. N + 1 -> Nat] :
           /\ h[0] = 2
           /\ \A n \in 1 .. N + 1 : h[n] = Counted(all[n], h[n - 1])
           /\ Logged(all) = h[N + 1]
    BY <2>1, LoggedSteps
  <2>5. g[N] = h[N]
    <3>1. ASSUME NEW n \in 0 .. N - 1, g[n] = h[n] PROVE g[n + 1] = h[n + 1]
      <4>1. n + 1 \in 1 .. N /\ n + 1 \in 1 .. N + 1 /\ (n + 1) - 1 = n
        BY <2>1
      <4>2. g[n + 1] = Counted(frames[n + 1], g[n]) /\ h[n + 1] = Counted(all[n + 1], h[n])
        BY <2>3, <2>4, <4>1
      <4> QED BY <2>2, <3>1, <4>1, <4>2
    <3>2. N \in Nat /\ g[0] = h[0]
      BY <2>1, <2>3, <2>4
    <3> HIDE DEF N
    <3> QED BY <3>1, <3>2, SameSteps
  <2>6. h[N + 1] = Counted(frame, h[N])
    <3>1. N + 1 \in 1 .. N + 1 /\ (N + 1) - 1 = N
      BY <2>1
    <3> QED BY <2>2, <2>4, <3>1
  <2>7. g[N] \in Nat
    BY <2>1, <2>3
  <2> QED BY <2>3, <2>4, <2>5, <2>6, <2>7 DEF all
<1> QED BY <1>1, <1>2

-----------------------------------------------------------------------------
(* Values.                                                                   *)

\* Sequences of up to n members, as BoundedSeq lists them.
LEMMA BoundedSeqs ==
  ASSUME NEW T, NEW n \in Nat, NEW s
  PROVE  s \in BoundedSeq(T, n) <=> s \in Seq(T) /\ Len(s) <= n
<1>1. BoundedSeq(T, n) = UNION {[1 .. m -> T] : m \in 0 .. n}
  BY DEF BoundedSeq, SeqOf
<1>2. ASSUME s \in BoundedSeq(T, n) PROVE s \in Seq(T) /\ Len(s) <= n
  <2>1. PICK m \in 0 .. n : s \in [1 .. m -> T]
    BY <1>1, <1>2
  <2>2. m \in Nat /\ m <= n
    OBVIOUS
  <2> QED BY <2>1, <2>2
<1>3. ASSUME s \in Seq(T), Len(s) <= n PROVE s \in BoundedSeq(T, n)
  <2>1. s \in [1 .. Len(s) -> T] /\ Len(s) \in 0 .. n
    BY <1>3
  <2> QED BY <1>1, <2>1
<1> QED BY <1>2, <1>3

\* The containers over children of a set.
Containers(children) == {Node(items) : items \in BoundedSeq(children, Arity)}

\* TreesTo one level at a time.
LEMMA TreesToDef ==
  /\ TreesTo[0] = {Leaf} \cup {Node(<<>>)}
  /\ \A d \in 1 .. Depth : TreesTo[d] = {Leaf} \cup Containers(TreesTo[d - 1])
<1> DEFINE Good(n, g) ==
             /\ g[0] = {Leaf} \cup {Node(<<>>)}
             /\ \A d \in 1 .. n : g[d] = {Leaf} \cup Containers(g[d - 1])
           S == {n \in Nat : \E g : Good(n, g)}
<1>1. 0 \in S
  <2>1. Good(0, [d \in 0 .. 0 |-> {Leaf} \cup {Node(<<>>)}])
    OBVIOUS
  <2> QED BY <2>1
<1>2. ASSUME NEW n \in 0 .. Depth - 1, n \in S PROVE n + 1 \in S
  <2>1. n \in Nat /\ n + 1 \in Nat
    BY TreeBoundsAssumption
  <2>2. PICK g : Good(n, g)
    BY <1>2
  <2> DEFINE h == [d \in 0 .. n + 1 |->
                     IF d <= n THEN g[d] ELSE {Leaf} \cup Containers(g[n])]
  <2>3. h[0] = g[0]
    BY <2>1
  <2>4. ASSUME NEW d \in 1 .. n + 1 PROVE h[d] = {Leaf} \cup Containers(h[d - 1])
    <3>1. d - 1 \in 0 .. n /\ h[d - 1] = g[d - 1]
      BY <2>1
    <3>2. CASE d <= n
      <4>1. h[d] = g[d] /\ d \in 1 .. n
        BY <3>2, <2>1
      <4> HIDE DEF h
      <4> QED BY <2>2, <3>1, <4>1
    <3>3. CASE d = n + 1
      <4>1. h[d] = {Leaf} \cup Containers(g[n]) /\ d - 1 = n
        BY <3>3, <2>1
      <4> QED BY <3>1, <4>1
    <3>4. d <= n \/ d = n + 1
      BY <2>1
    <3> HIDE DEF h
    <3> QED BY <3>2, <3>3, <3>4
  <2>5. Good(n + 1, h)
    BY <2>2, <2>3, <2>4
  <2> HIDE DEF h, Good
  <2> QED BY <2>1, <2>5
<1>3. Depth \in S
  <2> HIDE DEF S
  <2> QED BY <1>1, <1>2, TreeBoundsAssumption, InductionTo
<1>4. PICK g : Good(Depth, g)
  BY <1>3
<1> DEFINE E(h) == [d \in 0 .. Depth |->
                      {Leaf} \cup {Node(items) : items \in
                        IF d = 0 THEN {<<>>} ELSE BoundedSeq(h[d - 1], Arity)}]
           t == [d \in 0 .. Depth |-> g[d]]
<1>5. t = E(t)
  <2>1. ASSUME NEW d \in 0 .. Depth
        PROVE  g[d] = {Leaf} \cup {Node(items) : items \in
                        IF d = 0 THEN {<<>>} ELSE BoundedSeq(t[d - 1], Arity)}
    <3>1. CASE d = 0
      BY <1>4, <3>1
    <3>2. CASE d # 0
      <4>1. d \in 1 .. Depth /\ d - 1 \in 0 .. Depth
        BY <3>2, TreeBoundsAssumption
      <4>2. t[d - 1] = g[d - 1]
        BY <4>1
      <4> HIDE DEF t
      <4> QED BY <1>4, <3>2, <4>1, <4>2 DEF Containers
    <3> QED BY <3>1, <3>2
  <2> QED BY <2>1
<1>6. TreesTo = CHOOSE h : h = E(h)
  BY DEF TreesTo
<1>7. TreesTo = E(TreesTo)
  <2> HIDE DEF E
  <2> QED BY <1>5, <1>6
<1>8. TreesTo[0] = {Leaf} \cup {Node(<<>>)}
  <2>1. 0 \in 0 .. Depth
    BY TreeBoundsAssumption
  <2> QED BY <1>7, <2>1
<1>9. ASSUME NEW d \in 1 .. Depth
      PROVE  TreesTo[d] = {Leaf} \cup Containers(TreesTo[d - 1])
  <2>1. d \in 0 .. Depth /\ d # 0
    BY TreeBoundsAssumption
  <2> QED BY <1>7, <2>1 DEF Containers
<1> QED BY <1>8, <1>9

(* A leaf, or a container of up to Arity values one level less deep.         *)
LEMMA TreeForm ==
  ASSUME NEW d \in 0 .. Depth, NEW v
  PROVE  v \in TreesTo[d] <=>
           \/ v = Leaf
           \/ v = Node(<<>>)
           \/ d > 0 /\ \E items \in Seq(TreesTo[d - 1]) :
                         Len(items) \in 1 .. Arity /\ v = Node(items)
<1>1. d \in Nat /\ Arity \in Nat /\ Depth \in Nat
  BY TreeBoundsAssumption
<1>2. CASE d = 0
  BY <1>2, TreesToDef
<1>3. CASE d > 0
  <2>1. TreesTo[d] = {Leaf} \cup Containers(TreesTo[d - 1])
    BY <1>1, <1>3, TreesToDef
  <2>2. v \in Containers(TreesTo[d - 1]) <=>
          \E items \in Seq(TreesTo[d - 1]) : Len(items) <= Arity /\ v = Node(items)
    BY <1>1, BoundedSeqs DEF Containers
  <2>3. \A items \in Seq(TreesTo[d - 1]) :
          /\ Len(items) <= Arity <=> items = <<>> \/ Len(items) \in 1 .. Arity
          /\ <<>> \in Seq(TreesTo[d - 1])
    BY <1>1
  <2>4. <<>> \in Seq(TreesTo[d - 1])
    OBVIOUS
  <2> QED BY <1>3, <2>1, <2>2, <2>3, <2>4
<1> QED BY <1>1, <1>2, <1>3

\* A value that nests to a depth nests to any greater one.
LEMMA TreesGrow ==
  ASSUME NEW d \in Nat, NEW e \in Nat, d <= e, e <= Depth
  PROVE  TreesTo[d] \subseteq TreesTo[e]
<1> DEFINE S == {n \in Nat : n + 1 <= Depth => TreesTo[n] \subseteq TreesTo[n + 1]}
<1>1. 0 \in S
  <2> SUFFICES ASSUME 1 <= Depth PROVE TreesTo[0] \subseteq TreesTo[1]
    OBVIOUS
  <2>1. 0 \in 0 .. Depth /\ 1 \in 0 .. Depth
    BY TreeBoundsAssumption
  <2> QED BY <2>1, TreeForm
<1>2. ASSUME NEW n \in Nat, n \in S PROVE n + 1 \in S
  <2> SUFFICES ASSUME n + 2 <= Depth, NEW v \in TreesTo[n + 1]
               PROVE  v \in TreesTo[n + 2]
    OBVIOUS
  <2>1. n + 1 \in 0 .. Depth /\ n + 2 \in 0 .. Depth /\ TreesTo[n] \subseteq TreesTo[n + 1]
    BY <1>2, TreeBoundsAssumption
  <2>2. (n + 1) - 1 = n /\ (n + 2) - 1 = n + 1 /\ n + 2 > 0
    OBVIOUS
  <2>3. \A items \in Seq(TreesTo[n]) : items \in Seq(TreesTo[n + 1])
    BY <2>1, SeqMonotonic
  <2>4. CASE v = Leaf \/ v = Node(<<>>)
    BY <2>1, <2>4, TreeForm
  <2>5. CASE \E items \in Seq(TreesTo[n]) : Len(items) \in 1 .. Arity /\ v = Node(items)
    <3>1. \E items \in Seq(TreesTo[n + 1]) : Len(items) \in 1 .. Arity /\ v = Node(items)
      BY <2>3, <2>5
    <3> QED BY <2>1, <2>2, <3>1, TreeForm
  <2> QED BY <2>1, <2>2, <2>4, <2>5, TreeForm
<1>3. \A n \in Nat : n \in S
  <2> HIDE DEF S
  <2> QED BY <1>1, <1>2, Induction
<1> DEFINE R == {n \in Nat : d + n <= Depth => TreesTo[d] \subseteq TreesTo[d + n]}
<1>4. 0 \in R
  <2>1. d + 0 = d
    OBVIOUS
  <2> QED BY <2>1
<1>5. ASSUME NEW n \in Nat, n \in R PROVE n + 1 \in R
  <2> SUFFICES ASSUME d + n + 1 <= Depth PROVE TreesTo[d] \subseteq TreesTo[d + n + 1]
    OBVIOUS
  <2>1. TreesTo[d] \subseteq TreesTo[d + n]
    BY <1>5, TreeBoundsAssumption
  <2>2. d + n \in Nat /\ d + n \in S
    BY <1>3
  <2>3. TreesTo[d + n] \subseteq TreesTo[d + n + 1]
    BY <2>2
  <2> QED BY <2>1, <2>3
<1>6. \A n \in Nat : n \in R
  <2> HIDE DEF R
  <2> QED BY <1>4, <1>5, Induction
<1>7. e - d \in Nat /\ d + (e - d) = e
  OBVIOUS
<1>8. e - d \in R
  <2> HIDE DEF R
  <2> QED BY <1>6, <1>7
<1> QED BY <1>7, <1>8

-----------------------------------------------------------------------------
(* Streams of tokens.                                                        *)

\* FlattenSeq by its steps, a sequence at a time.
LEMMA FlattenSeqSteps ==
  ASSUME NEW T, NEW s \in Seq(Seq(T))
  PROVE  \E g \in [0 .. Len(s) -> Seq(T)] :
           /\ g[0] = <<>>
           /\ \A n \in 1 .. Len(s) : g[n] = g[n - 1] \o s[n]
           /\ FlattenSeq(s) = g[Len(s)]
<1> DEFINE N == Len(s)
           A == Seq(T)
           F == [n \in 1 .. N |-> [x \in A |-> x \o s[n]]]
<1>1. N \in Nat /\ <<>> \in A /\ \A n \in 1 .. N : s[n] \in A
  OBVIOUS
<1>2. \A n \in 1 .. N : \A x \in A : F[n][x] = x \o s[n] /\ F[n][x] \in A
  BY <1>1
<1>3. \E g \in [0 .. N -> A] : Steps(g, N, <<>>, F)
  <2>1. F \in [1 .. N -> [A -> A]]
    BY <1>2
  <2> HIDE DEF N, A, F
  <2> QED BY <1>1, <2>1, Recursion
<1>4. PICK g \in [0 .. N -> A] : g[0] = <<>> /\ \A n \in 1 .. N : g[n] = F[n][g[n - 1]]
  <2> HIDE DEF F, A, N
  <2> QED BY <1>3 DEF Steps
<1>5. \A n \in 1 .. N : g[n] = g[n - 1] \o s[n]
  <2> TAKE n \in 1 .. N
  <2>1. n - 1 \in 0 .. N
    BY <1>1
  <2>2. g[n - 1] \in A
    BY <2>1, <1>4
  <2> HIDE DEF F, A
  <2> QED BY <1>2, <1>4, <2>1, <2>2
<1>6. CASE N = 0
  <2>1. FlattenSeq(s) = s /\ s = <<>>
    BY <1>6 DEF FlattenSeq
  <2> QED BY <1>4, <1>5, <1>6, <2>1
<1>8. ASSUME 1 \in 1 .. N PROVE g[1] = s[1]
  <2> DEFINE one == 1
  <2>1. g[one] = g[one - 1] \o s[one]
    <3>1. one \in 1 .. N
      BY <1>8
    <3> HIDE DEF one
    <3> QED BY <1>5, <3>1
  <2>4. one - 1 = 0
    OBVIOUS
  <2>2. s[1] \in Seq(T)
    BY <1>8
  <2>3. <<>> \o s[1] = s[1]
    BY <2>2, ConcatEmptySeq
  <2> QED BY <1>4, <2>1, <2>3, <2>4
<1>7. CASE N # 0
  <2> DEFINE E(h) == [i \in 1 .. N |-> IF i = 1 THEN s[i] ELSE h[i - 1] \o s[i]]
             f == CHOOSE h : h = E(h)
             t == [i \in 1 .. N |-> g[i]]
  <2>1. t = E(t)
    <3>1. ASSUME NEW i \in 1 .. N
          PROVE  g[i] = IF i = 1 THEN s[i] ELSE t[i - 1] \o s[i]
      <4>1. CASE i = 1
        <5>1. g[1] = s[1]
          BY <1>8, <1>1, <4>1
        <5> QED BY <5>1, <4>1
      <4>2. CASE i # 1
        <5>1. i - 1 \in 1 .. N
          BY <4>2, <1>1
        <5>2. t[i - 1] = g[i - 1]
          BY <5>1
        <5> HIDE DEF t
        <5> QED BY <4>2, <5>2, <1>5
      <4> QED BY <4>1, <4>2
    <3> QED BY <3>1
  <2>2. f = E(f)
    <3> HIDE DEF E
    <3> QED BY <2>1
  <2>3. FlattenSeq(s) = f[N]
    BY <1>7 DEF FlattenSeq
  <2>4. f[N] = g[N]
    <3> DEFINE S == {n \in Nat : n >= 1 /\ n <= N => f[n] = g[n]}
    <3>1. 0 \in S
      OBVIOUS
    <3>2. ASSUME NEW n \in Nat, n \in S PROVE n + 1 \in S
      <4> HIDE DEF f
      <4> SUFFICES ASSUME n + 1 <= N PROVE f[n + 1] = g[n + 1]
        OBVIOUS
      <4>1. n + 1 \in 1 .. N /\ (n + 1) - 1 = n
        BY <1>1
      <4>2. CASE n = 0
        <5>1. n + 1 = 1 /\ 1 \in 1 .. N
          BY <4>1, <4>2
        <5>2. E(f)[1] = s[1]
          BY <5>1
        <5>3. f[1] = s[1]
          <6> HIDE DEF E
          <6> QED BY <2>2, <5>2
        <5> QED BY <1>8, <5>1, <5>3
      <4>3. CASE n # 0
        <5>1. f[n + 1] = f[n] \o s[n + 1]
          <6> DEFINE M == n + 1
          <6>1. M \in 1 .. N /\ M # 1 /\ M - 1 = n
            BY <4>1, <4>3
          <6>2. E(f)[M] = f[M - 1] \o s[M]
            <7> HIDE DEF M, N
            <7> QED BY <6>1
          <6>3. f[M] = E(f)[M]
            <7> HIDE DEF E, M
            <7> QED BY <2>2
          <6> QED BY <6>1, <6>2, <6>3
        <5>2. f[n] = g[n]
          BY <3>2, <1>1, <4>3
        <5> QED BY <1>5, <4>1, <5>1, <5>2
      <4> QED BY <4>2, <4>3
    <3>3. \A n \in Nat : n \in S
      <4> HIDE DEF S
      <4> QED BY <3>1, <3>2, Induction
    <3>4. N \in S
      <4> HIDE DEF S
      <4> QED BY <1>1, <3>3
    <3> HIDE DEF f
    <3> QED BY <1>1, <1>7, <3>4
  <2> HIDE DEF f
  <2> QED BY <1>4, <1>5, <2>3, <2>4
<1> QED BY <1>6, <1>7

\* FlattenSeq of one sequence more.
LEMMA FlattenSeqOf ==
  ASSUME NEW T
  PROVE  /\ FlattenSeq(<<>>) = <<>>
         /\ \A s \in Seq(Seq(T)), x \in Seq(T) :
              /\ FlattenSeq(s) \in Seq(T)
              /\ FlattenSeq(Append(s, x)) = FlattenSeq(s) \o x
<1>1. FlattenSeq(<<>>) = <<>>
  BY DEF FlattenSeq
<1>2. ASSUME NEW s \in Seq(Seq(T)), NEW x \in Seq(T)
      PROVE  /\ FlattenSeq(s) \in Seq(T)
             /\ FlattenSeq(Append(s, x)) = FlattenSeq(s) \o x
  <2> DEFINE N == Len(s)
             all == Append(s, x)
  <2>1. N \in Nat /\ all \in Seq(Seq(T)) /\ Len(all) = N + 1
    OBVIOUS
  <2>2. all[N + 1] = x /\ \A n \in 1 .. N : all[n] = s[n]
    OBVIOUS
  <2>3. PICK g \in [0 .. N -> Seq(T)] :
           /\ g[0] = <<>>
           /\ \A n \in 1 .. N : g[n] = g[n - 1] \o s[n]
           /\ FlattenSeq(s) = g[N]
    <3> HIDE DEF all
    <3> QED BY FlattenSeqSteps
  <2> HIDE DEF all
  <2>4. PICK h \in [0 .. N + 1 -> Seq(T)] :
           /\ h[0] = <<>>
           /\ \A n \in 1 .. N + 1 : h[n] = h[n - 1] \o all[n]
           /\ FlattenSeq(all) = h[N + 1]
    BY <2>1, FlattenSeqSteps
  <2>5. g[N] = h[N]
    <3>1. ASSUME NEW n \in 0 .. N - 1, g[n] = h[n] PROVE g[n + 1] = h[n + 1]
      <4>1. n + 1 \in 1 .. N /\ n + 1 \in 1 .. N + 1 /\ (n + 1) - 1 = n
        BY <2>1
      <4>2. g[n + 1] = g[n] \o s[n + 1] /\ h[n + 1] = h[n] \o all[n + 1]
        BY <2>3, <2>4, <4>1
      <4> QED BY <2>2, <3>1, <4>1, <4>2
    <3>2. N \in Nat /\ g[0] = h[0]
      BY <2>1, <2>3, <2>4
    <3> HIDE DEF N
    <3> QED BY <3>1, <3>2, SameSteps
  <2>6. h[N + 1] = h[N] \o x
    <3> DEFINE M == N + 1
    <3>1. M \in 1 .. N + 1
      BY <2>1
    <3>2. M - 1 = N
      BY <2>1
    <3>3. h[M] = h[M - 1] \o all[M]
      <4> HIDE DEF M, N
      <4> QED BY <2>4, <3>1
    <3> QED BY <2>2, <3>2, <3>3
  <2>7. g[N] \in Seq(T)
    <3>1. N \in 0 .. N
      BY <2>1
    <3> HIDE DEF N
    <3> QED BY <2>3, <3>1
  <2> QED BY <2>3, <2>4, <2>5, <2>6, <2>7 DEF all
<1> QED BY <1>1, <1>2

\* A value's tokens, from its children's.
TokensOf(g, v) ==
  IF v.leaf
    THEN <<Token("leaf", 0)>>
    ELSE <<Token("node", Len(v.items))>>
           \o FlattenSeq([i \in DOMAIN v.items |-> g[v.items[i]]])

\* The tokens of a scalar and of an empty container.
LEMMA TokensOfSmall ==
  ASSUME NEW g
  PROVE  /\ TokensOf(g, Leaf) = <<Token("leaf", 0)>>
         /\ TokensOf(g, Node(<<>>)) = <<Token("node", 0)>>
<1>1. TokensOf(g, Leaf) = <<Token("leaf", 0)>>
  BY DEF TokensOf, Leaf
<1>2. [i \in DOMAIN <<>> |-> g[<<>>[i]]] = <<>>
  OBVIOUS
<1>3. FlattenSeq([i \in DOMAIN <<>> |-> g[<<>>[i]]]) = <<>>
  BY <1>2, FlattenSeqOf
<1>4. Node(<<>>).leaf = FALSE /\ Node(<<>>).items = <<>>
  BY DEF Node
<1>5. TokensOf(g, Node(<<>>)) = <<Token("node", Len(<<>>))>> \o <<>>
  BY <1>3, <1>4 DEF TokensOf
<1>6. <<Token("node", 0)>> \o <<>> = <<Token("node", 0)>>
  OBVIOUS
<1>7. Len(<<>>) = 0
  OBVIOUS
<1> QED BY <1>1, <1>5, <1>6, <1>7

\* The tokens of a container over what its children's are.
LEMMA TokensOfNode ==
  ASSUME NEW g, NEW h, NEW T, NEW items \in Seq(T), \A t \in T : g[t] = h[t]
  PROVE  TokensOf(g, Node(items)) = TokensOf(h, Node(items))
<1>1. Node(items).leaf = FALSE /\ Node(items).items = items
  BY DEF Node
<1>2. [i \in DOMAIN items |-> g[items[i]]] = [i \in DOMAIN items |-> h[items[i]]]
  <2>1. \A i \in DOMAIN items : items[i] \in T
    OBVIOUS
  <2> QED BY <2>1
<1> QED BY <1>1, <1>2 DEF TokensOf

\* A value's tokens depend on those of its children alone.
LEMMA TokensOfSame ==
  ASSUME NEW d \in 0 .. Depth, NEW v \in TreesTo[d], NEW g, NEW h,
         d > 0 => \A t \in TreesTo[d - 1] : g[t] = h[t]
  PROVE  TokensOf(g, v) = TokensOf(h, v)
<1>1. CASE v = Leaf \/ v = Node(<<>>)
  BY <1>1, TokensOfSmall
<1>2. CASE d > 0 /\ \E items \in Seq(TreesTo[d - 1]) :
             Len(items) \in 1 .. Arity /\ v = Node(items)
  <2>1. PICK items \in Seq(TreesTo[d - 1]) : v = Node(items)
    BY <1>2
  <2>2. \A t \in TreesTo[d - 1] : g[t] = h[t]
    BY <1>2
  <2> QED BY <2>1, <2>2, TokensOfNode
<1> QED BY <1>1, <1>2, TreeForm

\* Flatten is what its body says, by induction on the nesting.
LEMMA FlattenDef == \A v \in Trees : Flatten[v] = TokensOf(Flatten, v)
<1> DEFINE Good(d, g) == \A v \in TreesTo[d] : g[v] = TokensOf(g, v)
           S == {d \in Nat : \E g : Good(d, g)}
<1>1. 0 \in S
  <2> DEFINE g == [v \in TreesTo[0] |-> TokensOf(<<>>, v)]
  <2>1. 0 \in 0 .. Depth /\ ~(0 > 0)
    BY TreeBoundsAssumption
  <2>2. ASSUME NEW v \in TreesTo[0] PROVE g[v] = TokensOf(g, v)
    <3>1. g[v] = TokensOf(<<>>, v)
      OBVIOUS
    <3> HIDE DEF g
    <3> QED BY <2>1, <3>1, TokensOfSame
  <2> HIDE DEF g
  <2> QED BY <2>2
<1>2. ASSUME NEW n \in 0 .. Depth - 1, n \in S PROVE n + 1 \in S
  <2>1. /\ n \in Nat /\ n + 1 \in Nat /\ n <= n + 1 /\ n + 1 <= Depth
        /\ n \in 0 .. Depth /\ n + 1 \in 0 .. Depth /\ (n + 1) - 1 = n
    BY TreeBoundsAssumption
  <2>2. PICK g : Good(n, g)
    BY <1>2
  <2>3. TreesTo[n] \subseteq TreesTo[n + 1]
    BY <2>1, TreesGrow
  <2> DEFINE h == [v \in TreesTo[n + 1] |-> TokensOf(g, v)]
  <2>4. \A v \in TreesTo[n + 1] : h[v] = TokensOf(g, v)
    OBVIOUS
  <2> HIDE DEF h
  <2>5. \A v \in TreesTo[n] : g[v] = h[v]
    BY <2>2, <2>3, <2>4
  <2>6. \A v \in TreesTo[n + 1] : TokensOf(g, v) = TokensOf(h, v)
    BY <2>1, <2>5, TokensOfSame
  <2>7. Good(n + 1, h)
    BY <2>4, <2>6
  <2> HIDE DEF Good
  <2> QED BY <2>1, <2>7
<1>3. Depth \in S
  <2> HIDE DEF S
  <2> QED BY <1>1, <1>2, TreeBoundsAssumption, InductionTo
<1>4. PICK g : Good(Depth, g)
  BY <1>3
<1> DEFINE E(h) == [v \in Trees |->
                      IF v.leaf
                        THEN <<Token("leaf", 0)>>
                        ELSE <<Token("node", Len(v.items))>>
                               \o FlattenSeq([i \in DOMAIN v.items |-> h[v.items[i]]])]
           t == [v \in Trees |-> g[v]]
<1>5. t = E(t)
  <2>1. Depth \in Nat /\ Depth \in 0 .. Depth
    BY TreeBoundsAssumption
  <2>2. \A v \in TreesTo[Depth] : t[v] = g[v]
    BY DEF Trees
  <2>3. ASSUME Depth > 0 PROVE TreesTo[Depth - 1] \subseteq TreesTo[Depth]
    <3>1. Depth - 1 \in Nat /\ Depth - 1 <= Depth
      BY <2>1, <2>3
    <3> QED BY <2>1, <3>1, TreesGrow
  <2>4. \A v \in TreesTo[Depth] : TokensOf(g, v) = TokensOf(t, v)
    <3> HIDE DEF t
    <3> QED BY <2>1, <2>2, <2>3, TokensOfSame
  <2>5. \A v \in Trees : g[v] = TokensOf(t, v)
    <3> HIDE DEF t
    <3> QED BY <1>4, <2>4 DEF Trees
  <2>6. E(t) = [v \in Trees |-> TokensOf(t, v)]
    <3> HIDE DEF t
    <3> QED BY DEF TokensOf
  <2> HIDE DEF E
  <2> QED BY <2>5, <2>6
<1>6. Flatten = CHOOSE h : h = E(h)
  BY DEF Flatten
<1>7. Flatten = E(Flatten)
  <2> HIDE DEF E
  <2> QED BY <1>5, <1>6
<1>8. \A v \in Trees : E(Flatten)[v] = TokensOf(Flatten, v)
  BY DEF TokensOf
<1> HIDE DEF E
<1> QED BY <1>7, <1>8

\* Scalars and empty containers are values; what reads as none is no value.
LEMMA TreesIn ==
  /\ \A d \in 0 .. Depth : TreesTo[d] \subseteq Trees
  /\ \A d \in 0 .. Depth : Leaf \in TreesTo[d] /\ Node(<<>>) \in TreesTo[d]
  /\ Leaf \in Trees /\ Node(<<>>) \in Trees /\ Undefined \notin Trees
<1>1. \A d \in 0 .. Depth : TreesTo[d] \subseteq Trees
  <2> TAKE d \in 0 .. Depth
  <2>1. d \in Nat /\ Depth \in Nat /\ d <= Depth /\ Depth <= Depth
    BY TreeBoundsAssumption
  <2> QED BY <2>1, TreesGrow DEF Trees
<1>2. \A d \in 0 .. Depth : Leaf \in TreesTo[d] /\ Node(<<>>) \in TreesTo[d]
  BY TreeForm
<1>3. Depth \in 0 .. Depth
  BY TreeBoundsAssumption
<1>4. Undefined \notin Trees
  <2>1. Undefined # Leaf
    BY DEF Undefined, Leaf
  <2>2. \A items : Undefined # Node(items)
    BY DEF Undefined, Node
  <2> QED BY <1>3, <2>1, <2>2, TreeForm DEF Trees
<1> QED BY <1>1, <1>2, <1>3, <1>4 DEF Trees

\* Which tokens there are.
LEMMA TokensTyped ==
  /\ Token("leaf", 0) \in Tokens
  /\ \A n \in 0 .. Arity : Token("node", n) \in Tokens
BY TreeBoundsAssumption DEF Token, Tokens

\* A function applied to each member of a sequence.
Mapped(F, s) == [i \in DOMAIN s |-> F[s[i]]]

Maps(F, X, Y) == \A x \in X : F[x] \in Y

\* A function applied to each member of a sequence.
LEMMA MappedOf ==
  ASSUME NEW X, NEW Y, NEW F, Maps(F, X, Y), NEW s \in Seq(X)
  PROVE  /\ Mapped(F, s) \in Seq(Y)
         /\ \A x \in X : Mapped(F, Append(s, x)) = Append(Mapped(F, s), F[x])
<1>1. DOMAIN s = 1 .. Len(s) /\ Len(s) \in Nat /\ \A i \in 1 .. Len(s) : s[i] \in X
  OBVIOUS
<1>2. Mapped(F, s) \in Seq(Y) /\ Len(Mapped(F, s)) = Len(s)
  <2>1. Mapped(F, s) \in [1 .. Len(s) -> Y]
    BY <1>1 DEF Mapped, Maps
  <2> QED BY <1>1, <2>1
<1>3. ASSUME NEW x \in X PROVE Mapped(F, Append(s, x)) = Append(Mapped(F, s), F[x])
  <2> DEFINE all == Mapped(F, Append(s, x))
             more == Append(Mapped(F, s), F[x])
             N == Len(s) + 1
  <2>1. /\ DOMAIN Append(s, x) = 1 .. N /\ Append(s, x)[N] = x
        /\ \A i \in 1 .. Len(s) : Append(s, x)[i] = s[i]
    BY <1>1
  <2>2. more \in Seq(Y) /\ Len(more) = N
    <3>1. F[x] \in Y
      BY DEF Maps
    <3> QED BY <1>2, <3>1
  <2>3. more[N] = F[x] /\ \A i \in 1 .. Len(s) : more[i] = Mapped(F, s)[i]
    <3>1. F[x] \in Y
      BY DEF Maps
    <3> QED BY <1>2, <3>1
  <2>4. all = [i \in 1 .. N |-> F[Append(s, x)[i]]]
    BY <2>1 DEF Mapped
  <2>5. more = [i \in 1 .. N |-> more[i]]
    <3> HIDE DEF more, N
    <3> QED BY <2>2, LenProperties
  <2>6. ASSUME NEW i \in 1 .. N PROVE more[i] = F[Append(s, x)[i]]
    <3> HIDE DEF more
    <3>1. CASE i = N
      BY <2>1, <2>3, <3>1
    <3>2. CASE i \in 1 .. Len(s)
      <4>1. Mapped(F, s)[i] = F[s[i]]
        BY <1>1, <3>2 DEF Mapped
      <4> QED BY <2>1, <2>3, <3>2, <4>1
    <3> QED BY <1>1, <3>1, <3>2
  <2> HIDE DEF more, all, N
  <2> QED BY <2>4, <2>5, <2>6 DEF all, more
<1> QED BY <1>2, <1>3

\* The tokens of some children, one after the other.
Stream(items) == FlattenSeq(Mapped(Flatten, items))

\* The tokens of children, one after the other.
LEMMA StreamTyped ==
  ASSUME NEW T, T \subseteq Trees, \A t \in T : Flatten[t] \in Seq(Tokens),
         NEW items \in Seq(T)
  PROVE  Stream(items) \in Seq(Tokens)
<1>1. Maps(Flatten, T, Seq(Tokens))
  BY DEF Maps
<1>2. Mapped(Flatten, items) \in Seq(Seq(Tokens))
  BY <1>1, MappedOf
<1> QED BY <1>2, FlattenSeqOf DEF Stream

\* A value flattens to tokens (flatten).
LEMMA FlattenTyped == \A v \in Trees : Flatten[v] \in Seq(Tokens)
<1> DEFINE S == {d \in Nat : \A v \in TreesTo[d] : Flatten[v] \in Seq(Tokens)}
<1>1. ASSUME NEW v, v = Leaf \/ v = Node(<<>>) PROVE Flatten[v] \in Seq(Tokens)
  <2>1. v \in Trees
    BY <1>1, TreesIn
  <2>2. Flatten[v] = <<Token("leaf", 0)>> \/ Flatten[v] = <<Token("node", 0)>>
    BY <1>1, <2>1, FlattenDef, TokensOfSmall
  <2>3. 0 \in 0 .. Arity
    BY TreeBoundsAssumption
  <2>4. Token("leaf", 0) \in Tokens /\ Token("node", 0) \in Tokens
    BY <2>3, TokensTyped
  <2>5. \A marker \in Tokens : <<marker>> \in Seq(Tokens)
    OBVIOUS
  <2> QED BY <2>2, <2>4, <2>5
<1>2. 0 \in S
  <2>1. 0 \in 0 .. Depth /\ ~(0 > 0)
    BY TreeBoundsAssumption
  <2> QED BY <1>1, <2>1, TreeForm
<1>3. ASSUME NEW n \in 0 .. Depth - 1, n \in S PROVE n + 1 \in S
  <2>1. n + 1 \in Nat /\ n \in 0 .. Depth /\ n + 1 \in 0 .. Depth /\ (n + 1) - 1 = n
    BY TreeBoundsAssumption
  <2>2. ASSUME NEW v \in TreesTo[n + 1] PROVE Flatten[v] \in Seq(Tokens)
    <3>1. CASE v = Leaf \/ v = Node(<<>>)
      BY <1>1, <3>1
    <3>2. CASE \E items \in Seq(TreesTo[n]) : Len(items) \in 1 .. Arity /\ v = Node(items)
      <4>1. PICK items \in Seq(TreesTo[n]) : Len(items) \in 1 .. Arity /\ v = Node(items)
        BY <3>2
      <4>2. v \in Trees /\ TreesTo[n] \subseteq Trees
        BY <2>1, TreesIn
      <4>3. \A t \in TreesTo[n] : Flatten[t] \in Seq(Tokens)
        BY <1>3
      <4>4. Stream(items) \in Seq(Tokens)
        BY <4>2, <4>3, StreamTyped
      <4>5. Flatten[v] = <<Token("node", Len(items))>> \o Stream(items)
        BY <4>1, <4>2, FlattenDef DEF TokensOf, Stream, Mapped, Node
      <4>6. <<Token("node", Len(items))>> \in Seq(Tokens)
        <5>1. Len(items) \in 0 .. Arity
          BY <4>1
        <5>2. Token("node", Len(items)) \in Tokens
          BY <5>1, TokensTyped
        <5> HIDE DEF Token
        <5> QED BY <5>2
      <4>7. <<Token("node", Len(items))>> \o Stream(items) \in Seq(Tokens)
        BY <4>4, <4>6, ConcatProperties
      <4> QED BY <4>5, <4>7
    <3> QED BY <2>1, <3>1, <3>2, TreeForm
  <2> QED BY <2>1, <2>2
<1>4. Depth \in S
  <2> HIDE DEF S
  <2> QED BY <1>2, <1>3, TreeBoundsAssumption, InductionTo
<1> QED BY <1>4 DEF Trees

\* The tokens of one child more follow those of the ones before it.
LEMMA StreamOf ==
  /\ Stream(<<>>) = <<>>
  /\ \A items \in Seq(Trees), v \in Trees :
       /\ Stream(items) \in Seq(Tokens)
       /\ Stream(Append(items, v)) = Stream(items) \o Flatten[v]
<1>1. Stream(<<>>) = <<>>
  <2>1. Mapped(Flatten, <<>>) = <<>>
    BY DEF Mapped
  <2> QED BY <2>1, FlattenSeqOf DEF Stream
<1>2. ASSUME NEW items \in Seq(Trees), NEW v \in Trees
      PROVE  /\ Stream(items) \in Seq(Tokens)
             /\ Stream(Append(items, v)) = Stream(items) \o Flatten[v]
  <2>1. /\ Mapped(Flatten, items) \in Seq(Seq(Tokens))
        /\ Mapped(Flatten, Append(items, v)) = Append(Mapped(Flatten, items), Flatten[v])
    <3>1. Maps(Flatten, Trees, Seq(Tokens))
      BY FlattenTyped DEF Maps
    <3> QED BY <3>1, MappedOf
  <2>2. Flatten[v] \in Seq(Tokens)
    BY FlattenTyped
  <2> QED BY <2>1, <2>2, FlattenSeqOf DEF Stream
<1> QED BY <1>1, <1>2

\* A container is its marker and then its children (flatten).
LEMMA FlattenOf ==
  /\ Flatten[Leaf] = <<Token("leaf", 0)>>
  /\ Flatten[Node(<<>>)] = <<Token("node", 0)>>
  /\ \A items \in Seq(Trees) : Node(items) \in Trees =>
       Flatten[Node(items)] = <<Token("node", Len(items))>> \o Stream(items)
<1>1. ASSUME NEW items \in Seq(Trees), Node(items) \in Trees
      PROVE  Flatten[Node(items)] = <<Token("node", Len(items))>> \o Stream(items)
  BY <1>1, FlattenDef DEF TokensOf, Stream, Mapped, Node
<1> QED BY <1>1, TreesIn, FlattenDef, TokensOfSmall

-----------------------------------------------------------------------------
(* Reading a stream.                                                         *)

\* How a stream reads from any state of the reader, and where that ends.
ReadFrom(start, wire) ==
  LET machine[n \in 0 .. Len(wire)] ==
        IF n = 0 THEN start ELSE ReadToken(machine[n - 1], wire[n])
  IN  machine

Run(start, wire) == ReadFrom(start, wire)[Len(wire)]

Fresh == [ok |-> TRUE, open |-> <<>>, root |-> Undefined]

\* Read starts afresh, and Unflatten looks at where it ends.
LEMMA ReadIsRun ==
  ASSUME NEW wire
  PROVE  /\ Read(wire) = ReadFrom(Fresh, wire)
         /\ Unflatten(wire) = IF Run(Fresh, wire).ok /\ Run(Fresh, wire).open = <<>>
                                THEN Run(Fresh, wire).root
                                ELSE Undefined
<1>1. Read(wire) = ReadFrom(Fresh, wire)
  BY DEF Read, ReadFrom, Fresh
<1> QED BY <1>1 DEF Unflatten, Run

\* Reading from any point on, by its steps.
LEMMA ReadFromDef ==
  ASSUME NEW start, NEW wire \in Seq(Tokens)
  PROVE  /\ ReadFrom(start, wire)[0] = start
         /\ \A n \in 1 .. Len(wire) :
              ReadFrom(start, wire)[n] = ReadToken(ReadFrom(start, wire)[n - 1], wire[n])
<1> DEFINE N == Len(wire)
           Good(n, g) == g[0] = start /\ \A k \in 1 .. n : g[k] = ReadToken(g[k - 1], wire[k])
           S == {n \in Nat : \E g : Good(n, g)}
<1>1. N \in Nat
  OBVIOUS
<1>2. 0 \in S
  <2>1. Good(0, [k \in 0 .. 0 |-> start])
    OBVIOUS
  <2> QED BY <2>1
<1>3. ASSUME NEW n \in 0 .. N - 1, n \in S PROVE n + 1 \in S
  <2>1. n \in Nat /\ n + 1 \in Nat /\ (n + 1) - 1 = n
    BY <1>1
  <2>2. PICK g : Good(n, g)
    BY <1>3
  <2> DEFINE h == [k \in 0 .. n + 1 |-> IF k <= n THEN g[k] ELSE ReadToken(g[n], wire[n + 1])]
  <2>3. h[0] = start
    BY <2>1, <2>2
  <2>4. ASSUME NEW k \in 1 .. n + 1 PROVE h[k] = ReadToken(h[k - 1], wire[k])
    <3>1. k - 1 \in 0 .. n /\ h[k - 1] = g[k - 1]
      BY <2>1
    <3>2. CASE k <= n
      <4>1. h[k] = g[k] /\ k \in 1 .. n
        BY <3>2, <2>1
      <4> HIDE DEF h
      <4> QED BY <2>2, <3>1, <4>1
    <3>3. CASE k = n + 1
      <4>1. h[k] = ReadToken(g[n], wire[k]) /\ k - 1 = n
        BY <3>3, <2>1
      <4> HIDE DEF h
      <4> QED BY <3>1, <4>1
    <3>4. k <= n \/ k = n + 1
      BY <2>1
    <3> HIDE DEF h
    <3> QED BY <3>2, <3>3, <3>4
  <2>5. Good(n + 1, h)
    BY <2>3, <2>4
  <2> HIDE DEF h, Good
  <2> QED BY <2>1, <2>5
<1>4. N \in S
  <2> HIDE DEF S, N
  <2> QED BY <1>1, <1>2, <1>3, InductionTo
<1>5. PICK g : Good(N, g)
  BY <1>4
<1> DEFINE E(h) == [n \in 0 .. N |-> IF n = 0 THEN start ELSE ReadToken(h[n - 1], wire[n])]
           t == [n \in 0 .. N |-> g[n]]
           f == ReadFrom(start, wire)
<1>6. t = E(t)
  <2>1. ASSUME NEW n \in 0 .. N
        PROVE  g[n] = IF n = 0 THEN start ELSE ReadToken(t[n - 1], wire[n])
    <3>1. CASE n = 0
      BY <1>5, <3>1
    <3>2. CASE n # 0
      <4>1. n \in 1 .. N /\ n - 1 \in 0 .. N
        BY <1>1, <3>2
      <4>2. t[n - 1] = g[n - 1]
        BY <4>1
      <4> HIDE DEF t
      <4> QED BY <1>5, <3>2, <4>1, <4>2
    <3> QED BY <3>1, <3>2
  <2> QED BY <2>1
<1>7. f = CHOOSE h : h = E(h)
  BY DEF ReadFrom
<1>8. f = E(f)
  <2> HIDE DEF E, f
  <2> QED BY <1>6, <1>7
<1>9. E(f)[0] = start
  BY <1>1
<1>10. \A n \in 1 .. N : E(f)[n] = ReadToken(f[n - 1], wire[n])
  <2> TAKE n \in 1 .. N
  <2>1. n \in 0 .. N /\ n # 0
    BY <1>1
  <2> HIDE DEF f
  <2> QED BY <2>1
<1> HIDE DEF E
<1> QED BY <1>8, <1>9, <1>10

\* Reading one token more.
LEMMA RunOf ==
  ASSUME NEW start, NEW wire \in Seq(Tokens), NEW marker \in Tokens
  PROVE  /\ Run(start, <<>>) = start
         /\ Run(start, Append(wire, marker)) = ReadToken(Run(start, wire), marker)
<1>1. Run(start, <<>>) = start
  <2>1. <<>> \in Seq(Tokens) /\ Len(<<>>) = 0
    OBVIOUS
  <2> QED BY <2>1, ReadFromDef DEF Run
<1> DEFINE N == Len(wire)
           all == Append(wire, marker)
           g == ReadFrom(start, wire)
           h == ReadFrom(start, all)
<1>2. N \in Nat /\ all \in Seq(Tokens) /\ Len(all) = N + 1
  OBVIOUS
<1>3. all[N + 1] = marker /\ \A n \in 1 .. N : all[n] = wire[n]
  OBVIOUS
<1>4. g[0] = start /\ \A n \in 1 .. N : g[n] = ReadToken(g[n - 1], wire[n])
  BY ReadFromDef
<1> HIDE DEF all
<1>5. h[0] = start /\ \A n \in 1 .. N + 1 : h[n] = ReadToken(h[n - 1], all[n])
  BY <1>2, ReadFromDef
<1> HIDE DEF g, h
<1>6. g[N] = h[N]
  <2>1. ASSUME NEW n \in 0 .. N - 1, g[n] = h[n] PROVE g[n + 1] = h[n + 1]
    <3> DEFINE M == n + 1
    <3>1. M \in 1 .. N /\ M \in 1 .. N + 1 /\ M - 1 = n
      BY <1>2
    <3>2. g[M] = ReadToken(g[M - 1], wire[M]) /\ h[M] = ReadToken(h[M - 1], all[M])
      <4> HIDE DEF M, N
      <4> QED BY <1>4, <1>5, <3>1
    <3> QED BY <1>3, <2>1, <3>1, <3>2
  <2>2. N \in Nat /\ g[0] = h[0]
    BY <1>2, <1>4, <1>5
  <2> HIDE DEF N
  <2> QED BY <2>1, <2>2, SameSteps
<1>7. h[N + 1] = ReadToken(h[N], marker)
  <2> DEFINE M == N + 1
  <2>1. M \in 1 .. N + 1 /\ M - 1 = N
    BY <1>2
  <2>2. h[M] = ReadToken(h[M - 1], all[M])
    <3> HIDE DEF M, N
    <3> QED BY <1>5, <2>1
  <2> QED BY <1>3, <2>1, <2>2
<1>8. Run(start, wire) = g[N] /\ Run(start, all) = h[N + 1]
  BY <1>2 DEF Run, g, h
<1> QED BY <1>1, <1>6, <1>7, <1>8 DEF all

\* A token stands in the one stream or the other of two joined.
LEMMA TokensConcat ==
  /\ \A left, right \in Seq(Tokens) : left \o right \in Seq(Tokens)
  /\ \A left, right \in Seq(Tokens), marker \in Tokens :
       left \o Append(right, marker) = Append(left \o right, marker)
  /\ \A left, mid, right \in Seq(Tokens) : (left \o mid) \o right = left \o (mid \o right)
  /\ \A tokens \in Seq(Tokens) : tokens \o <<>> = tokens /\ <<>> \o tokens = tokens
  /\ \A tokens \in Seq(Tokens), marker \in Tokens :
       Append(tokens, marker) = tokens \o <<marker>> /\ <<marker>> \in Seq(Tokens)
<1>1. \A left, right \in Seq(Tokens) : left \o right \in Seq(Tokens)
  OBVIOUS
<1>2. \A left, mid, right \in Seq(Tokens) : (left \o mid) \o right = left \o (mid \o right)
  BY ConcatAssociative
<1>3. \A tokens \in Seq(Tokens), marker \in Tokens :
        Append(tokens, marker) = tokens \o <<marker>> /\ <<marker>> \in Seq(Tokens)
  OBVIOUS
<1>4. \A tokens \in Seq(Tokens) : tokens \o <<>> = tokens /\ <<>> \o tokens = tokens
  BY ConcatEmptySeq
<1>5. ASSUME NEW left \in Seq(Tokens), NEW right \in Seq(Tokens), NEW marker \in Tokens
      PROVE  left \o Append(right, marker) = Append(left \o right, marker)
  <2>1. left \o Append(right, marker) = left \o (right \o <<marker>>)
    BY <1>3
  <2>2. Append(left \o right, marker) = (left \o right) \o <<marker>>
    BY <1>1, <1>3
  <2>3. <<marker>> \in Seq(Tokens)
    BY <1>3
  <2> QED BY <1>2, <2>1, <2>2, <2>3
<1> QED BY <1>1, <1>2, <1>3, <1>4, <1>5

\* Reading two streams in turn is reading them joined.
LEMMA RunConcat ==
  ASSUME NEW start, NEW left \in Seq(Tokens), NEW right \in Seq(Tokens)
  PROVE  Run(start, left \o right) = Run(Run(start, left), right)
<1> DEFINE S == {n \in Nat : \A tokens \in Seq(Tokens) : Len(tokens) = n =>
                   Run(start, left \o tokens) = Run(Run(start, left), tokens)}
<1>1. 0 \in S
  <2>1. ASSUME NEW tokens \in Seq(Tokens), Len(tokens) = 0
        PROVE  Run(start, left \o tokens) = Run(Run(start, left), tokens)
    <3>1. tokens = <<>> /\ left \o tokens = left
      BY <2>1
    <3>2. Token("leaf", 0) \in Tokens
      BY TokensTyped
    <3> QED BY <3>1, <3>2, RunOf
  <2> QED BY <2>1
<1>2. ASSUME NEW n \in Nat, n \in S PROVE n + 1 \in S
  <2>1. ASSUME NEW tokens \in Seq(Tokens), Len(tokens) = n + 1
        PROVE  Run(start, left \o tokens) = Run(Run(start, left), tokens)
    <3> DEFINE front == SubSeq(tokens, 1, n)
               last == tokens[n + 1]
    <3>1. front \in Seq(Tokens) /\ Len(front) = n /\ last \in Tokens
      BY <2>1
    <3>2. tokens = Append(front, last)
      BY <2>1
    <3>3. left \o front \in Seq(Tokens)
      BY <3>1, ConcatProperties
    <3>4. Run(start, left \o front) = Run(Run(start, left), front)
      <4> HIDE DEF front
      <4> QED BY <1>2, <3>1
    <3> HIDE DEF front, last
    <3>5. left \o Append(front, last) = Append(left \o front, last)
      <4>1. \A mid \in Seq(Tokens), marker \in Tokens :
              left \o Append(mid, marker) = Append(left \o mid, marker)
        BY TokensConcat
      <4> QED BY <3>1, <4>1
    <3>6. Run(start, Append(left \o front, last)) = ReadToken(Run(start, left \o front), last)
      BY <3>1, <3>3, RunOf
    <3>7. Run(Run(start, left), Append(front, last)) = ReadToken(Run(Run(start, left), front), last)
      BY <3>1, RunOf
    <3> QED BY <3>2, <3>4, <3>5, <3>6, <3>7, Zenon
  <2> QED BY <2>1
<1>3. \A n \in Nat : n \in S
  <2> HIDE DEF S
  <2> QED BY <1>1, <1>2, Induction
<1>4. Len(right) \in Nat
  OBVIOUS
<1> QED BY <1>3, <1>4

-----------------------------------------------------------------------------
(* Where a value goes.                                                       *)

OpenFrames == [size : 1 .. Arity, items : Seq(Trees)]
Machines   == [ok : BOOLEAN, open : Seq(OpenFrames), root : Values]

HasRoom(frame) == Len(frame.items) + 1 < frame.size

\* Room is the innermost frame that one more child does not fill.
LEMMA RoomOf ==
  ASSUME NEW open \in Seq(OpenFrames)
  PROVE  /\ Room(open) \in 0 .. Len(open)
         /\ Room(open) > 0 => HasRoom(open[Room(open)])
         /\ \A n \in 1 .. Len(open) : HasRoom(open[n]) => n <= Room(open)
<1> DEFINE S == {0} \cup {n \in 1 .. Len(open) : Len(open[n].items) + 1 < open[n].size}
<1>1. Len(open) \in Nat
  OBVIOUS
<1>2. S \in SUBSET (0 .. Len(open)) /\ S # {}
  BY <1>1
<1>3. Room(open) = Max(S)
  BY DEF Room
<1>4. Max(S) \in S /\ \A n \in S : n <= Max(S)
  <2> HIDE DEF S
  <2> QED BY <1>1, <1>2, MaxOf
<1>5. Room(open) \in S /\ \A n \in S : n <= Room(open)
  BY <1>3, <1>4
<1>6. \A n \in 1 .. Len(open) : HasRoom(open[n]) => n \in S
  BY DEF HasRoom
<1>7. Room(open) > 0 => HasRoom(open[Room(open)])
  BY <1>5 DEF HasRoom
<1> HIDE DEF S
<1> QED BY <1>2, <1>5, <1>6, <1>7

\* What Append does, position by position.
LEMMA AppendOf ==
  ASSUME NEW T, NEW s \in Seq(T), NEW x \in T
  PROVE  /\ Append(s, x) \in Seq(T) /\ Len(Append(s, x)) = Len(s) + 1
         /\ Append(s, x)[Len(s) + 1] = x
         /\ \A n \in 1 .. Len(s) : Append(s, x)[n] = s[n]
         /\ Len(s) \in Nat
         /\ SubSeq(Append(s, x), 1, Len(s)) = s
         /\ \A n \in 0 .. Len(s) : SubSeq(Append(s, x), 1, n) = SubSeq(s, 1, n)
OBVIOUS

\* Room with one more frame open.
LEMMA RoomAppend ==
  ASSUME NEW open \in Seq(OpenFrames), NEW frame \in OpenFrames
  PROVE  Room(Append(open, frame)) = IF HasRoom(frame) THEN Len(open) + 1 ELSE Room(open)
<1> DEFINE all == Append(open, frame)
           N == Len(open)
<1>1. /\ all \in Seq(OpenFrames) /\ Len(all) = N + 1 /\ N \in Nat
      /\ all[N + 1] = frame /\ \A n \in 1 .. N : all[n] = open[n]
  BY AppendOf
<1> HIDE DEF all
<1>2. /\ Room(all) \in 0 .. N + 1
      /\ Room(all) > 0 => HasRoom(all[Room(all)])
      /\ \A n \in 1 .. N + 1 : HasRoom(all[n]) => n <= Room(all)
  BY <1>1, RoomOf
<1>3. /\ Room(open) \in 0 .. N
      /\ Room(open) > 0 => HasRoom(open[Room(open)])
      /\ \A n \in 1 .. N : HasRoom(open[n]) => n <= Room(open)
  BY RoomOf
<1> HIDE DEF N
<1>4. CASE HasRoom(frame)
  <2>1. N + 1 \in 1 .. N + 1 /\ HasRoom(all[N + 1])
    BY <1>1, <1>4
  <2>2. N + 1 <= Room(all)
    BY <1>2, <2>1
  <2>3. Room(all) = N + 1
    BY <1>1, <1>2, <2>2
  <2> QED BY <1>4, <2>3 DEF all, N
<1>5. CASE ~HasRoom(frame)
  <2>1. Room(all) # N + 1
    BY <1>1, <1>2, <1>5
  <2>2. Room(all) \in 0 .. N
    BY <1>1, <1>2, <2>1
  <2>3. Room(all) <= Room(open)
    <3>1. CASE Room(all) = 0
      BY <1>3, <3>1
    <3>2. CASE Room(all) > 0
      <4>1. Room(all) \in 1 .. N
        BY <2>2, <3>2
      <4> QED BY <1>1, <1>2, <1>3, <3>2, <4>1
    <3> QED BY <2>2, <3>1, <3>2
  <2>4. Room(open) <= Room(all)
    <3>1. CASE Room(open) = 0
      BY <2>2, <3>1
    <3>2. CASE Room(open) > 0
      <4>1. Room(open) \in 1 .. N /\ Room(open) \in 1 .. N + 1
        BY <1>1, <1>3, <3>2
      <4> QED BY <1>1, <1>2, <1>3, <3>2, <4>1
    <3> QED BY <1>3, <3>1, <3>2
  <2>5. Room(all) = Room(open)
    BY <1>3, <2>2, <2>3, <2>4
  <2> QED BY <1>5, <2>5 DEF all
<1> QED BY <1>4, <1>5

\* Closing by its steps, a frame at a time.
LEMMA ClosingDef ==
  ASSUME NEW T, NEW open \in Seq(T), NEW value
  PROVE  /\ Closing(open, value)[0] = value
         /\ \A k \in 1 .. Len(open) :
              Closing(open, value)[k] =
                Node(Append(open[Len(open) - k + 1].items, Closing(open, value)[k - 1]))
<1> DEFINE N == Len(open)
           Wrap(k, x) == Node(Append(open[N - k + 1].items, x))
           Good(n, g) == g[0] = value /\ \A k \in 1 .. n : g[k] = Wrap(k, g[k - 1])
           S == {n \in Nat : \E g : Good(n, g)}
<1>1. N \in Nat
  OBVIOUS
<1>2. 0 \in S
  <2>1. Good(0, [k \in 0 .. 0 |-> value])
    OBVIOUS
  <2> QED BY <2>1
<1>3. ASSUME NEW n \in 0 .. N - 1, n \in S PROVE n + 1 \in S
  <2>1. n \in Nat /\ n + 1 \in Nat /\ (n + 1) - 1 = n
    BY <1>1
  <2>2. PICK g : Good(n, g)
    BY <1>3
  <2> DEFINE h == [k \in 0 .. n + 1 |-> IF k <= n THEN g[k] ELSE Wrap(k, g[n])]
  <2> HIDE DEF Wrap
  <2>3. h[0] = value
    BY <2>1, <2>2
  <2>4. ASSUME NEW k \in 1 .. n + 1 PROVE h[k] = Wrap(k, h[k - 1])
    <3>1. k - 1 \in 0 .. n /\ h[k - 1] = g[k - 1]
      BY <2>1
    <3>2. CASE k <= n
      <4>1. h[k] = g[k] /\ k \in 1 .. n
        BY <3>2, <2>1
      <4> HIDE DEF h
      <4> QED BY <2>2, <3>1, <4>1
    <3>3. CASE k = n + 1
      <4>1. h[k] = Wrap(k, g[n]) /\ k - 1 = n
        BY <3>3, <2>1
      <4> HIDE DEF h
      <4> QED BY <3>1, <4>1
    <3>4. k <= n \/ k = n + 1
      BY <2>1
    <3> HIDE DEF h
    <3> QED BY <3>2, <3>3, <3>4
  <2>5. Good(n + 1, h)
    BY <2>3, <2>4
  <2> HIDE DEF h, Good
  <2> QED BY <2>1, <2>5
<1>4. N \in S
  <2> HIDE DEF S, N
  <2> QED BY <1>1, <1>2, <1>3, InductionTo
<1>5. PICK g : Good(N, g)
  BY <1>4
<1> DEFINE E(h) == [k \in 0 .. N |-> IF k = 0 THEN value ELSE Wrap(k, h[k - 1])]
           t == [n \in 0 .. N |-> g[n]]
           f == Closing(open, value)
<1>6. f = CHOOSE h : h = E(h)
  BY DEF Closing
<1> HIDE DEF Wrap
<1>7. t = E(t)
  <2>1. ASSUME NEW n \in 0 .. N
        PROVE  g[n] = IF n = 0 THEN value ELSE Wrap(n, t[n - 1])
    <3>1. CASE n = 0
      BY <1>5, <3>1
    <3>2. CASE n # 0
      <4>1. n \in 1 .. N /\ n - 1 \in 0 .. N
        BY <1>1, <3>2
      <4>2. t[n - 1] = g[n - 1]
        BY <4>1
      <4> HIDE DEF t
      <4> QED BY <1>5, <3>2, <4>1, <4>2
    <3> QED BY <3>1, <3>2
  <2> QED BY <2>1
<1>8. f = E(f)
  <2> HIDE DEF E, f
  <2> QED BY <1>6, <1>7
<1>9. E(f)[0] = value
  BY <1>1
<1>10. \A n \in 1 .. N : E(f)[n] = Wrap(n, f[n - 1])
  <2> TAKE n \in 1 .. N
  <2>1. n \in 0 .. N /\ n # 0
    BY <1>1
  <2> HIDE DEF f
  <2> QED BY <2>1
<1>11. f[0] = value /\ \A n \in 1 .. N : f[n] = Wrap(n, f[n - 1])
  <2> HIDE DEF E, f
  <2> QED BY <1>8, <1>9, <1>10
<1> QED BY <1>11 DEF Wrap

(* What a frame on top of the others adds.                                   *)
LEMMA ClosingAppend ==
  ASSUME NEW open \in Seq(OpenFrames), NEW frame \in OpenFrames, NEW value,
         NEW k \in 0 .. Len(open)
  PROVE  Closing(Append(open, frame), value)[k + 1]
           = Closing(open, Node(Append(frame.items, value)))[k]
<1> DEFINE all == Append(open, frame)
           N == Len(open)
           made == Node(Append(frame.items, value))
           f == Closing(all, value)
           h == Closing(open, made)
           g == [n \in 0 .. N |-> f[n + 1]]
<1>1. /\ all \in Seq(OpenFrames) /\ Len(all) = N + 1 /\ N \in Nat
      /\ all[N + 1] = frame /\ \A n \in 1 .. N : all[n] = open[n]
  BY AppendOf
<1> HIDE DEF all
<1>2. /\ f[0] = value
      /\ \A n \in 1 .. N + 1 : f[n] = Node(Append(all[(N + 1) - n + 1].items, f[n - 1]))
  <2>1. /\ f[0] = value
        /\ \A n \in 1 .. Len(all) : f[n] = Node(Append(all[Len(all) - n + 1].items, f[n - 1]))
    BY <1>1, ClosingDef
  <2> HIDE DEF f, N
  <2> QED BY <1>1, <2>1, Zenon
<1>3. /\ h[0] = made
      /\ \A n \in 1 .. N : h[n] = Node(Append(open[N - n + 1].items, h[n - 1]))
  BY ClosingDef
<1> HIDE DEF f, h
<1>4. f[1] = made
  <2> DEFINE one == 1
  <2>1. one \in 1 .. N + 1 /\ (N + 1) - one + 1 = N + 1 /\ one - 1 = 0
    BY <1>1
  <2>2. f[one] = Node(Append(all[(N + 1) - one + 1].items, f[one - 1]))
    <3> HIDE DEF one, N
    <3> QED BY <1>2, <2>1
  <2> QED BY <1>1, <1>2, <2>1, <2>2
<1> HIDE DEF made
<1>5. ASSUME NEW n \in 0 .. N - 1, f[n + 1] = h[n] PROVE f[n + 2] = h[n + 1]
  <2> DEFINE P == n + 1
             Q == n + 2
  <2>1. /\ P \in 1 .. N /\ Q \in 1 .. N + 1 /\ N - n \in 1 .. N
        /\ N - P + 1 = N - n /\ (N + 1) - Q + 1 = N - n /\ P - 1 = n /\ Q - 1 = P
    BY <1>1
  <2>2. f[Q] = Node(Append(all[(N + 1) - Q + 1].items, f[Q - 1]))
    <3> HIDE DEF Q, P, N
    <3> QED BY <1>2, <2>1
  <2>3. h[P] = Node(Append(open[N - P + 1].items, h[P - 1]))
    <3> HIDE DEF Q, P, N
    <3> QED BY <1>3, <2>1
  <2>4. all[N - n] = open[N - n]
    <3> HIDE DEF N, P, Q
    <3> QED BY <1>1, <2>1
  <2>5. f[P] = h[n]
    BY <1>5
  <2> HIDE DEF P, Q, N
  <2>6. f[Q] = h[P]
    BY <2>1, <2>2, <2>3, <2>4, <2>5
  <2> QED BY <2>6 DEF P, Q
<1>6. g[k] = h[k]
  <2>1. k \in Nat /\ k <= N
    BY <1>1
  <2>2. g[0] = h[0]
    <3>1. 0 \in 0 .. N /\ 0 + 1 = 1
      BY <1>1
    <3> HIDE DEF N
    <3> QED BY <1>3, <1>4, <3>1
  <2>3. ASSUME NEW n \in 0 .. k - 1, g[n] = h[n] PROVE g[n + 1] = h[n + 1]
    <3>1. n \in 0 .. N /\ n + 1 \in 0 .. N /\ n \in 0 .. N - 1 /\ (n + 1) + 1 = n + 2
      BY <2>1, <1>1
    <3>2. g[n] = f[n + 1] /\ g[n + 1] = f[n + 2]
      BY <3>1
    <3> HIDE DEF g, N
    <3> QED BY <1>5, <2>3, <3>1, <3>2
  <2> HIDE DEF g, N
  <2> QED BY <2>1, <2>2, <2>3, SameSteps
<1>7. g[k] = f[k + 1]
  <2>1. k \in 0 .. N
    OBVIOUS
  <2> HIDE DEF N, f
  <2> QED BY <2>1
<1> QED BY <1>6, <1>7 DEF f, h, all, made

(* A value goes into the top frame while that has room for more; else it     *)
(* fills it, and the container it makes goes where the frame was.            *)
LEMMA PlacedAppend ==
  ASSUME NEW m \in Machines, NEW open \in Seq(OpenFrames), NEW frame \in OpenFrames,
         NEW value
  PROVE  Placed([m EXCEPT !.open = Append(open, frame)], value) =
           IF HasRoom(frame)
             THEN [m EXCEPT !.open =
                     Append(open, [frame EXCEPT !.items = Append(@, value)])]
             ELSE Placed([m EXCEPT !.open = open], Node(Append(frame.items, value)))
<1> DEFINE all == Append(open, frame)
           N == Len(open)
           wide == [m EXCEPT !.open = all]
           narrow == [m EXCEPT !.open = open]
           made == Node(Append(frame.items, value))
<1>1. /\ all \in Seq(OpenFrames) /\ Len(all) = N + 1 /\ N \in Nat
      /\ all[N + 1] = frame /\ \A n \in 1 .. N : all[n] = open[n]
      /\ SubSeq(all, 1, N) = open
      /\ \A n \in 0 .. N : SubSeq(all, 1, n) = SubSeq(open, 1, n)
  BY AppendOf
<1>2. wide.open = all /\ narrow.open = open
  BY DEF Machines
<1>3. /\ \A x : [wide EXCEPT !.open = x] = [m EXCEPT !.open = x]
      /\ \A x : [narrow EXCEPT !.open = x] = [m EXCEPT !.open = x]
      /\ \A x, y : [wide EXCEPT !.open = x, !.root = y] = [m EXCEPT !.open = x, !.root = y]
      /\ \A x, y : [narrow EXCEPT !.open = x, !.root = y] = [m EXCEPT !.open = x, !.root = y]
  BY DEF Machines
<1>4. Room(all) = IF HasRoom(frame) THEN N + 1 ELSE Room(open)
  BY RoomAppend
<1>5. Room(open) \in 0 .. N
  BY RoomOf
<1>6. CASE HasRoom(frame)
  <2>1. Room(all) = N + 1 /\ N + 1 # 0 /\ Len(all) - (N + 1) = 0 /\ (N + 1) - 1 = N
    BY <1>1, <1>4, <1>6
  <2>2. Closing(all, value)[0] = value
    BY <1>1, ClosingDef
  <2> HIDE DEF all, N, wide, narrow, made
  <2>3. Placed(wide, value) =
          [wide EXCEPT !.open = Append(SubSeq(all, 1, N),
             [all[N + 1] EXCEPT !.items = Append(@, value)])]
    BY <1>2, <2>1, <2>2 DEF Placed
  <2> QED BY <1>1, <1>3, <1>6, <2>3 DEF wide, all
<1>7. CASE ~HasRoom(frame)
  <2>1. Room(all) = Room(open) /\ N - Room(open) \in 0 .. N
    BY <1>1, <1>4, <1>5, <1>7
  <2>2. Len(all) - Room(all) = (N - Room(open)) + 1
    BY <1>1, <1>5, <2>1
  <2>3. Closing(all, value)[(N - Room(open)) + 1] = Closing(open, made)[N - Room(open)]
    BY <2>1, ClosingAppend
  <2> DEFINE x == Closing(open, made)[N - Room(open)]
  <2>4. CASE Room(open) = 0
    <3> HIDE DEF all, wide, narrow, made
    <3>1. Placed(wide, value) = [wide EXCEPT !.open = <<>>, !.root = x]
      BY <1>2, <2>1, <2>2, <2>3, <2>4 DEF Placed
    <3>2. Placed(narrow, made) = [narrow EXCEPT !.open = <<>>, !.root = x]
      BY <1>2, <2>4 DEF Placed
    <3>3. Placed(wide, value) = Placed(narrow, made)
      <4> HIDE DEF x
      <4> QED BY <1>3, <3>1, <3>2
    <3> QED BY <1>7, <3>3 DEF wide, narrow, made, all
  <2>5. CASE Room(open) # 0
    <3>1. Room(open) \in 1 .. N /\ Room(open) - 1 \in 0 .. N
      BY <1>1, <1>5, <2>5
    <3>2. all[Room(open)] = open[Room(open)]
      BY <1>1, <3>1
    <3>3. SubSeq(all, 1, Room(open) - 1) = SubSeq(open, 1, Room(open) - 1)
      BY <1>1, <3>1
    <3> DEFINE y == Append(SubSeq(open, 1, Room(open) - 1),
                           [open[Room(open)] EXCEPT !.items = Append(@, x)])
    <3> HIDE DEF all, wide, narrow, made
    <3>4. Placed(wide, value) = [wide EXCEPT !.open = y]
      BY <1>2, <2>1, <2>2, <2>3, <2>5, <3>2, <3>3 DEF Placed
    <3>5. Placed(narrow, made) = [narrow EXCEPT !.open = y]
      BY <1>2, <2>5 DEF Placed
    <3>6. Placed(wide, value) = Placed(narrow, made)
      <4> HIDE DEF y
      <4> QED BY <1>3, <3>4, <3>5
    <3> QED BY <1>7, <3>6 DEF wide, narrow, made, all
  <2> QED BY <2>4, <2>5
<1> QED BY <1>6, <1>7

\* A value with nothing open is the root.
LEMMA PlacedEmpty ==
  ASSUME NEW m \in Machines, m.open = <<>>, NEW value
  PROVE  Placed(m, value) = [m EXCEPT !.root = value]
<1>1. <<>> \in Seq(OpenFrames) /\ Len(<<>>) = 0
  OBVIOUS
<1>2. Room(<<>>) = 0
  <2>1. m.open \in Seq(OpenFrames)
    BY DEF Machines
  <2>2. Room(m.open) \in 0 .. Len(m.open)
    BY <2>1, RoomOf
  <2>3. Len(m.open) = 0
    BY <1>1
  <2> QED BY <2>2, <2>3
<1>3. Closing(<<>>, value)[0] = value
  BY <1>1, ClosingDef
<1>4. Len(<<>>) - Room(<<>>) = 0
  BY <1>1, <1>2
<1>5. Placed(m, value) = [m EXCEPT !.open = <<>>, !.root = value]
  BY <1>2, <1>3, <1>4 DEF Placed
<1>6. [m EXCEPT !.open = <<>>, !.root = value] = [m EXCEPT !.root = value]
  BY DEF Machines
<1> QED BY <1>5, <1>6

-----------------------------------------------------------------------------
(* Every value reads back.                                                   *)

\* The reader can take another value.
Live == {m \in Machines : m.ok = TRUE /\ (m.open # <<>> \/ m.root = Undefined)}

\* Reading a stream of one token.
LEMMA RunOne ==
  ASSUME NEW m, NEW marker \in Tokens
  PROVE  Run(m, <<marker>>) = ReadToken(m, marker)
<1>1. <<>> \in Seq(Tokens) /\ Append(<<>>, marker) = <<marker>>
  OBVIOUS
<1>2. Run(m, Append(<<>>, marker)) = ReadToken(Run(m, <<>>), marker) /\ Run(m, <<>>) = m
  BY <1>1, RunOf
<1> QED BY <1>1, <1>2

\* What reading a scalar's, an empty container's and a marker's token does.
LEMMA ReadsMarkers ==
  ASSUME NEW m \in Live
  PROVE  /\ Run(m, <<Token("leaf", 0)>>) = Placed(m, Leaf)
         /\ Run(m, <<Token("node", 0)>>) = Placed(m, Node(<<>>))
         /\ \A s \in 1 .. Arity :
              Run(m, <<Token("node", s)>>) =
                [m EXCEPT !.open = Append(@, [size |-> s, items |-> <<>>])]
<1>1. m.ok = TRUE /\ ~(m.open = <<>> /\ m.root # Undefined)
  BY DEF Live
<1>2. Run(m, <<Token("leaf", 0)>>) = Placed(m, Leaf)
  <2>1. Run(m, <<Token("leaf", 0)>>) = ReadToken(m, Token("leaf", 0))
    BY TokensTyped, RunOne
  <2>2. Token("leaf", 0).kind = "leaf"
    BY DEF Token
  <2> QED BY <1>1, <2>1, <2>2 DEF ReadToken
<1>3. Run(m, <<Token("node", 0)>>) = Placed(m, Node(<<>>))
  <2>1. Token("node", 0) \in Tokens
    BY TokensTyped, TreeBoundsAssumption
  <2>2. Run(m, <<Token("node", 0)>>) = ReadToken(m, Token("node", 0))
    BY <2>1, RunOne
  <2>3. Token("node", 0).kind = "node" /\ Token("node", 0).size = 0
    BY DEF Token
  <2> QED BY <1>1, <2>2, <2>3 DEF ReadToken
<1>4. ASSUME NEW s \in 1 .. Arity
      PROVE  Run(m, <<Token("node", s)>>) =
               [m EXCEPT !.open = Append(@, [size |-> s, items |-> <<>>])]
  <2>1. s \in 0 .. Arity /\ s # 0
    BY TreeBoundsAssumption
  <2>2. Token("node", s) \in Tokens
    BY <2>1, TokensTyped
  <2>3. Run(m, <<Token("node", s)>>) = ReadToken(m, Token("node", s))
    BY <2>2, RunOne
  <2>4. Token("node", s).kind = "node" /\ Token("node", s).size = s
    BY DEF Token
  <2> QED BY <1>1, <2>1, <2>3, <2>4 DEF ReadToken
<1> QED BY <1>2, <1>3, <1>4

\* Each value of a set reads back, wherever it stands.
ReadsBack(T) == \A m \in Live, t \in T : Run(m, Flatten[t]) = Placed(m, t)

\* A container reads back when its children do.
LEMMA ReadsContainer ==
  ASSUME NEW T, T \subseteq Trees, ReadsBack(T), NEW m \in Live,
         NEW items \in Seq(T), Len(items) \in 1 .. Arity
  PROVE  Run(m, <<Token("node", Len(items))>> \o Stream(items)) = Placed(m, Node(items))
<1> DEFINE s == Len(items)
           part(i) == SubSeq(items, 1, i)
           top(i) == [size |-> s, items |-> part(i)]
           mid(i) == [m EXCEPT !.open = Append(m.open, top(i))]
<1>1. s \in Nat /\ s >= 1 /\ s <= Arity /\ s - 1 \in Nat /\ m \in Machines /\ m.open \in Seq(OpenFrames)
  BY TreeBoundsAssumption DEF Live, Machines
<1>2. ASSUME NEW i \in 0 .. s - 1
      PROVE  /\ i + 1 \in 1 .. s /\ items[i + 1] \in T /\ items[i + 1] \in Trees
             /\ part(i) \in Seq(T) /\ part(i) \in Seq(Trees) /\ Len(part(i)) = i
             /\ part(i + 1) = Append(part(i), items[i + 1])
  <2>1. i + 1 \in 1 .. s /\ items[i + 1] \in T
    BY <1>1
  <2>2. part(i) \in Seq(T) /\ Len(part(i)) = i
    BY <1>1
  <2>3. part(i + 1) = Append(part(i), items[i + 1])
    BY <1>1
  <2>4. part(i) \in Seq(Trees)
    BY <2>2, SeqMonotonic
  <2> HIDE DEF part
  <2> QED BY <2>1, <2>2, <2>3, <2>4
<1>3. part(0) = <<>> /\ part(s) = items
  BY <1>1
<1> HIDE DEF part
<1>4. ASSUME NEW i \in 0 .. s - 1
      PROVE  top(i) \in OpenFrames /\ mid(i) \in Live
  <2>1. top(i) \in OpenFrames
    BY <1>1, <1>2 DEF OpenFrames
  <2>2. Append(m.open, top(i)) \in Seq(OpenFrames) /\ Append(m.open, top(i)) # <<>>
    <3> HIDE DEF top
    <3>1. /\ Append(m.open, top(i)) \in Seq(OpenFrames)
          /\ Len(Append(m.open, top(i))) = Len(m.open) + 1 /\ Len(m.open) \in Nat
      BY <1>1, <2>1, AppendOf
    <3>2. Len(<<>>) = 0
      OBVIOUS
    <3> QED BY <3>1, <3>2
  <2> HIDE DEF top
  <2> QED BY <1>1, <2>1, <2>2 DEF Live, Machines
<1>5. ASSUME NEW i \in 0 .. s - 1
      PROVE  Placed(mid(i), items[i + 1]) =
               IF i + 1 < s THEN mid(i + 1) ELSE Placed(m, Node(items))
  <2>1. HasRoom(top(i)) <=> i + 1 < s
    BY <1>2 DEF HasRoom
  <2>2. [top(i) EXCEPT !.items = Append(@, items[i + 1])] = top(i + 1)
    <3>1. \A x : [top(i) EXCEPT !.items = x] = [size |-> s, items |-> x]
      OBVIOUS
    <3>2. top(i).items = part(i)
      OBVIOUS
    <3>3. part(i + 1) = Append(part(i), items[i + 1])
      BY <1>2
    <3>4. top(i + 1) = [size |-> s, items |-> part(i + 1)]
      OBVIOUS
    <3> HIDE DEF top, s
    <3> QED BY <3>1, <3>2, <3>3, <3>4
  <2>3. Append(top(i).items, items[i + 1]) = part(i + 1)
    BY <1>2
  <2>4. [m EXCEPT !.open = m.open] = m
    BY <1>1 DEF Machines
  <2>5. Placed(mid(i), items[i + 1]) =
          IF HasRoom(top(i))
            THEN [m EXCEPT !.open =
                    Append(m.open, [top(i) EXCEPT !.items = Append(@, items[i + 1])])]
            ELSE Placed([m EXCEPT !.open = m.open], Node(Append(top(i).items, items[i + 1])))
    <3> HIDE DEF top
    <3> QED BY <1>1, <1>4, PlacedAppend
  <2>6. CASE i + 1 < s
    <3> HIDE DEF top, s
    <3> QED BY <2>1, <2>2, <2>5, <2>6
  <2>7. CASE ~(i + 1 < s)
    <3>1. i + 1 = s
      BY <1>1, <2>7
    <3> HIDE DEF top, mid
    <3> QED BY <1>3, <2>1, <2>3, <2>4, <2>5, <2>7, <3>1
  <2> QED BY <2>6, <2>7
<1>6. Run(m, <<Token("node", s)>>) = mid(0)
  <2>1. Run(m, <<Token("node", s)>>) = [m EXCEPT !.open = Append(@, [size |-> s, items |-> <<>>])]
    BY ReadsMarkers
  <2> QED BY <1>3, <2>1
<1> DEFINE S == {i \in Nat : i <= s - 1 => Run(mid(0), Stream(part(i))) = mid(i)}
<1>7. 0 \in S
  <2>1. Token("leaf", 0) \in Tokens /\ <<>> \in Seq(Tokens)
    BY TokensTyped
  <2>2. Run(mid(0), <<>>) = mid(0)
    <3> HIDE DEF mid
    <3> QED BY <2>1, RunOf
  <2>3. Stream(part(0)) = <<>>
    BY <1>3, StreamOf
  <2> HIDE DEF mid
  <2> QED BY <2>2, <2>3
<1>8. ASSUME NEW i \in 0 .. s - 1, Run(mid(0), Stream(part(i))) = mid(i)
      PROVE  Run(mid(0), Stream(part(i + 1))) = Placed(mid(i), items[i + 1])
  <2>1. Stream(part(i + 1)) = Stream(part(i)) \o Flatten[items[i + 1]]
    BY <1>2, StreamOf
  <2>2. Stream(part(i)) \in Seq(Tokens) /\ Flatten[items[i + 1]] \in Seq(Tokens)
    BY <1>2, StreamOf, FlattenTyped
  <2>3. Run(mid(i), Flatten[items[i + 1]]) = Placed(mid(i), items[i + 1])
    <3> HIDE DEF mid
    <3> QED BY <1>2, <1>4 DEF ReadsBack
  <2>4. Run(mid(0), Stream(part(i)) \o Flatten[items[i + 1]])
          = Run(Run(mid(0), Stream(part(i))), Flatten[items[i + 1]])
    <3> HIDE DEF mid
    <3> QED BY <2>2, RunConcat
  <2> HIDE DEF mid
  <2> QED BY <1>8, <2>1, <2>3, <2>4
<1>9. ASSUME NEW i \in Nat, i \in S PROVE i + 1 \in S
  <2> SUFFICES ASSUME i + 1 <= s - 1
               PROVE  Run(mid(0), Stream(part(i + 1))) = mid(i + 1)
    OBVIOUS
  <2>1. i \in 0 .. s - 1 /\ i + 1 < s /\ i <= s - 1
    BY <1>1
  <2>2. Run(mid(0), Stream(part(i))) = mid(i)
    BY <1>9, <2>1
  <2> HIDE DEF mid, s
  <2> QED BY <1>5, <1>8, <2>1, <2>2
<1>10. \A i \in Nat : i \in S
  <2> HIDE DEF S
  <2> QED BY <1>7, <1>9, Induction
<1>11. Run(mid(0), Stream(part(s))) = Placed(m, Node(items))
  <2> DEFINE last == s - 1
  <2>1. last \in 0 .. s - 1 /\ last + 1 = s /\ ~(last + 1 < s) /\ last \in Nat /\ last <= s - 1
    BY <1>1
  <2>2. Run(mid(0), Stream(part(last))) = mid(last)
    <3>1. last \in S
      <4> HIDE DEF S, last
      <4> QED BY <1>10, <2>1
    <3> HIDE DEF last, mid
    <3> QED BY <2>1, <3>1
  <2> HIDE DEF last, mid, s
  <2>3. Run(mid(0), Stream(part(last + 1))) = Placed(mid(last), items[last + 1])
    BY <1>8, <2>1, <2>2
  <2>4. Placed(mid(last), items[last + 1]) = Placed(m, Node(items))
    BY <1>5, <2>1
  <2> QED BY <2>1, <2>3, <2>4
<1>12. <<Token("node", s)>> \in Seq(Tokens) /\ Stream(items) \in Seq(Tokens)
  <2>1. s \in 0 .. Arity
    BY <1>1, TreeBoundsAssumption
  <2>2. Token("node", s) \in Tokens
    BY <2>1, TokensTyped
  <2>3. items \in Seq(Trees)
    BY SeqMonotonic
  <2>4. Leaf \in Trees
    BY TreesIn
  <2> HIDE DEF s
  <2> QED BY <2>2, <2>3, <2>4, StreamOf, TokensConcat
<1>13. Run(m, <<Token("node", s)>> \o Stream(items)) = Run(Run(m, <<Token("node", s)>>), Stream(items))
  <2> HIDE DEF s
  <2> QED BY <1>12, RunConcat
<1> HIDE DEF mid
<1> QED BY <1>3, <1>6, <1>11, <1>13

\* Every value reads back into whatever is under construction (unflatten).
LEMMA ReadsTrees == ReadsBack(Trees)
<1> DEFINE S == {d \in Nat : ReadsBack(TreesTo[d])}
<1>1. ASSUME NEW m \in Live, NEW v, v = Leaf \/ v = Node(<<>>)
      PROVE  Run(m, Flatten[v]) = Placed(m, v)
  BY <1>1, FlattenOf, ReadsMarkers
<1>2. 0 \in S
  <2>1. 0 \in 0 .. Depth /\ ~(0 > 0)
    BY TreeBoundsAssumption
  <2>2. \A v \in TreesTo[0] : v = Leaf \/ v = Node(<<>>)
    BY <2>1, TreeForm
  <2> QED BY <1>1, <2>2 DEF ReadsBack
<1>3. ASSUME NEW n \in 0 .. Depth - 1, n \in S PROVE n + 1 \in S
  <2>1. n + 1 \in Nat /\ n \in 0 .. Depth /\ n + 1 \in 0 .. Depth /\ (n + 1) - 1 = n
    BY TreeBoundsAssumption
  <2>2. TreesTo[n] \subseteq Trees /\ TreesTo[n + 1] \subseteq Trees
    BY <2>1, TreesIn
  <2>3. ReadsBack(TreesTo[n])
    BY <1>3
  <2>4. ASSUME NEW m \in Live, NEW v \in TreesTo[n + 1]
        PROVE  Run(m, Flatten[v]) = Placed(m, v)
    <3>1. CASE v = Leaf \/ v = Node(<<>>)
      BY <1>1, <3>1
    <3>2. CASE \E items \in Seq(TreesTo[n]) : Len(items) \in 1 .. Arity /\ v = Node(items)
      <4>1. PICK items \in Seq(TreesTo[n]) : Len(items) \in 1 .. Arity /\ v = Node(items)
        BY <3>2
      <4>2. items \in Seq(Trees)
        BY <2>2, SeqMonotonic
      <4>3. Flatten[v] = <<Token("node", Len(items))>> \o Stream(items)
        BY <2>2, <4>1, <4>2, FlattenOf
      <4>4. Run(m, <<Token("node", Len(items))>> \o Stream(items)) = Placed(m, Node(items))
        BY <2>2, <2>3, <4>1, ReadsContainer
      <4> QED BY <4>1, <4>3, <4>4
    <3> QED BY <2>1, <3>1, <3>2, TreeForm
  <2>5. ReadsBack(TreesTo[n + 1])
    BY <2>4 DEF ReadsBack
  <2> QED BY <2>1, <2>5
<1>4. Depth \in S
  <2> HIDE DEF S
  <2> QED BY <1>2, <1>3, TreeBoundsAssumption, InductionTo
<1> QED BY <1>4 DEF Trees

\* unflatten starts with nothing open and no root.
LEMMA FreshLive == Fresh \in Live /\ Fresh \in Machines
<1>1. <<>> \in Seq(OpenFrames)
  OBVIOUS
<1>2. Fresh \in Machines
  BY <1>1 DEF Fresh, Machines, Values
<1> QED BY <1>2 DEF Live, Fresh

(* A value's tokens read as that value.                                      *)
THEOREM ValuesReadBack == \A v \in Trees : Unflatten(Flatten[v]) = v
<1> SUFFICES ASSUME NEW v \in Trees PROVE Unflatten(Flatten[v]) = v
  OBVIOUS
<1>1. Run(Fresh, Flatten[v]) = Placed(Fresh, v)
  BY FreshLive, ReadsTrees DEF ReadsBack
<1>2. Fresh.open = <<>> /\ Fresh.ok = TRUE
  BY DEF Fresh
<1>3. Placed(Fresh, v) = [Fresh EXCEPT !.root = v]
  BY <1>2, FreshLive, PlacedEmpty
<1>4. /\ [Fresh EXCEPT !.root = v].root = v
      /\ [Fresh EXCEPT !.root = v].ok = TRUE
      /\ [Fresh EXCEPT !.root = v].open = <<>>
  BY DEF Fresh
<1> QED BY <1>1, <1>3, <1>4, ReadIsRun

-----------------------------------------------------------------------------
(* What has been read is what the reader holds.                              *)

\* The frames as deep as they stand, none of them full.
Nests(open) ==
  /\ Len(open) <= Depth
  /\ \A k \in 1 .. Len(open) : /\ open[k].items \in Seq(TreesTo[Depth - k])
                               /\ Len(open[k].items) < open[k].size

Marked == [frame \in OpenFrames |->
             <<Token("node", frame.size)>> \o Stream(frame.items)]

Spine(open) == FlattenSeq(Mapped(Marked, open))

Spells(m, tokens) ==
  /\ m \in Machines
  /\ m.ok = TRUE =>
       /\ Nests(m.open)
       /\ m.open # <<>> => m.root = Undefined /\ Spine(m.open) = tokens
       /\ m.open = <<>> => \/ m.root = Undefined /\ tokens = <<>>
                           \/ m.root \in Trees /\ Flatten[m.root] = tokens

\* A frame's marker and the children it has so far.
LEMMA MarkedOf ==
  ASSUME NEW frame \in OpenFrames
  PROVE  /\ Marked[frame] = <<Token("node", frame.size)>> \o Stream(frame.items)
         /\ Marked[frame] \in Seq(Tokens)
         /\ \A v \in Trees :
              <<Token("node", frame.size)>> \o Stream(Append(frame.items, v))
                = Marked[frame] \o Flatten[v]
<1>1. frame.size \in 0 .. Arity /\ frame.items \in Seq(Trees)
  BY TreeBoundsAssumption DEF OpenFrames
<1>2. Token("node", frame.size) \in Tokens /\ Leaf \in Trees
  BY <1>1, TokensTyped, TreesIn
<1>3. <<Token("node", frame.size)>> \in Seq(Tokens) /\ Stream(frame.items) \in Seq(Tokens)
  <2>1. <<>> \in Seq(Tokens)
    OBVIOUS
  <2> QED BY <1>1, <1>2, <2>1, StreamOf, TokensConcat
<1>4. Marked[frame] = <<Token("node", frame.size)>> \o Stream(frame.items)
  BY DEF Marked
<1>5. ASSUME NEW v \in Trees
      PROVE  <<Token("node", frame.size)>> \o Stream(Append(frame.items, v))
               = Marked[frame] \o Flatten[v]
  <2>1. Stream(Append(frame.items, v)) = Stream(frame.items) \o Flatten[v]
    BY <1>1, StreamOf
  <2>2. Flatten[v] \in Seq(Tokens)
    BY FlattenTyped
  <2>3. (<<Token("node", frame.size)>> \o Stream(frame.items)) \o Flatten[v]
          = <<Token("node", frame.size)>> \o (Stream(frame.items) \o Flatten[v])
    BY <1>3, <2>2, TokensConcat, Zenon
  <2> QED BY <1>4, <2>1, <2>3, Zenon
<1>6. Marked[frame] \in Seq(Tokens)
  BY <1>3, <1>4, TokensConcat
<1> QED BY <1>4, <1>5, <1>6

\* The spine with one more frame open.
LEMMA SpineOf ==
  /\ Spine(<<>>) = <<>>
  /\ \A open \in Seq(OpenFrames), frame \in OpenFrames :
       /\ Spine(open) \in Seq(Tokens)
       /\ Spine(Append(open, frame)) = Spine(open) \o Marked[frame]
<1>1. Spine(<<>>) = <<>>
  <2>1. Mapped(Marked, <<>>) = <<>>
    BY DEF Mapped
  <2> QED BY <2>1, FlattenSeqOf DEF Spine
<1>2. ASSUME NEW open \in Seq(OpenFrames), NEW frame \in OpenFrames
      PROVE  /\ Spine(open) \in Seq(Tokens)
             /\ Spine(Append(open, frame)) = Spine(open) \o Marked[frame]
  <2>1. Maps(Marked, OpenFrames, Seq(Tokens))
    BY MarkedOf DEF Maps
  <2>2. /\ Mapped(Marked, open) \in Seq(Seq(Tokens))
        /\ Mapped(Marked, Append(open, frame)) = Append(Mapped(Marked, open), Marked[frame])
    BY <2>1, MappedOf
  <2>3. Marked[frame] \in Seq(Tokens)
    BY MarkedOf
  <2> QED BY <2>2, <2>3, FlattenSeqOf DEF Spine
<1> QED BY <1>1, <1>2

\* One more frame nests in those already open.
LEMMA NestsAppend ==
  ASSUME NEW open \in Seq(OpenFrames), NEW frame \in OpenFrames
  PROVE  Nests(Append(open, frame)) <=>
           /\ Nests(open)
           /\ Len(open) + 1 <= Depth
           /\ frame.items \in Seq(TreesTo[Depth - (Len(open) + 1)])
           /\ Len(frame.items) < frame.size
<1> DEFINE all == Append(open, frame)
           N == Len(open)
           Fine(f, k) == f.items \in Seq(TreesTo[Depth - k]) /\ Len(f.items) < f.size
<1>1. /\ Len(all) = N + 1 /\ N \in Nat
      /\ all[N + 1] = frame /\ \A n \in 1 .. N : all[n] = open[n]
  BY AppendOf
<1>2. Nests(all) <=> Len(all) <= Depth /\ \A k \in 1 .. Len(all) : Fine(all[k], k)
  BY DEF Nests
<1>3. Nests(open) <=> N <= Depth /\ \A k \in 1 .. N : Fine(open[k], k)
  BY DEF Nests
<1> HIDE DEF all, Fine, N
<1>4. (\A k \in 1 .. N + 1 : Fine(all[k], k))
        <=> (\A k \in 1 .. N : Fine(open[k], k)) /\ Fine(frame, N + 1)
  <2>1. \A k \in 1 .. N + 1 : k \in 1 .. N \/ k = N + 1
    BY <1>1
  <2>2. N + 1 \in 1 .. N + 1 /\ \A k \in 1 .. N : k \in 1 .. N + 1
    BY <1>1
  <2>3. ASSUME \A k \in 1 .. N + 1 : Fine(all[k], k)
        PROVE  (\A k \in 1 .. N : Fine(open[k], k)) /\ Fine(frame, N + 1)
    BY <1>1, <2>2, <2>3
  <2>4. ASSUME \A k \in 1 .. N : Fine(open[k], k), Fine(frame, N + 1), NEW k \in 1 .. N + 1
        PROVE  Fine(all[k], k)
    <3>1. CASE k \in 1 .. N
      BY <1>1, <2>4, <3>1
    <3>2. CASE k = N + 1
      BY <1>1, <2>4, <3>2
    <3> QED BY <2>1, <3>1, <3>2
  <2> QED BY <2>3, <2>4
<1>5. N + 1 <= Depth => N <= Depth
  BY <1>1, TreeBoundsAssumption
<1> QED BY <1>1, <1>2, <1>3, <1>4, <1>5 DEF all, N, Fine

\* A reader in the middle of a value, or before it.
Half == {m \in Live : m.root = Undefined /\ Nests(m.open)}

\* The innermost frame apart from the others.
LEMMA SplitLast ==
  ASSUME NEW T, NEW s \in Seq(T), Len(s) > 0
  PROVE  /\ SubSeq(s, 1, Len(s) - 1) \in Seq(T)
         /\ Len(SubSeq(s, 1, Len(s) - 1)) = Len(s) - 1
         /\ s[Len(s)] \in T
         /\ s = Append(SubSeq(s, 1, Len(s) - 1), s[Len(s)])
<1> DEFINE n == Len(s) - 1
           front == SubSeq(s, 1, n)
<1>1. n \in Nat /\ n + 1 = Len(s)
  OBVIOUS
<1>2. s[n + 1] \in T /\ front \in Seq(T) /\ Len(front) = n
  BY <1>1
<1>3. s = Append(front, s[n + 1])
  BY <1>1, <1>2
<1> HIDE DEF front, n
<1> QED BY <1>1, <1>2, <1>3 DEF front, n

\* Placing a value keeps what was read spelled by what is built.
LEMMA PlacedSpells ==
  ASSUME NEW m \in Half, NEW v \in TreesTo[Depth - Len(m.open)]
  PROVE  Spells(Placed(m, v), Spine(m.open) \o Flatten[v])
<1> DEFINE Holds(n) == \A x \in Half : Len(x.open) = n =>
                         \A t \in TreesTo[Depth - n] :
                           Spells(Placed(x, t), Spine(x.open) \o Flatten[t])
           S == {n \in Nat : Holds(n)}
<1>1. 0 \in S
  <2> SUFFICES ASSUME NEW x \in Half, Len(x.open) = 0, NEW t \in TreesTo[Depth - 0]
               PROVE  Spells(Placed(x, t), Spine(x.open) \o Flatten[t])
    OBVIOUS
  <2>1. x \in Machines /\ x.open \in Seq(OpenFrames) /\ Nests(x.open)
    BY DEF Half, Live, Machines
  <2>2. x.open = <<>>
    BY <2>1
  <2>3. t \in Trees
    BY TreeBoundsAssumption DEF Trees
  <2>4. Placed(x, t) = [x EXCEPT !.root = t]
    BY <2>1, <2>2, PlacedEmpty
  <2>5. Spine(x.open) \o Flatten[t] = Flatten[t]
    BY <2>2, <2>3, SpineOf, FlattenTyped, TokensConcat
  <2>6. /\ [x EXCEPT !.root = t] \in Machines
        /\ [x EXCEPT !.root = t].open = <<>>
        /\ [x EXCEPT !.root = t].root = t
    BY <2>1, <2>2, <2>3 DEF Machines, Values
  <2> QED BY <2>1, <2>2, <2>3, <2>4, <2>5, <2>6 DEF Spells
<1>2. ASSUME NEW n \in Nat, n \in S PROVE n + 1 \in S
  <2> SUFFICES ASSUME NEW x \in Half, Len(x.open) = n + 1, NEW t \in TreesTo[Depth - (n + 1)]
               PROVE  Spells(Placed(x, t), Spine(x.open) \o Flatten[t])
    OBVIOUS
  <2> DEFINE open == SubSeq(x.open, 1, n)
             frame == x.open[n + 1]
             more == [frame EXCEPT !.items = Append(@, t)]
             made == Node(Append(frame.items, t))
  <2>1. /\ x \in Machines /\ x.open \in Seq(OpenFrames) /\ Nests(x.open)
        /\ x.root = Undefined /\ x.ok = TRUE
    BY DEF Half, Live, Machines
  <2>2. /\ open \in Seq(OpenFrames) /\ Len(open) = n /\ frame \in OpenFrames
        /\ x.open = Append(open, frame)
    <3>1. Len(x.open) > 0 /\ Len(x.open) - 1 = n
      OBVIOUS
    <3> QED BY <2>1, <3>1, SplitLast
  <2> HIDE DEF open, frame
  <2>3. /\ Nests(open) /\ n + 1 <= Depth /\ frame.items \in Seq(TreesTo[Depth - (n + 1)])
        /\ Len(frame.items) < frame.size
    BY <2>1, <2>2, NestsAppend
  <2>4. /\ Depth - n \in 0 .. Depth /\ Depth - (n + 1) \in 0 .. Depth /\ Depth - n > 0
        /\ (Depth - n) - 1 = Depth - (n + 1)
    BY <2>3, TreeBoundsAssumption
  <2>5. TreesTo[Depth - (n + 1)] \subseteq Trees /\ t \in Trees
    BY <2>4, TreesIn
  <2>6. frame.size \in 1 .. Arity /\ frame.items \in Seq(Trees) /\ Len(frame.items) \in Nat
    BY <2>2 DEF OpenFrames
  <2>7. /\ Append(frame.items, t) \in Seq(TreesTo[Depth - (n + 1)])
        /\ Append(frame.items, t) \in Seq(Trees)
        /\ Len(Append(frame.items, t)) = Len(frame.items) + 1
    <3> DEFINE T == TreesTo[Depth - (n + 1)]
               items == frame.items
    <3>1. items \in Seq(T) /\ items \in Seq(Trees) /\ t \in T /\ t \in Trees
      BY <2>3, <2>5, <2>6
    <3> SUFFICES /\ Append(items, t) \in Seq(T)
                 /\ Append(items, t) \in Seq(Trees)
                 /\ Len(Append(items, t)) = Len(items) + 1
      OBVIOUS
    <3> HIDE DEF T, items
    <3> QED BY <3>1, AppendOf
  <2>8. /\ Spine(open) \in Seq(Tokens) /\ Marked[frame] \in Seq(Tokens)
        /\ Flatten[t] \in Seq(Tokens)
        /\ Spine(x.open) = Spine(open) \o Marked[frame]
    BY <2>2, <2>5, SpineOf, MarkedOf, FlattenTyped
  <2>9. Spine(x.open) \o Flatten[t] = Spine(open) \o (Marked[frame] \o Flatten[t])
    <3>1. (Spine(open) \o Marked[frame]) \o Flatten[t]
            = Spine(open) \o (Marked[frame] \o Flatten[t])
      BY <2>8, TokensConcat, Zenon
    <3> QED BY <2>8, <3>1, Zenon
  <2>10. [x EXCEPT !.open = Append(open, frame)] = x
    BY <2>1, <2>2 DEF Machines
  <2>11. Placed(x, t) = IF HasRoom(frame)
                          THEN [x EXCEPT !.open = Append(open, more)]
                          ELSE Placed([x EXCEPT !.open = open], made)
    <3>1. Placed([x EXCEPT !.open = Append(open, frame)], t) =
            IF HasRoom(frame)
              THEN [x EXCEPT !.open = Append(open, more)]
              ELSE Placed([x EXCEPT !.open = open], made)
      <4> HIDE DEF HasRoom
      <4> QED BY <2>1, <2>2, PlacedAppend
    <3> HIDE DEF more, made
    <3> QED BY <2>10, <3>1
  <2>12. CASE HasRoom(frame)
    <3>1. more \in OpenFrames /\ more.size = frame.size /\ more.items = Append(frame.items, t)
      BY <2>2, <2>6, <2>7 DEF OpenFrames
    <3>2. Len(more.items) < more.size
      BY <2>7, <2>12, <3>1 DEF HasRoom
    <3>3. Marked[more] = Marked[frame] \o Flatten[t]
      BY <2>2, <2>5, <3>1, MarkedOf
    <3> HIDE DEF more
    <3>4. Nests(Append(open, more))
      BY <2>2, <2>3, <2>7, <3>1, <3>2, NestsAppend
    <3>5. Spine(Append(open, more)) = Spine(x.open) \o Flatten[t]
      BY <2>2, <2>9, <3>1, <3>3, SpineOf
    <3>6. Append(open, more) \in Seq(OpenFrames) /\ Append(open, more) # <<>>
      <4>1. Append(open, more) \in Seq(OpenFrames) /\ Len(Append(open, more)) = n + 1
        BY <2>2, <3>1, AppendOf
      <4>2. Len(<<>>) # n + 1
        OBVIOUS
      <4> QED BY <4>1, <4>2
    <3> DEFINE all == Append(open, more)
               y == [x EXCEPT !.open = all]
    <3>7. y \in Machines /\ y.open = all /\ y.root = Undefined
      <4>1. all \in Seq(OpenFrames)
        BY <3>6
      <4> HIDE DEF all
      <4> QED BY <2>1, <4>1 DEF Machines
    <3>8. Placed(x, t) = y
      BY <2>11, <2>12
    <3> HIDE DEF y
    <3> QED BY <3>4, <3>5, <3>6, <3>7, <3>8 DEF Spells
  <2>13. CASE ~HasRoom(frame)
    <3>1. Len(frame.items) + 1 = frame.size
      BY <2>3, <2>6, <2>13 DEF HasRoom
    <3>2. made \in TreesTo[Depth - n]
      <4>1. Len(Append(frame.items, t)) \in 1 .. Arity
        BY <2>6, <2>7, <3>1
      <4> QED BY <2>4, <2>7, <4>1, TreeForm
    <3>3. made \in Trees
      BY <2>4, <3>2, TreesIn
    <3>4. Flatten[made] = Marked[frame] \o Flatten[t]
      <4>1. Flatten[made] = <<Token("node", Len(Append(frame.items, t)))>> \o Stream(Append(frame.items, t))
        BY <2>7, <3>3, FlattenOf
      <4>2. Len(Append(frame.items, t)) = frame.size
        BY <2>7, <3>1
      <4> QED BY <2>2, <2>5, <4>1, <4>2, MarkedOf
    <3> DEFINE y == [x EXCEPT !.open = open]
    <3> HIDE DEF made
    <3>5. y \in Machines /\ y.open = open /\ y.root = Undefined /\ y.ok = TRUE
      BY <2>1, <2>2 DEF Machines
    <3>6. Placed(x, t) = Placed(y, made)
      BY <2>11, <2>13 DEF made
    <3> HIDE DEF y
    <3>7. y \in Half
      BY <2>3, <3>5 DEF Half, Live
    <3>8. Spells(Placed(y, made), Spine(y.open) \o Flatten[made])
      BY <1>2, <2>2, <3>2, <3>5, <3>7
    <3> QED BY <2>9, <3>4, <3>5, <3>6, <3>8
  <2> QED BY <2>12, <2>13
<1>3. \A n \in Nat : n \in S
  <2> HIDE DEF S
  <2> QED BY <1>1, <1>2, Induction
<1>4. Len(m.open) \in Nat
  BY DEF Half, Live, Machines
<1>5. Holds(Len(m.open))
  BY <1>3, <1>4
<1> QED BY <1>5

\* So does each token (unflatten's loop).
LEMMA ReadSpells ==
  ASSUME NEW m, NEW tokens \in Seq(Tokens), Spells(m, tokens), NEW marker \in Tokens,
         Len(ReadToken(m, marker).open) <= Depth
  PROVE  Spells(ReadToken(m, marker), Append(tokens, marker))
<1> DEFINE refused == ~m.ok \/ marker.kind = "bad" \/ (m.open = <<>> /\ m.root # Undefined)
<1>1. m \in Machines /\ m.ok \in BOOLEAN /\ m.open \in Seq(OpenFrames) /\ Len(m.open) \in Nat
  BY DEF Spells, Machines
<1>2. CASE refused
  <2>1. ReadToken(m, marker) = [m EXCEPT !.ok = FALSE]
    BY <1>2 DEF ReadToken
  <2>2. [m EXCEPT !.ok = FALSE] \in Machines /\ [m EXCEPT !.ok = FALSE].ok = FALSE
    BY <1>1 DEF Machines
  <2> QED BY <2>1, <2>2 DEF Spells
<1>3. CASE ~refused
  <2>1. m.ok = TRUE /\ ~(m.open = <<>> /\ m.root # Undefined) /\ marker.kind # "bad"
    BY <1>1, <1>3
  <2>2. m.root = Undefined /\ Nests(m.open) /\ Spine(m.open) = tokens
    <3>1. CASE m.open = <<>>
      <4>1. m.root \notin Trees
        BY <2>1, <3>1, TreesIn
      <4> QED BY <2>1, <3>1, <4>1, SpineOf DEF Spells
    <3>2. CASE m.open # <<>>
      BY <2>1, <3>2 DEF Spells
    <3> QED BY <3>1, <3>2
  <2>3. m \in Half
    BY <1>1, <2>1, <2>2 DEF Half, Live
  <2>4. Append(tokens, marker) = tokens \o <<marker>>
    BY TokensConcat
  <2>5. Len(m.open) <= Depth /\ Depth - Len(m.open) \in 0 .. Depth
    <3>1. Len(m.open) <= Depth
      BY <2>2 DEF Nests
    <3> QED BY <1>1, <3>1, TreeBoundsAssumption
  <2>6. \A v \in TreesTo[Depth - Len(m.open)] :
          Flatten[v] = <<marker>> => Spells(Placed(m, v), Append(tokens, marker))
    BY <2>2, <2>3, <2>4, PlacedSpells
  <2>7. CASE marker = Token("leaf", 0)
    <3>1. marker.kind = "leaf"
      BY <2>7 DEF Token
    <3>2. ReadToken(m, marker) = Placed(m, Leaf)
      BY <1>3, <3>1 DEF ReadToken
    <3>3. Leaf \in TreesTo[Depth - Len(m.open)] /\ Flatten[Leaf] = <<marker>>
      BY <2>5, <2>7, TreesIn, FlattenOf
    <3> QED BY <2>6, <3>2, <3>3
  <2>8. CASE marker = Token("node", 0)
    <3>1. marker.kind = "node" /\ marker.size = 0
      BY <2>8 DEF Token
    <3>2. ReadToken(m, marker) = Placed(m, Node(<<>>))
      BY <1>3, <3>1 DEF ReadToken
    <3>3. Node(<<>>) \in TreesTo[Depth - Len(m.open)] /\ Flatten[Node(<<>>)] = <<marker>>
      BY <2>5, <2>8, TreesIn, FlattenOf
    <3> QED BY <2>6, <3>2, <3>3
  <2>9. ASSUME NEW s \in 1 .. Arity, marker = Token("node", s)
        PROVE  Spells(ReadToken(m, marker), Append(tokens, marker))
    <3> DEFINE frame == [size |-> s, items |-> <<>>]
               all == Append(m.open, frame)
               y == [m EXCEPT !.open = all]
    <3>1. marker.kind = "node" /\ marker.size = s /\ s # 0
      BY <2>9 DEF Token
    <3>2. ReadToken(m, marker) = [m EXCEPT !.open = Append(@, [size |-> marker.size, items |-> <<>>])]
      BY <1>3, <3>1 DEF ReadToken
    <3>3. ReadToken(m, marker) = y
      BY <3>1, <3>2
    <3>4. /\ frame \in OpenFrames /\ frame.size = s /\ frame.items = <<>>
          /\ \A T : <<>> \in Seq(T)
          /\ Len(<<>>) = 0 /\ 0 < s
      BY DEF OpenFrames
    <3>5. Marked[frame] = <<marker>>
      <4>1. Marked[frame] = <<marker>> \o <<>>
        BY <2>9, <3>4, MarkedOf, StreamOf
      <4>2. <<marker>> \in Seq(Tokens)
        BY TokensConcat
      <4> QED BY <4>1, <4>2, TokensConcat
    <3> HIDE DEF frame
    <3>6. all \in Seq(OpenFrames) /\ Len(all) = Len(m.open) + 1
      BY <1>1, <3>4, AppendOf
    <3>7. all # <<>>
      BY <1>1, <3>4, <3>6
    <3>8. Spine(all) = Append(tokens, marker)
      BY <1>1, <2>2, <2>4, <3>4, <3>5, SpineOf
    <3> HIDE DEF all
    <3>9. y \in Machines /\ y.open = all /\ y.root = Undefined
      BY <1>1, <2>2, <3>6 DEF Machines
    <3>10. Len(m.open) + 1 <= Depth
      BY <3>3, <3>6, <3>9
    <3>11. Nests(all)
      <4>1. frame.items \in Seq(TreesTo[Depth - (Len(m.open) + 1)]) /\ Len(frame.items) < frame.size
        BY <3>4
      <4> QED BY <1>1, <2>2, <3>4, <3>10, <4>1, NestsAppend DEF all
    <3> HIDE DEF y
    <3> QED BY <3>3, <3>7, <3>8, <3>9, <3>11 DEF Spells
  <2>10. marker = Token("leaf", 0) \/ marker = Token("node", 0)
           \/ \E s \in 1 .. Arity : marker = Token("node", s)
    <3>1. Token("bad", 0).kind = "bad"
      BY DEF Token
    <3>2. marker = Token("leaf", 0) \/ \E s \in 0 .. Arity : marker = Token("node", s)
      BY <2>1, <3>1 DEF Tokens
    <3>3. \A s \in 0 .. Arity : s = 0 \/ s \in 1 .. Arity
      BY TreeBoundsAssumption
    <3> QED BY <3>2, <3>3
  <2> QED BY <2>7, <2>8, <2>9, <2>10
<1> QED BY <1>2, <1>3

\* So does a whole stream read afresh.
LEMMA ReadInto ==
  ASSUME NEW wire \in Seq(Tokens), \A n \in 0 .. Len(wire) : Len(Read(wire)[n].open) <= Depth
  PROVE  Spells(Run(Fresh, wire), wire)
<1> DEFINE N == Len(wire)
           g == ReadFrom(Fresh, wire)
           S == {n \in Nat : Spells(g[n], SubSeq(wire, 1, n))}
<1>1. N \in Nat /\ SubSeq(wire, 1, 0) = <<>> /\ SubSeq(wire, 1, N) = wire
  OBVIOUS
<1>2. g[0] = Fresh /\ \A n \in 1 .. N : g[n] = ReadToken(g[n - 1], wire[n])
  BY ReadFromDef
<1>3. \A n \in 0 .. N : Len(g[n].open) <= Depth
  BY ReadIsRun
<1> HIDE DEF g
<1>4. 0 \in S
  <2>1. Fresh.open = <<>> /\ Fresh.root = Undefined /\ Len(<<>>) = 0
    BY DEF Fresh
  <2>2. Nests(<<>>)
    BY <2>1, TreeBoundsAssumption DEF Nests
  <2> QED BY <1>1, <1>2, <2>1, <2>2, FreshLive DEF Spells
<1>5. ASSUME NEW n \in 0 .. N - 1, n \in S PROVE n + 1 \in S
  <2> DEFINE M == n + 1
  <2>1. M \in 1 .. N /\ M \in 0 .. N /\ M - 1 = n /\ M \in Nat
    BY <1>1
  <2>2. g[M] = ReadToken(g[M - 1], wire[M])
    <3> HIDE DEF M, N
    <3> QED BY <1>2, <2>1
  <2>3. wire[M] \in Tokens /\ SubSeq(wire, 1, n) \in Seq(Tokens)
    BY <1>1
  <2>4. SubSeq(wire, 1, M) = Append(SubSeq(wire, 1, n), wire[M])
    BY <1>1
  <2>5. Spells(g[n], SubSeq(wire, 1, n))
    BY <1>5
  <2> HIDE DEF M, N
  <2>6. Len(ReadToken(g[n], wire[M]).open) <= Depth
    BY <1>3, <2>1, <2>2
  <2>7. Spells(ReadToken(g[n], wire[M]), Append(SubSeq(wire, 1, n), wire[M]))
    BY <2>3, <2>5, <2>6, ReadSpells
  <2>8. Spells(g[M], SubSeq(wire, 1, M))
    BY <2>1, <2>2, <2>4, <2>7
  <2>9. M \in S
    BY <2>1, <2>8
  <2> QED BY <2>9 DEF M
<1>6. N \in S
  <2> HIDE DEF S, N
  <2> QED BY <1>1, <1>4, <1>5, InductionTo
<1>7. Spells(g[N], wire)
  BY <1>1, <1>6
<1> QED BY <1>7 DEF Run, g

(* A stream that reads as a value is that value's.                           *)
THEOREM ReadValuesSpell ==
  ASSUME NEW wire \in Seq(Tokens),
         \A n \in 0 .. Len(wire) : Len(Read(wire)[n].open) <= Depth
  PROVE  /\ Unflatten(wire) \in Values
         /\ Unflatten(wire) # Undefined => Flatten[Unflatten(wire)] = wire
         /\ Unflatten(wire) = Undefined <=> wire \notin Lossless
<1> DEFINE end == Run(Fresh, wire)
<1>1. Spells(end, wire)
  BY ReadInto
<1>2. Unflatten(wire) = IF end.ok /\ end.open = <<>> THEN end.root ELSE Undefined
  BY ReadIsRun
<1>3. end.ok \in BOOLEAN
  BY <1>1 DEF Spells, Machines
<1> HIDE DEF end
<1>4. Unflatten(wire) # Undefined =>
        Unflatten(wire) \in Trees /\ Flatten[Unflatten(wire)] = wire
  BY <1>1, <1>2, <1>3 DEF Spells
<1>5. Unflatten(wire) # Undefined => wire \in Lossless
  BY <1>4 DEF Lossless
<1>6. wire \in Lossless => Unflatten(wire) # Undefined
  <2> SUFFICES ASSUME NEW v \in Trees, wire = Flatten[v] PROVE Unflatten(wire) # Undefined
    BY DEF Lossless
  <2>1. Unflatten(wire) = v
    BY ValuesReadBack
  <2> QED BY <2>1, TreesIn
<1> QED BY <1>4, <1>5, <1>6 DEF Values

-----------------------------------------------------------------------------
(* The frames written.                                                       *)

Among(frames, type) == {i \in DOMAIN frames : frames[i].type = type}

Ends(frames) == Among(frames, "done") \cup Among(frames, "overflow")

\* The completion keeps within what the lines before it left.
Budgeted(frames) ==
  \A i \in Among(frames, "done") :
    frames[i].cost > 0 => Logged(SubSeq(frames, 1, i)) + frames[i].cost <= MaxOutput

\* The limit once, and no line after it.
LimitLast(frames) ==
  /\ \A i, j \in Among(frames, "output-limit") : i = j
  /\ \A i \in Among(frames, "output-limit"), j \in Among(frames, "log") : j < i

OneEnd(frames) == \A i, j \in Ends(frames) : i = j

InOrder(frames) ==
  frames \in Seq(Frames) /\ Budgeted(frames) /\ LimitLast(frames) /\ OneEnd(frames)

\* What may follow the frames already there.
MayFollow(frames, frame) ==
  /\ frame \in Frames
  /\ frame.type \in {"log", "output-limit"} => Among(frames, "output-limit") = {}
  /\ frame.type \in {"done", "overflow"} => Ends(frames) = {}
  /\ frame.type = "done" /\ frame.cost > 0 => Logged(frames) + frame.cost <= MaxOutput

\* Where frames of a type stand, with one more frame.
LEMMA AmongAppend ==
  ASSUME NEW frames \in Seq(Frames), NEW frame \in Frames, NEW type
  PROVE  Among(Append(frames, frame), type) =
           Among(frames, type) \cup (IF frame.type = type THEN {Len(frames) + 1} ELSE {})
<1> DEFINE all == Append(frames, frame)
           N == Len(frames)
<1>1. /\ Len(all) = N + 1 /\ N \in Nat /\ all \in Seq(Frames)
      /\ all[N + 1] = frame /\ \A n \in 1 .. N : all[n] = frames[n]
  BY AppendOf
<1>2. DOMAIN all = 1 .. N + 1 /\ DOMAIN frames = 1 .. N
  BY <1>1
<1> HIDE DEF all, N
<1>3. \A i \in 1 .. N + 1 : i \in 1 .. N \/ i = N + 1
  BY <1>1
<1>4. N + 1 \in 1 .. N + 1 /\ N + 1 \notin 1 .. N /\ \A i \in 1 .. N : i \in 1 .. N + 1
  BY <1>1
<1>5. \A i : i \in Among(all, type) <=>
               i \in Among(frames, type) \/ (i = N + 1 /\ frame.type = type)
  BY <1>1, <1>2, <1>3, <1>4 DEF Among
<1>6. Among(all, type) = Among(frames, type) \cup (IF frame.type = type THEN {N + 1} ELSE {})
  BY <1>5
<1> QED BY <1>6 DEF all, N

\* A frame that may follow keeps the frames in order.
LEMMA InOrderAppend ==
  ASSUME NEW frames, InOrder(frames), NEW frame, MayFollow(frames, frame)
  PROVE  InOrder(Append(frames, frame))
<1> DEFINE all == Append(frames, frame)
           M == Len(frames) + 1
<1>1. /\ frames \in Seq(Frames) /\ frame \in Frames /\ all \in Seq(Frames)
      /\ Len(frames) \in Nat /\ all[M] = frame
      /\ \A n \in 1 .. Len(frames) : all[n] = frames[n]
      /\ \A n \in 0 .. Len(frames) : SubSeq(all, 1, n) = SubSeq(frames, 1, n)
      /\ SubSeq(all, 1, M) = all
  <2>1. frames \in Seq(Frames) /\ frame \in Frames
    BY DEF InOrder, MayFollow
  <2>2. all \in Seq(Frames) /\ Len(all) = M
    BY <2>1, AppendOf
  <2>3. SubSeq(all, 1, M) = all
    <3> HIDE DEF all
    <3> QED BY <2>2, SubSeqFull
  <2> QED BY <2>1, <2>2, <2>3, AppendOf
<1>2. \A type : Among(all, type) =
                  Among(frames, type) \cup (IF frame.type = type THEN {M} ELSE {})
  BY <1>1, AmongAppend
<1>3. \A type : \A i \in Among(frames, type) : i \in 1 .. Len(frames) /\ i < M
  BY <1>1 DEF Among
<1>4. \A i \in 1 .. Len(frames) : i \in 0 .. Len(frames)
  BY <1>1
<1> HIDE DEF all
<1>5. Budgeted(all)
  <2> SUFFICES ASSUME NEW i \in Among(all, "done"), all[i].cost > 0
               PROVE  Logged(SubSeq(all, 1, i)) + all[i].cost <= MaxOutput
    BY DEF Budgeted
  <2>1. CASE i \in Among(frames, "done")
    <3>1. all[i] = frames[i] /\ SubSeq(all, 1, i) = SubSeq(frames, 1, i)
      BY <1>1, <1>3, <1>4, <2>1
    <3> QED BY <2>1, <3>1 DEF InOrder, Budgeted
  <2>2. CASE frame.type = "done" /\ i = M
    <3>1. Logged(all) = Counted(frame, Logged(frames))
      BY <1>1, LoggedOf DEF all
    <3>2. Logged(all) = Logged(frames)
      BY <2>2, <3>1 DEF Counted
    <3>3. all[i] = frame /\ SubSeq(all, 1, i) = all
      BY <1>1, <2>2
    <3> HIDE DEF M
    <3> QED BY <2>2, <3>2, <3>3 DEF MayFollow
  <2>3. i \in Among(frames, "done") \/ (frame.type = "done" /\ i = M)
    BY <1>2
  <2> QED BY <2>1, <2>2, <2>3
<1> HIDE DEF M
<1>6. LimitLast(all)
  <2>1. CASE frame.type = "output-limit"
    <3>1. Among(frames, "output-limit") = {}
      BY <2>1 DEF MayFollow
    <3>2. Among(all, "output-limit") = {M} /\ Among(all, "log") = Among(frames, "log")
      BY <1>2, <2>1, <3>1
    <3> QED BY <1>3, <3>2 DEF LimitLast
  <2>2. CASE frame.type = "log"
    <3>1. Among(frames, "output-limit") = {}
      BY <2>2 DEF MayFollow
    <3>2. Among(all, "output-limit") = {}
      BY <1>2, <2>2, <3>1
    <3> QED BY <3>2 DEF LimitLast
  <2>3. CASE frame.type \notin {"log", "output-limit"}
    <3>1. Among(all, "output-limit") = Among(frames, "output-limit") /\ Among(all, "log") = Among(frames, "log")
      BY <1>2, <2>3
    <3> QED BY <3>1 DEF LimitLast, InOrder
  <2> QED BY <2>1, <2>2, <2>3
<1>7. OneEnd(all)
  <2>1. CASE frame.type \in {"done", "overflow"}
    <3>1. Ends(frames) = {}
      BY <2>1 DEF MayFollow
    <3>2. \A i \in Ends(all) : i = M
      BY <1>2, <3>1 DEF Ends
    <3> QED BY <3>2 DEF OneEnd
  <2>2. CASE frame.type \notin {"done", "overflow"}
    <3>1. Ends(all) = Ends(frames)
      BY <1>2, <2>2 DEF Ends
    <3> QED BY <3>1 DEF OneEnd, InOrder
  <2> QED BY <2>1, <2>2
<1> QED BY <1>1, <1>5, <1>6, <1>7 DEF InOrder, all

(* How the frames that matter change with one more.                          *)
LEMMA AfterAppend ==
  ASSUME NEW frames \in Seq(Frames), NEW frame \in Frames
  PROVE  /\ Append(frames, frame) \in Seq(Frames)
         /\ Logged(Append(frames, frame)) = Counted(frame, Logged(frames))
         /\ frame.type # "output-limit" =>
              Among(Append(frames, frame), "output-limit") = Among(frames, "output-limit")
         /\ frame.type \notin {"done", "overflow"} =>
              Ends(Append(frames, frame)) = Ends(frames)
         /\ frame.type \in {"done", "overflow"} => Ends(Append(frames, frame)) # {}
<1>1. \A type : Among(Append(frames, frame), type) =
                  Among(frames, type) \cup (IF frame.type = type THEN {Len(frames) + 1} ELSE {})
  BY AmongAppend
<1>2. Append(frames, frame) \in Seq(Frames)
  BY AppendOf
<1>3. Logged(Append(frames, frame)) = Counted(frame, Logged(frames))
  BY LoggedOf
<1> QED BY <1>1, <1>2, <1>3 DEF Ends

-----------------------------------------------------------------------------
(* The output of a run.                                                      *)

\* The output-limit is told, the end is told.
LimitTold == Among(sent, "output-limit") # {}
EndTold   == Ends(sent) # {}

OutputState ==
  /\ loop \in {"running", "reading", "exited", "failed"}
  /\ body \in {"unborn", "running", "returned", "finished", "none"}
  /\ closed \in BOOLEAN
  /\ result \in [kind : {"undefined", "value", "threw"}, cost : Completions \cup {0}]
  /\ result.kind = "undefined" => result.cost = 0
  /\ ledger \in [bytes : Nat, entries : 0 .. MaxLines, truncated : BOOLEAN]
  /\ ledger.bytes = 2 \/ ledger.bytes <= MaxOutput
  /\ IF ledger.entries = 0 THEN ledger.bytes = 2 ELSE ledger.bytes > 2
  /\ InOrder(sent)
  /\ loop # "failed" => Logged(sent) = ledger.bytes
  /\ LimitTold => ledger.truncated = TRUE
  /\ EndTold => body = "finished"
  /\ body = "finished" /\ loop # "failed" => EndTold
  /\ loop = "exited" => closed = TRUE \/ EndTold

\* The boot is the first frame of all that arrives.
BootFirst ==
  /\ inbox \in Seq(0 .. MaxCalls)
  /\ \A i \in 1 .. Len(inbox) : inbox[i] = 0 => i = 1 /\ body = "unborn"

\* The bounds are numbers.
LEMMA BudgetNat == MaxOutput \in Nat /\ MaxCalls \in Nat /\ MaxLines \in Nat
BY BudgetAssumption

\* Frames of each type.
LEMMA FrameTyped ==
  \A cost \in Nat :
    /\ Frame("log", cost) \in Frames
    /\ Frame("output-limit", cost) \in Frames
    /\ Frame("call", cost) \in Frames
    /\ Frame("done", cost) \in Frames
    /\ Frame("overflow", cost) \in Frames
    /\ Frame("ready", cost) \in Frames
BY DEF Frame, Frames

\* Lines are sequences of costs.
LEMMA LineTyped == \A line \in Lines : line \in LineSeqs
BY CostsAssumption DEF LineSeqs

\* A line among those that fit, as LogLine and LogBeyond charge and write it.
LEMMA ChargedFits ==
  ASSUME OutputState, NEW line \in LineSeqs, Fits(line, Available), ledger.entries < MaxLines
  PROVE  /\ Charged(line) \in [bytes : Nat, entries : 0 .. MaxLines, truncated : BOOLEAN]
         /\ Charged(line).bytes <= MaxOutput /\ Charged(line).bytes > 2
         /\ Charged(line).entries > 0 /\ Charged(line).truncated = ledger.truncated
         /\ Frame("log", Bytes(line)) \in Frames
         /\ Counted(Frame("log", Bytes(line)), ledger.bytes) = Charged(line).bytes
<1>1. Bytes(line) \in Nat /\ Bytes(line) >= 2
  BY BytesNat
<1>2. /\ ledger \in [bytes : Nat, entries : 0 .. MaxLines, truncated : BOOLEAN]
      /\ ledger.bytes \in Nat /\ ledger.entries \in Nat /\ ledger.entries + 1 \in 0 .. MaxLines
      /\ IF ledger.entries = 0 THEN ledger.bytes = 2 ELSE ledger.bytes > 2
  <2>1. /\ ledger \in [bytes : Nat, entries : 0 .. MaxLines, truncated : BOOLEAN]
        /\ IF ledger.entries = 0 THEN ledger.bytes = 2 ELSE ledger.bytes > 2
    BY DEF OutputState
  <2>2. ledger.bytes \in Nat /\ ledger.entries \in 0 .. MaxLines
    BY <2>1
  <2>3. ledger.entries + 1 \in 0 .. MaxLines /\ ledger.entries \in Nat
    BY <2>2, BudgetNat
  <2> QED BY <2>1, <2>2, <2>3
<1>3. Separator = (IF ledger.bytes = 2 THEN 0 ELSE 1) /\ Separator \in {0, 1}
  BY <1>2 DEF Separator
<1>4. Bytes(line) <= MaxOutput - ledger.bytes - Separator
  BY DEF Fits, Available
<1>5. /\ Charged(line).bytes = ledger.bytes + Bytes(line) + Separator
      /\ Charged(line).entries = ledger.entries + 1
      /\ Charged(line).truncated = ledger.truncated
      /\ Charged(line) \in [bytes : Nat, entries : 0 .. MaxLines, truncated : BOOLEAN]
  <2>1. \A x, y : LET z == [ledger EXCEPT !.bytes = x, !.entries = y]
                 IN  /\ z.bytes = x /\ z.entries = y /\ z.truncated = ledger.truncated
                     /\ x \in Nat /\ y \in 0 .. MaxLines =>
                          z \in [bytes : Nat, entries : 0 .. MaxLines, truncated : BOOLEAN]
    BY <1>2
  <2>2. ledger.bytes + Bytes(line) + Separator \in Nat
    BY <1>1, <1>2, <1>3
  <2>3. Charged(line) = [ledger EXCEPT !.bytes = ledger.bytes + Bytes(line) + Separator,
                                       !.entries = ledger.entries + 1]
    BY DEF Charged
  <2> QED BY <1>2, <2>1, <2>2, <2>3
<1>6. /\ ledger.bytes + Bytes(line) + Separator <= MaxOutput
      /\ ledger.bytes + Bytes(line) + Separator > 2
  <2>1. ledger.bytes >= 2
    BY <1>2
  <2> QED BY <1>1, <1>2, <1>3, <1>4, <2>1, BudgetNat
<1>7. Frame("log", Bytes(line)) \in Frames
  BY <1>1, FrameTyped
<1>8. Counted(Frame("log", Bytes(line)), ledger.bytes) = ledger.bytes + Bytes(line) + Separator
  <2>1. Frame("log", Bytes(line)).type = "log" /\ Frame("log", Bytes(line)).cost = Bytes(line)
    BY DEF Frame
  <2>2. Counted(Frame("log", Bytes(line)), ledger.bytes) = ledger.bytes + Bytes(line) + Separator
    BY <1>3, <2>1, Zenon DEF Counted
  <2> QED BY <2>2
<1>9. /\ Charged(line).bytes <= MaxOutput /\ Charged(line).bytes > 2
      /\ Charged(line).entries > 0
  <2>1. ledger.entries + 1 > 0
    BY <1>2
  <2> QED BY <1>5, <1>6, <2>1
<1> QED BY <1>5, <1>7, <1>8, <1>9

\* A frame is written, or the process ends.
LEMMA WriteOne ==
  ASSUME InOrder(sent), closed \in BOOLEAN, NEW frame, MayFollow(sent, frame),
         Write(<<frame>>)
  PROVE  \/ closed = TRUE /\ sent' = sent /\ loop' = "failed"
         \/ /\ closed = FALSE /\ sent' = Append(sent, frame) /\ loop' = loop
            /\ InOrder(sent')
            /\ Logged(sent') = Counted(frame, Logged(sent))
            /\ frame.type # "output-limit" => (LimitTold' <=> LimitTold)
            /\ frame.type \notin {"done", "overflow"} => (EndTold' <=> EndTold)
            /\ frame.type \in {"done", "overflow"} => EndTold'
<1>1. sent \in Seq(Frames) /\ frame \in Frames
  BY DEF InOrder, MayFollow
<1>2. sent \o <<frame>> = Append(sent, frame)
  BY <1>1
<1>3. CASE closed = TRUE
  BY <1>3 DEF Write
<1>4. CASE closed = FALSE
  <2>1. sent' = Append(sent, frame) /\ loop' = loop
    BY <1>2, <1>4 DEF Write
  <2>2. InOrder(sent')
    BY <2>1, InOrderAppend
  <2> QED BY <1>1, <1>4, <2>1, <2>2, AfterAppend DEF LimitTold, EndTold
<1> QED BY <1>3, <1>4

\* What fits of a line and then the limit are written, or the process ends.
LEMMA WriteTwo ==
  ASSUME InOrder(sent), closed \in BOOLEAN, NEW frame, NEW next,
         MayFollow(sent, frame), frame.type = "log",
         next \in Frames, next.type = "output-limit",
         Write(<<frame, next>>)
  PROVE  \/ closed = TRUE /\ sent' = sent /\ loop' = "failed"
         \/ /\ closed = FALSE /\ loop' = loop
            /\ InOrder(sent')
            /\ Logged(sent') = Counted(frame, Logged(sent))
            /\ EndTold' <=> EndTold
<1> DEFINE mid == Append(sent, frame)
<1>1. sent \in Seq(Frames) /\ frame \in Frames
  BY DEF InOrder, MayFollow
<1>2. sent \o <<frame, next>> = Append(mid, next)
  BY <1>1
<1>3. CASE closed = TRUE
  BY <1>3 DEF Write
<1>4. CASE closed = FALSE
  <2>1. sent' = Append(mid, next) /\ loop' = loop
    BY <1>2, <1>4 DEF Write
  <2>2. InOrder(mid)
    BY InOrderAppend
  <2>3. /\ mid \in Seq(Frames)
        /\ Logged(mid) = Counted(frame, Logged(sent))
        /\ Among(mid, "output-limit") = Among(sent, "output-limit")
        /\ Ends(mid) = Ends(sent)
    BY <1>1, AfterAppend
  <2> HIDE DEF mid
  <2>4. MayFollow(mid, next)
    BY <2>3 DEF MayFollow
  <2>5. InOrder(sent')
    BY <2>1, <2>2, <2>4, InOrderAppend
  <2>6. Logged(sent') = Counted(next, Logged(mid)) /\ Ends(sent') = Ends(mid)
    BY <2>1, <2>3, AfterAppend
  <2>7. Logged(sent') = Logged(mid)
    BY <2>6 DEF Counted
  <2> QED BY <1>4, <2>1, <2>3, <2>5, <2>6, <2>7 DEF EndTold
<1> QED BY <1>3, <1>4

\* The process starts with its ready frame and an empty ledger.
LEMMA StartOutput == ASSUME ProgramStart PROVE OutputState /\ BootFirst
<1>1. /\ <<>> \in Seq(Frames) /\ DOMAIN <<>> = {}
  OBVIOUS
<1>2. \A type : Among(<<>>, type) = {}
  BY <1>1 DEF Among
<1>3. InOrder(<<>>)
  BY <1>1, <1>2 DEF InOrder, Budgeted, LimitLast, OneEnd, Ends
<1>4. Frame("ready", 0) \in Frames /\ Frame("ready", 0).type = "ready"
  BY FrameTyped DEF Frame
<1>5. MayFollow(<<>>, Frame("ready", 0))
  BY <1>4 DEF MayFollow
<1>6. sent = Append(<<>>, Frame("ready", 0))
  BY DEF ProgramStart
<1>7. InOrder(sent)
  BY <1>3, <1>5, <1>6, InOrderAppend
<1>8. /\ Logged(sent) = Counted(Frame("ready", 0), Logged(<<>>))
      /\ Among(sent, "output-limit") = Among(<<>>, "output-limit")
      /\ Ends(sent) = Ends(<<>>)
  BY <1>1, <1>4, <1>6, AfterAppend
<1>9. Logged(sent) = 2 /\ ~LimitTold /\ ~EndTold
  BY <1>2, <1>4, <1>8, LoggedOf DEF Counted, LimitTold, EndTold, Ends
<1>10. 0 \in 0 .. MaxLines
  BY BudgetNat
<1>11. OutputState
  BY <1>7, <1>9, <1>10 DEF ProgramStart, OutputState
<1>12. BootFirst
  BY DEF ProgramStart, BootFirst
<1> QED BY <1>11, <1>12

\* A line that fits is charged and written (Ledger.push).
LEMMA LogLineOutput ==
  ASSUME OutputState, NEW line \in Lines, LogLine(line)
  PROVE  OutputState'
<1> DEFINE frame == Frame("log", Bytes(line))
<1>1. line \in LineSeqs /\ Fits(line, Available) /\ ledger.entries < MaxLines
  BY LineTyped DEF LogLine
<1>2. /\ Charged(line) \in [bytes : Nat, entries : 0 .. MaxLines, truncated : BOOLEAN]
      /\ Charged(line).bytes <= MaxOutput /\ Charged(line).bytes > 2
      /\ Charged(line).entries > 0 /\ Charged(line).truncated = ledger.truncated
      /\ frame \in Frames
      /\ Counted(frame, ledger.bytes) = Charged(line).bytes
  BY <1>1, ChargedFits
<1>3. frame.type = "log"
  BY DEF Frame
<1>4. loop = "running" /\ ledger.truncated = FALSE /\ InOrder(sent) /\ closed \in BOOLEAN
  BY DEF LogLine, Active, Running, OutputState
<1>5. ~LimitTold
  BY <1>4 DEF OutputState
<1> HIDE DEF frame
<1>6. MayFollow(sent, frame)
  BY <1>2, <1>3, <1>5 DEF MayFollow, LimitTold
<1>7. Write(<<frame>>) /\ ledger' = Charged(line) /\ UNCHANGED <<body, result, closed>>
  BY DEF LogLine, frame
<1>8. Logged(sent) = ledger.bytes
  BY <1>4 DEF OutputState
<1>9. CASE closed = TRUE /\ sent' = sent /\ loop' = "failed"
  <2>1. (LimitTold' <=> LimitTold) /\ (EndTold' <=> EndTold)
    BY <1>9 DEF LimitTold, EndTold
  <2> QED BY <1>2, <1>5, <1>7, <1>9, <2>1 DEF OutputState
<1>10. CASE /\ closed = FALSE /\ loop' = loop /\ InOrder(sent')
            /\ Logged(sent') = Counted(frame, Logged(sent))
            /\ LimitTold' <=> LimitTold
            /\ EndTold' <=> EndTold
  <2>1. Logged(sent') = Charged(line).bytes
    BY <1>2, <1>8, <1>10
  <2> QED BY <1>2, <1>4, <1>5, <1>7, <1>10, <2>1 DEF OutputState
<1> QED BY <1>3, <1>4, <1>6, <1>7, <1>9, <1>10, WriteOne

\* A line beyond the budget ends the log (Ledger.push, onLimit).
LEMMA LogBeyondOutput ==
  ASSUME OutputState, NEW line \in Lines, LogBeyond(line)
  PROVE  OutputState'
<1> DEFINE prefix == Truncated(line, Available)
           limit  == Frame("output-limit", 0)
           frame  == Frame("log", Bytes(prefix))
<1>1. /\ loop = "running" /\ ledger.truncated = FALSE /\ ledger.entries < MaxLines
      /\ InOrder(sent) /\ closed \in BOOLEAN /\ Logged(sent) = ledger.bytes
      /\ UNCHANGED <<body, result, closed>>
  BY DEF LogBeyond, Active, Running, OutputState
<1>2. ledger \in [bytes : Nat, entries : 0 .. MaxLines, truncated : BOOLEAN]
  BY DEF OutputState
<1>3. ~LimitTold
  BY <1>1 DEF OutputState
<1>4. limit \in Frames /\ limit.type = "output-limit" /\ frame.type = "log"
  BY FrameTyped DEF Frame
<1>5. CASE prefix = <<>>
  <2>1. ledger' = [ledger EXCEPT !.truncated = TRUE] /\ Write(<<limit>>)
    BY <1>5 DEF LogBeyond
  <2>2. /\ ledger' \in [bytes : Nat, entries : 0 .. MaxLines, truncated : BOOLEAN]
        /\ ledger'.bytes = ledger.bytes /\ ledger'.entries = ledger.entries
        /\ ledger'.truncated = TRUE
    BY <1>2, <2>1
  <2> HIDE DEF limit, frame, prefix
  <2>3. MayFollow(sent, limit)
    BY <1>3, <1>4 DEF MayFollow, LimitTold
  <2>4. \/ closed = TRUE /\ sent' = sent /\ loop' = "failed"
        \/ /\ closed = FALSE /\ loop' = loop /\ InOrder(sent')
           /\ Logged(sent') = Counted(limit, Logged(sent))
           /\ EndTold' <=> EndTold
    BY <1>1, <1>4, <2>1, <2>3, WriteOne
  <2>5. Counted(limit, Logged(sent)) = Logged(sent)
    BY <1>4 DEF Counted
  <2>6. CASE closed = TRUE /\ sent' = sent /\ loop' = "failed"
    <3>1. EndTold' <=> EndTold
      BY <2>6 DEF EndTold
    <3> QED BY <1>1, <2>2, <2>6, <3>1 DEF OutputState
  <2>7. CASE /\ closed = FALSE /\ loop' = loop /\ InOrder(sent')
             /\ Logged(sent') = Counted(limit, Logged(sent))
             /\ EndTold' <=> EndTold
    BY <1>1, <2>2, <2>5, <2>7 DEF OutputState
  <2> QED BY <2>4, <2>6, <2>7
<1>6. CASE prefix # <<>>
  <2>1. ledger' = [Charged(prefix) EXCEPT !.truncated = TRUE] /\ Write(<<frame, limit>>)
    BY <1>6 DEF LogBeyond
  <2>2. Available \in Int
    <3>1. ledger.bytes \in Nat /\ Separator \in {0, 1}
      BY <1>2 DEF Separator
    <3> QED BY <3>1, BudgetNat DEF Available
  <2>3. prefix \in LineSeqs /\ Fits(prefix, Available)
    BY <1>6, <2>2, LineTyped, TruncatedFits
  <2> HIDE DEF prefix
  <2>4. /\ Charged(prefix) \in [bytes : Nat, entries : 0 .. MaxLines, truncated : BOOLEAN]
        /\ Charged(prefix).bytes <= MaxOutput /\ Charged(prefix).bytes > 2
        /\ Charged(prefix).entries > 0
        /\ frame \in Frames
        /\ Counted(frame, ledger.bytes) = Charged(prefix).bytes
    BY <1>1, <2>3, ChargedFits
  <2>5. /\ ledger' \in [bytes : Nat, entries : 0 .. MaxLines, truncated : BOOLEAN]
        /\ ledger'.bytes = Charged(prefix).bytes /\ ledger'.entries = Charged(prefix).entries
        /\ ledger'.truncated = TRUE
    <3> DEFINE c == Charged(prefix)
    <3>1. c \in [bytes : Nat, entries : 0 .. MaxLines, truncated : BOOLEAN]
      BY <2>4
    <3>2. ledger' = [c EXCEPT !.truncated = TRUE]
      BY <2>1
    <3> HIDE DEF c
    <3>3. /\ ledger' \in [bytes : Nat, entries : 0 .. MaxLines, truncated : BOOLEAN]
          /\ ledger'.bytes = c.bytes /\ ledger'.entries = c.entries
          /\ ledger'.truncated = TRUE
      BY <3>1, <3>2
    <3> QED BY <3>3 DEF c
  <2> HIDE DEF limit, frame
  <2>6. MayFollow(sent, frame)
    BY <1>3, <1>4, <2>4 DEF MayFollow, LimitTold
  <2>7. \/ closed = TRUE /\ sent' = sent /\ loop' = "failed"
        \/ /\ closed = FALSE /\ loop' = loop /\ InOrder(sent')
           /\ Logged(sent') = Counted(frame, Logged(sent))
           /\ EndTold' <=> EndTold
    BY <1>1, <1>4, <2>1, <2>6, WriteTwo
  <2>8. CASE closed = TRUE /\ sent' = sent /\ loop' = "failed"
    <3>1. EndTold' <=> EndTold
      BY <2>8 DEF EndTold
    <3> QED BY <1>1, <2>4, <2>5, <2>8, <3>1 DEF OutputState
  <2>9. CASE /\ closed = FALSE /\ loop' = loop /\ InOrder(sent')
             /\ Logged(sent') = Counted(frame, Logged(sent))
             /\ EndTold' <=> EndTold
    <3>1. Logged(sent') = ledger'.bytes
      BY <1>1, <2>4, <2>5, <2>9
    <3> QED BY <1>1, <2>4, <2>5, <2>9, <3>1 DEF OutputState
  <2> QED BY <2>7, <2>8, <2>9
<1> QED BY <1>5, <1>6

\* A call is no output (binding calls).
LEMMA CallOutput ==
  ASSUME OutputState, Call
  PROVE  OutputState'
<1> DEFINE frame == Frame("call", NextId)
<1>1. /\ loop = "running" /\ InOrder(sent) /\ closed \in BOOLEAN
      /\ Logged(sent) = ledger.bytes
      /\ Write(<<frame>>) /\ UNCHANGED <<body, result, ledger, closed>>
  BY DEF Call, Active, Running, OutputState
<1>2. NextId \in Nat
  <2>1. NextId \in 1 .. MaxCalls
    BY DEF Call, Calls
  <2> HIDE DEF NextId
  <2> QED BY <2>1, BudgetNat
<1>3. frame \in Frames /\ frame.type = "call"
  <2> HIDE DEF NextId
  <2> QED BY <1>2, FrameTyped DEF Frame
<1> HIDE DEF frame
<1>4. MayFollow(sent, frame)
  BY <1>3 DEF MayFollow
<1>5. Counted(frame, Logged(sent)) = Logged(sent)
  BY <1>3 DEF Counted
<1>6. \/ closed = TRUE /\ sent' = sent /\ loop' = "failed"
      \/ /\ closed = FALSE /\ loop' = loop /\ InOrder(sent')
         /\ Logged(sent') = Logged(sent)
         /\ LimitTold' <=> LimitTold
         /\ EndTold' <=> EndTold
  BY <1>1, <1>3, <1>4, <1>5, WriteOne
<1>7. CASE closed = TRUE /\ sent' = sent /\ loop' = "failed"
  <2>1. (LimitTold' <=> LimitTold) /\ (EndTold' <=> EndTold)
    BY <1>7 DEF LimitTold, EndTold
  <2> QED BY <1>1, <1>7, <2>1 DEF OutputState
<1>8. CASE /\ closed = FALSE /\ loop' = loop /\ InOrder(sent')
           /\ Logged(sent') = Logged(sent)
           /\ LimitTold' <=> LimitTold
           /\ EndTold' <=> EndTold
  BY <1>1, <1>8 DEF OutputState
<1> QED BY <1>6, <1>7, <1>8

\* The completion is charged against what the lines left (completion).
LEMMA DoneOutput ==
  ASSUME OutputState, SendsDone
  PROVE  OutputState'
<1> DEFINE done == Frame("done", result.cost)
           over == Frame("overflow", 0)
<1>1. /\ loop = "running" /\ InOrder(sent) /\ closed \in BOOLEAN
      /\ Logged(sent) = ledger.bytes /\ body = "returned" /\ body' = "finished"
      /\ UNCHANGED <<result, ledger, closed>>
  BY DEF SendsDone, Running, OutputState
<1>2. ~EndTold /\ ledger.bytes \in Nat
  BY <1>1 DEF OutputState
<1>3. result.cost \in Nat /\ (result.kind = "undefined" => result.cost = 0)
  <2>1. result \in [kind : {"undefined", "value", "threw"}, cost : Completions \cup {0}]
    BY DEF OutputState
  <2>2. result.cost \in Completions \cup {0}
    BY <2>1
  <2>3. result.cost \in Nat
    <3>1. \A cost : cost \in Completions => cost \in Nat
      BY CostsAssumption
    <3>2. 0 \in Nat
      OBVIOUS
    <3> QED BY <2>2, <3>1, <3>2, Zenon
  <2> QED BY <2>3 DEF OutputState
<1>4. /\ done \in Frames /\ done.type = "done" /\ done.cost = result.cost
      /\ over \in Frames /\ over.type = "overflow"
  BY <1>3, FrameTyped DEF Frame
<1>5. \/ Write(<<done>>) /\ (result.kind = "undefined" \/ result.cost <= Remaining)
      \/ Write(<<over>>)
  <2>1. \/ Completion = <<done>> /\ (result.kind = "undefined" \/ result.cost <= Remaining)
        \/ Completion = <<over>>
    BY DEF Completion
  <2>2. Write(Completion)
    BY DEF SendsDone
  <2> QED BY <2>1, <2>2
<1> HIDE DEF done, over
<1>6. PICK frame \in Frames : /\ Write(<<frame>>) /\ MayFollow(sent, frame)
                              /\ frame.type \in {"done", "overflow"}
  <2>1. CASE Write(<<done>>) /\ (result.kind = "undefined" \/ result.cost <= Remaining)
    <3>1. done.cost > 0 => Logged(sent) + done.cost <= MaxOutput
      BY <1>1, <1>2, <1>3, <1>4, <2>1, BudgetNat DEF Remaining
    <3>2. MayFollow(sent, done)
      BY <1>2, <1>4, <3>1 DEF MayFollow, EndTold
    <3> QED BY <1>4, <2>1, <3>2
  <2>2. CASE Write(<<over>>)
    <3>1. MayFollow(sent, over)
      BY <1>2, <1>4 DEF MayFollow, EndTold
    <3> QED BY <1>4, <2>2, <3>1
  <2> QED BY <1>5, <2>1, <2>2
<1>7. \/ closed = TRUE /\ sent' = sent /\ loop' = "failed"
      \/ /\ closed = FALSE /\ loop' = loop /\ InOrder(sent')
         /\ Logged(sent') = Counted(frame, Logged(sent))
         /\ LimitTold' <=> LimitTold
         /\ EndTold'
  BY <1>1, <1>6, WriteOne
<1>8. CASE closed = TRUE /\ sent' = sent /\ loop' = "failed"
  <2>1. (LimitTold' <=> LimitTold) /\ (EndTold' <=> EndTold)
    BY <1>8 DEF LimitTold, EndTold
  <2> QED BY <1>1, <1>2, <1>8, <2>1 DEF OutputState
<1>9. CASE /\ closed = FALSE /\ loop' = loop /\ InOrder(sent')
           /\ Logged(sent') = Counted(frame, Logged(sent))
           /\ LimitTold' <=> LimitTold
           /\ EndTold'
  <2>1. Counted(frame, Logged(sent)) = Logged(sent)
    BY <1>6 DEF Counted
  <2> QED BY <1>1, <1>9, <2>1 DEF OutputState
<1> QED BY <1>7, <1>8, <1>9

(* The steps that write nothing and leave the ledger alone.                  *)
LEMMA QuietOutput ==
  ASSUME OutputState, BootFirst, UNCHANGED <<sent, ledger>>,
         \/ CallTooLarge
         \/ \E cost \in Completions : Returns("value", cost) \/ Returns("threw", cost)
         \/ Returns("undefined", 0)
         \/ Polls \/ ReadsBoot \/ ReadsReply \/ ReadsEnd
         \/ Boots
         \/ \E id \in Calls : \E said, wire : Answers(id, said, wire)
         \/ Closes
  PROVE  OutputState'
<1>1. (LimitTold' <=> LimitTold) /\ (EndTold' <=> EndTold)
  BY DEF LimitTold, EndTold
<1>2. CASE CallTooLarge
  BY <1>1, <1>2 DEF OutputState, CallTooLarge, Active, Running
<1>3. ASSUME NEW kind \in {"undefined", "value", "threw"}, NEW cost \in Completions \cup {0},
             kind = "undefined" => cost = 0, Returns(kind, cost)
      PROVE  OutputState'
  <2>1. result' = [kind |-> kind, cost |-> cost] /\ body' = "returned" /\ body = "running"
    BY <1>3 DEF Returns
  <2>2. /\ result' \in [kind : {"undefined", "value", "threw"}, cost : Completions \cup {0}]
        /\ result'.kind = "undefined" => result'.cost = 0
    BY <1>3, <2>1
  <2>3. UNCHANGED <<loop, closed, sent, ledger>>
    BY <1>3 DEF Returns
  <2> QED BY <1>1, <2>1, <2>2, <2>3 DEF OutputState
<1>4. CASE Polls
  BY <1>1, <1>4 DEF OutputState, Polls, Running
<1>5. CASE ReadsBoot
  <2>1. inbox \in Seq(0 .. MaxCalls) /\ inbox # <<>> /\ inbox[1] = 0
    BY <1>5 DEF ReadsBoot, BootFirst
  <2>2. 1 \in 1 .. Len(inbox)
    BY <2>1
  <2>3. body = "unborn"
    BY <2>1, <2>2 DEF BootFirst
  <2> QED BY <1>1, <1>5, <2>3 DEF OutputState, ReadsBoot
<1>6. CASE ReadsReply
  BY <1>1, <1>6 DEF OutputState, ReadsReply
<1>7. CASE ReadsEnd
  BY <1>1, <1>7 DEF OutputState, ReadsEnd, ChannelEnds
<1>8. CASE Boots
  BY <1>1, <1>8 DEF OutputState, Boots
<1>9. ASSUME NEW id, NEW said, NEW wire, Answers(id, said, wire) PROVE OutputState'
  BY <1>1, <1>9 DEF OutputState, Answers
<1>10. CASE Closes
  BY <1>1, <1>10 DEF OutputState, Closes
<1> QED BY <1>2, <1>3, <1>4, <1>5, <1>6, <1>7, <1>8, <1>9, <1>10

(* The frames that arrive, the boot before all others.                       *)
LEMMA BootStep ==
  ASSUME OutputState, BootFirst, [Next]_vars
  PROVE  BootFirst'
<1>1. CASE UNCHANGED <<inbox, body>>
  BY <1>1 DEF BootFirst
<1>2. CASE inbox' = inbox /\ (body' = body \/ body # "unborn")
  BY <1>2 DEF BootFirst
<1>3. CASE inbox' = <<>>
  BY <1>3 DEF BootFirst
<1>4. CASE ReadsBoot \/ ReadsReply
  <2>1. inbox \in Seq(0 .. MaxCalls) /\ inbox # <<>> /\ inbox' = Tail(inbox)
    BY <1>4 DEF ReadsBoot, ReadsReply, BootFirst
  <2>2. /\ inbox' \in Seq(0 .. MaxCalls) /\ Len(inbox') = Len(inbox) - 1
        /\ \A i \in 1 .. Len(inbox') : inbox'[i] = inbox[i + 1] /\ i + 1 \in 1 .. Len(inbox)
    BY <2>1
  <2>3. \A i \in 1 .. Len(inbox') : inbox'[i] # 0
    <3> TAKE i \in 1 .. Len(inbox')
    <3>1. i \in Nat /\ i >= 1 /\ i + 1 # 1
      BY <2>2
    <3> QED BY <2>2, <3>1 DEF BootFirst
  <2> QED BY <2>2, <2>3 DEF BootFirst
<1>5. CASE Boots
  <2>1. inbox = <<>> /\ body = "unborn" /\ inbox' = Append(inbox, 0) /\ body' = body
    BY <1>5 DEF Boots, Booted
  <2>2. inbox' = <<0>> /\ 0 \in 0 .. MaxCalls
    BY <2>1, BudgetNat
  <2>3. inbox' \in Seq(0 .. MaxCalls) /\ Len(inbox') = 1
    BY <2>2
  <2> QED BY <2>1, <2>2, <2>3 DEF BootFirst
<1>6. ASSUME NEW id \in Calls, NEW said, NEW wire, Answers(id, said, wire)
      PROVE  BootFirst'
  <2>1. inbox' = Append(inbox, id) /\ body' = body
    BY <1>6 DEF Answers
  <2>2. id \in 0 .. MaxCalls /\ id # 0
    BY BudgetNat DEF Calls
  <2>3. inbox \in Seq(0 .. MaxCalls)
    BY DEF BootFirst
  <2>4. /\ inbox' \in Seq(0 .. MaxCalls) /\ Len(inbox') = Len(inbox) + 1 /\ Len(inbox) \in Nat
        /\ inbox'[Len(inbox) + 1] = id
        /\ \A i \in 1 .. Len(inbox) : inbox'[i] = inbox[i]
    BY <2>1, <2>2, <2>3, AppendOf
  <2>5. \A i \in 1 .. Len(inbox') : i \in 1 .. Len(inbox) \/ i = Len(inbox) + 1
    BY <2>4
  <2> QED BY <2>1, <2>2, <2>4, <2>5 DEF BootFirst
<1>7. ASSUME NEW line, LogLine(line) \/ LogBeyond(line) PROVE UNCHANGED <<inbox, body>>
  BY <1>7 DEF LogLine, LogBeyond
<1>8. ASSUME NEW kind, NEW cost, Returns(kind, cost)
      PROVE  inbox' = inbox /\ body # "unborn"
  BY <1>8 DEF Returns
<1>9. Call \/ CallTooLarge \/ Polls \/ Closes => UNCHANGED <<inbox, body>>
  BY DEF Call, CallTooLarge, Polls, Closes
<1>10. SendsDone => inbox' = inbox /\ body # "unborn"
  BY DEF SendsDone
<1>11. ReadsEnd => inbox' = <<>>
  BY DEF ReadsEnd
<1>12. UNCHANGED vars => UNCHANGED <<inbox, body>>
  BY DEF vars
<1> QED BY <1>1, <1>2, <1>3, <1>4, <1>5, <1>6, <1>7, <1>8, <1>9, <1>10, <1>11, <1>12 DEF Next

\* Every step keeps the output accounted for.
LEMMA OutputStep ==
  ASSUME OutputState, BootFirst, [Next]_vars
  PROVE  OutputState'
<1>1. ASSUME NEW line \in Lines, LogLine(line) \/ LogBeyond(line) PROVE OutputState'
  BY <1>1, LogLineOutput, LogBeyondOutput
<1>2. CASE Call \/ SendsDone
  BY <1>2, CallOutput, DoneOutput
<1>3. CASE CallTooLarge \/ Polls \/ ReadsBoot \/ ReadsReply \/ ReadsEnd \/ Boots \/ Closes
  <2>1. UNCHANGED <<sent, ledger>>
    BY <1>3 DEF CallTooLarge, Polls, ReadsBoot, ReadsReply, ReadsEnd, Boots, Closes
  <2> QED BY <1>3, <2>1, QuietOutput
<1>4. CASE \/ \E cost \in Completions : Returns("value", cost) \/ Returns("threw", cost)
           \/ Returns("undefined", 0)
  <2>1. UNCHANGED <<sent, ledger>>
    BY <1>4 DEF Returns
  <2> QED BY <1>4, <2>1, QuietOutput
<1>5. CASE \E id \in Calls : \E said, wire : Answers(id, said, wire)
  <2>1. UNCHANGED <<sent, ledger>>
    BY <1>5 DEF Answers
  <2> QED BY <1>5, <2>1, QuietOutput
<1>6. CASE UNCHANGED vars
  BY <1>6 DEF vars, OutputState, LimitTold, EndTold
<1> QED BY <1>1, <1>2, <1>3, <1>4, <1>5, <1>6 DEF Next

-----------------------------------------------------------------------------
(* The calls and their replies.                                              *)

Promises == [how : {"unused", "waiting", "resolved", "rejected"}, value : Values]
Sayings  == [said : {"nothing", "value", "failure"}, wire : Seq(Tokens)]

\* The promise of a call that settled holds what was said to that call.
Whole(promise, saying) ==
  /\ promise.how = "resolved" =>
       saying.said = "value" /\ Flatten[promise.value] = saying.wire
  /\ promise.how = "rejected" =>
       \/ saying.said = "failure"
       \/ saying.said = "value" /\ saying.wire \notin Lossless

ReplyState ==
  /\ settled \in [Calls -> Promises]
  /\ answered \in [Calls -> Sayings]
  /\ replies = {id \in Calls : settled[id].how = "waiting"}
  /\ \A id \in Calls : answered[id].said = "value" => answered[id].wire \in Wires[id]
  /\ \A id \in Calls : Whole(settled[id], answered[id])
  /\ \A i \in 1 .. Len(inbox) :
       inbox[i] # 0 => inbox[i] \in Calls /\ answered[inbox[i]].said # "nothing"

\* No call has been made or answered at the start.
LEMMA StartReplies == ASSUME ProgramStart PROVE ReplyState
<1> DEFINE promise == [how |-> "unused", value |-> Undefined]
           saying  == [said |-> "nothing", wire |-> <<>>]
<1>1. promise \in Promises /\ promise.how = "unused"
  BY DEF Promises, Values
<1>2. saying \in Sayings /\ saying.said = "nothing"
  BY DEF Sayings
<1>3. /\ settled = [id \in Calls |-> promise] /\ answered = [id \in Calls |-> saying]
      /\ replies = {} /\ inbox = <<>>
  BY DEF ProgramStart
<1> HIDE DEF promise, saying
<1>4. settled \in [Calls -> Promises] /\ answered \in [Calls -> Sayings]
  BY <1>1, <1>2, <1>3
<1>5. \A id \in Calls : settled[id].how = "unused" /\ answered[id].said = "nothing"
  BY <1>1, <1>2, <1>3
<1>6. \A id \in Calls : Whole(settled[id], answered[id])
  BY <1>5 DEF Whole
<1>7. replies = {id \in Calls : settled[id].how = "waiting"}
  BY <1>3, <1>5
<1>8. \A i \in 1 .. Len(inbox) : FALSE
  BY <1>3
<1> QED BY <1>4, <1>5, <1>6, <1>7, <1>8 DEF ReplyState

\* A reply put together: the value it names, or none.
LEMMA OutcomeWhole ==
  ASSUME NEW id \in Calls, NEW saying \in Sayings, saying.said # "nothing",
         saying.said = "value" => saying.wire \in Wires[id]
  PROVE  LET promise == Outcome(saying.said, saying.wire)
         IN  promise \in Promises /\ Whole(promise, saying) /\ promise.how # "waiting"
<1> DEFINE value   == IF saying.said = "value" THEN Unflatten(saying.wire) ELSE Undefined
           promise == Outcome(saying.said, saying.wire)
<1>1. saying.said \in {"value", "failure"}
  BY DEF Sayings
<1>2. promise = [how |-> IF value = Undefined THEN "rejected" ELSE "resolved", value |-> value]
  BY DEF Outcome
<1>3. CASE saying.said = "value"
  <2>1. /\ saying.wire \in Seq(Tokens)
        /\ \A n \in 0 .. Len(saying.wire) : Len(Read(saying.wire)[n].open) <= Depth
    BY <1>3, WiresAssumption
  <2>2. /\ Unflatten(saying.wire) \in Values
        /\ Unflatten(saying.wire) # Undefined => Flatten[Unflatten(saying.wire)] = saying.wire
        /\ Unflatten(saying.wire) = Undefined <=> saying.wire \notin Lossless
    BY <2>1, ReadValuesSpell
  <2>3. value = Unflatten(saying.wire)
    BY <1>3
  <2> HIDE DEF value
  <2>4. promise.value = value /\ promise.how = (IF value = Undefined THEN "rejected" ELSE "resolved")
    BY <1>2
  <2>5. promise \in Promises
    BY <1>2, <2>2, <2>3 DEF Promises
  <2> HIDE DEF promise
  <2>6. Whole(promise, saying) /\ promise.how # "waiting"
    BY <1>3, <2>2, <2>3, <2>4 DEF Whole
  <2> QED BY <2>5, <2>6 DEF promise
<1>4. CASE saying.said = "failure"
  <2>1. value = Undefined
    BY <1>4
  <2>2. promise = [how |-> "rejected", value |-> Undefined]
    BY <1>2, <2>1
  <2> HIDE DEF promise
  <2> SUFFICES promise \in Promises /\ Whole(promise, saying) /\ promise.how # "waiting"
    BY DEF promise
  <2>3. promise \in Promises
    BY <2>2 DEF Promises, Values
  <2> QED BY <1>4, <2>2, <2>3 DEF Whole
<1> QED BY <1>1, <1>3, <1>4

\* A call waits for its own reply (the pending map).
LEMMA CallReplies ==
  ASSUME ReplyState, Call
  PROVE  ReplyState'
<1> DEFINE new == NextId
           promise == [settled[new] EXCEPT !.how = "waiting"]
<1>1. /\ new \in Calls /\ replies' = replies \cup {new}
      /\ settled' = [settled EXCEPT ![new] = promise]
      /\ UNCHANGED <<inbox, answered>>
  BY DEF Call
<1> HIDE DEF new
<1>2. settled \in [Calls -> Promises] /\ answered \in [Calls -> Sayings]
  BY DEF ReplyState
<1>3. promise \in Promises /\ promise.how = "waiting"
  <2>1. settled[new] \in Promises
    BY <1>1, <1>2
  <2>2. \A p \in Promises : LET q == [p EXCEPT !.how = "waiting"]
                            IN  q \in Promises /\ q.how = "waiting"
    BY DEF Promises
  <2> QED BY <2>1, <2>2
<1> HIDE DEF promise
<1>4. /\ settled' \in [Calls -> Promises]
      /\ \A id \in Calls : settled'[id] = IF id = new THEN promise ELSE settled[id]
  BY <1>1, <1>2, <1>3
<1>5. replies' = {id \in Calls : settled'[id].how = "waiting"}
  BY <1>1, <1>3, <1>4 DEF ReplyState
<1>6. \A id \in Calls : Whole(settled'[id], answered'[id])
  <2> TAKE id \in Calls
  <2>1. answered'[id] = answered[id]
    BY <1>1
  <2>2. CASE id = new
    BY <1>3, <1>4, <2>2 DEF Whole
  <2>3. CASE id # new
    BY <1>4, <2>1, <2>3 DEF ReplyState
  <2> QED BY <2>2, <2>3
<1> QED BY <1>1, <1>2, <1>4, <1>5, <1>6 DEF ReplyState

\* A reply settles the call it names, with what it says (deliverReply).
LEMMA ReadReplies ==
  ASSUME ReplyState, BootFirst, ReadsReply
  PROVE  ReplyState'
<1> DEFINE id == Head(inbox)
           promise == Outcome(answered[id].said, answered[id].wire)
<1>1. /\ inbox \in Seq(0 .. MaxCalls) /\ inbox # <<>> /\ id # 0
      /\ inbox' = Tail(inbox) /\ UNCHANGED answered
      /\ replies' = replies \ {id}
      /\ settled' = IF id \in replies THEN [settled EXCEPT ![id] = promise] ELSE settled
  BY DEF ReadsReply, Reply, BootFirst
<1>2. /\ \A i \in 1 .. Len(inbox') : inbox'[i] = inbox[i + 1] /\ i + 1 \in 1 .. Len(inbox)
      /\ 1 \in 1 .. Len(inbox) /\ id = inbox[1]
  BY <1>1
<1> HIDE DEF id
<1>3. settled \in [Calls -> Promises] /\ answered \in [Calls -> Sayings]
  BY DEF ReplyState
<1>4. id \in Calls /\ answered[id].said # "nothing" /\ answered[id] \in Sayings
  BY <1>1, <1>2, <1>3 DEF ReplyState
<1>5. promise \in Promises /\ Whole(promise, answered[id]) /\ promise.how # "waiting"
  <2>1. answered[id].said = "value" => answered[id].wire \in Wires[id]
    BY <1>4 DEF ReplyState
  <2> QED BY <1>4, <2>1, OutcomeWhole
<1> HIDE DEF promise
<1>6. \A i \in 1 .. Len(inbox') :
        inbox'[i] # 0 => inbox'[i] \in Calls /\ answered'[inbox'[i]].said # "nothing"
  BY <1>1, <1>2 DEF ReplyState
<1>7. CASE id \in replies
  <2>1. /\ settled' \in [Calls -> Promises]
        /\ \A x \in Calls : settled'[x] = IF x = id THEN promise ELSE settled[x]
    BY <1>1, <1>3, <1>5, <1>7
  <2>2. replies' = {x \in Calls : settled'[x].how = "waiting"}
    BY <1>1, <1>5, <2>1 DEF ReplyState
  <2>3. \A x \in Calls : Whole(settled'[x], answered'[x])
    <3> TAKE x \in Calls
    <3>1. CASE x = id
      BY <1>1, <1>5, <2>1, <3>1
    <3>2. CASE x # id
      BY <1>1, <2>1, <3>2 DEF ReplyState
    <3> QED BY <3>1, <3>2
  <2> QED BY <1>1, <1>3, <1>6, <2>1, <2>2, <2>3 DEF ReplyState
<1>8. CASE id \notin replies
  <2>1. settled' = settled /\ replies' = replies
    BY <1>1, <1>8
  <2> QED BY <1>1, <1>3, <1>6, <2>1 DEF ReplyState
<1> QED BY <1>7, <1>8

\* The harness answers a call once.
LEMMA AnswerReplies ==
  ASSUME ReplyState, BootFirst, NEW id \in Calls, NEW said, NEW wire, Answers(id, said, wire),
         said \in {"value", "failure"}, wire \in Seq(Tokens), said = "value" => wire \in Wires[id]
  PROVE  ReplyState'
<1> DEFINE saying == [said |-> said, wire |-> wire]
<1>1. /\ answered[id].said = "nothing" /\ answered' = [answered EXCEPT ![id] = saying]
      /\ inbox' = Append(inbox, id) /\ UNCHANGED <<settled, replies>>
  BY DEF Answers
<1>2. settled \in [Calls -> Promises] /\ answered \in [Calls -> Sayings]
  BY DEF ReplyState
<1>3. saying \in Sayings /\ saying.said = said /\ saying.wire = wire
  BY DEF Sayings
<1>4. said # "nothing" /\ (said = "value" => wire \in Wires[id])
  OBVIOUS
<1> HIDE DEF saying
<1>5. /\ answered' \in [Calls -> Sayings]
      /\ \A x \in Calls : answered'[x] = IF x = id THEN saying ELSE answered[x]
  BY <1>1, <1>2, <1>3
<1>6. \A x \in Calls : Whole(settled'[x], answered'[x])
  <2> TAKE x \in Calls
  <2>1. Whole(settled[x], answered[x])
    BY DEF ReplyState
  <2>2. CASE x = id
    BY <1>1, <2>1, <2>2 DEF Whole
  <2>3. CASE x # id
    BY <1>1, <1>5, <2>1, <2>3
  <2> QED BY <2>2, <2>3
<1>7. \A x \in Calls : answered'[x].said = "value" => answered'[x].wire \in Wires[x]
  BY <1>3, <1>4, <1>5 DEF ReplyState
<1>8. \A i \in 1 .. Len(inbox') :
        inbox'[i] # 0 => inbox'[i] \in Calls /\ answered'[inbox'[i]].said # "nothing"
  <2>1. inbox \in Seq(0 .. MaxCalls) /\ id \in 0 .. MaxCalls
    BY BudgetNat DEF BootFirst, Calls
  <2>2. /\ Len(inbox') = Len(inbox) + 1 /\ Len(inbox) \in Nat
        /\ inbox'[Len(inbox) + 1] = id
        /\ \A i \in 1 .. Len(inbox) : inbox'[i] = inbox[i]
    BY <1>1, <2>1, AppendOf
  <2>3. \A i \in 1 .. Len(inbox') : i \in 1 .. Len(inbox) \/ i = Len(inbox) + 1
    BY <2>2
  <2>4. \A x \in Calls : answered[x].said # "nothing" => answered'[x].said # "nothing"
    BY <1>1, <1>5
  <2>5. answered'[id].said # "nothing"
    BY <1>3, <1>4, <1>5
  <2>6. ASSUME NEW i \in 1 .. Len(inbox), inbox[i] # 0
        PROVE  inbox[i] \in Calls /\ answered'[inbox[i]].said # "nothing"
    BY <2>4, <2>6 DEF ReplyState
  <2> QED BY <2>2, <2>3, <2>5, <2>6
<1> QED BY <1>1, <1>2, <1>5, <1>6, <1>7, <1>8 DEF ReplyState

\* Every step keeps each call with its own reply.
LEMMA ReplyStep ==
  ASSUME BootFirst, ReplyState, [Next]_vars
  PROVE  ReplyState'
<1>1. CASE UNCHANGED <<settled, answered, replies, inbox>>
  BY <1>1 DEF ReplyState
<1>2. CASE Call
  BY <1>2, CallReplies
<1>3. CASE ReadsReply
  BY <1>3, ReadReplies
<1>4. ASSUME NEW id \in Calls,
             \/ \E wire \in Wires[id] : Answers(id, "value", wire)
             \/ Answers(id, "failure", <<>>)
      PROVE  ReplyState'
  <2>1. \A wire \in Wires[id] : wire \in Seq(Tokens)
    BY WiresAssumption
  <2>2. PICK said, wire : /\ Answers(id, said, wire) /\ said \in {"value", "failure"}
                          /\ wire \in Seq(Tokens) /\ (said = "value" => wire \in Wires[id])
    <3>1. CASE Answers(id, "failure", <<>>)
      <4>1. /\ "failure" \in {"value", "failure"} /\ <<>> \in Seq(Tokens)
            /\ "failure" = "value" => <<>> \in Wires[id]
        OBVIOUS
      <4> QED BY <3>1, <4>1, Zenon
    <3>2. ASSUME NEW wire \in Wires[id], Answers(id, "value", wire)
          PROVE  \E said, w : /\ Answers(id, said, w) /\ said \in {"value", "failure"}
                              /\ w \in Seq(Tokens) /\ (said = "value" => w \in Wires[id])
      BY <2>1, <3>2
    <3> QED BY <1>4, <3>1, <3>2
  <2> QED BY <2>2, AnswerReplies
<1>5. CASE ReadsBoot
  <2>1. /\ inbox \in Seq(0 .. MaxCalls) /\ inbox # <<>> /\ inbox' = Tail(inbox)
        /\ UNCHANGED <<settled, answered, replies>>
    BY <1>5 DEF ReadsBoot, BootFirst
  <2>2. \A i \in 1 .. Len(inbox') : inbox'[i] = inbox[i + 1] /\ i + 1 \in 1 .. Len(inbox)
    BY <2>1
  <2> QED BY <2>1, <2>2 DEF ReplyState
<1>6. CASE Boots
  <2>1. /\ inbox' = Append(inbox, 0) /\ inbox = <<>>
        /\ UNCHANGED <<settled, answered, replies>>
    BY <1>6 DEF Boots, Booted
  <2>2. \A i \in 1 .. Len(inbox') : inbox'[i] = 0
    BY <2>1
  <2> QED BY <2>1, <2>2 DEF ReplyState
<1>7. ASSUME NEW line, LogLine(line) \/ LogBeyond(line)
      PROVE UNCHANGED <<settled, answered, replies, inbox>>
  BY <1>7 DEF LogLine, LogBeyond
<1>8. ASSUME NEW kind, NEW cost, Returns(kind, cost)
      PROVE  UNCHANGED <<settled, answered, replies, inbox>>
  BY <1>8 DEF Returns
<1>9. CallTooLarge \/ SendsDone \/ Polls \/ ReadsEnd \/ Closes
        => UNCHANGED <<settled, answered, replies, inbox>>
  BY DEF CallTooLarge, SendsDone, Polls, ReadsEnd, Closes
<1>10. UNCHANGED vars => UNCHANGED <<settled, answered, replies, inbox>>
  BY DEF vars
<1> QED BY <1>1, <1>2, <1>3, <1>4, <1>5, <1>6, <1>7, <1>8, <1>9, <1>10 DEF Next

-----------------------------------------------------------------------------
(* The theorems of the program host.                                         *)

ProgramInv == OutputState /\ BootFirst /\ ReplyState

(* Among most one position: what LimitLast and OneEnd say, in Cardinality.      *)
LEMMA AtMostOne ==
  ASSUME NEW S, \A x, y \in S : x = y
  PROVE  Cardinality(S) <= 1
<1>1. CASE S = {}
  BY <1>1, FS_EmptySet
<1>2. ASSUME NEW x \in S PROVE Cardinality(S) <= 1
  <2>1. S = {x}
    BY <1>2
  <2> QED BY <2>1, FS_Singleton
<1> QED BY <1>1, <1>2

(* The state is of its type: the ledger keeps within its budget, the waiting *)
(* calls are those that replies names (Ledger.push, deliverReply).           *)
LEMMA TypeFollows == ASSUME ProgramInv PROVE ProgramTypeOK
<1>1. \A i \in DOMAIN inbox : inbox[i] \in 0 .. MaxCalls
  <2>1. inbox \in Seq(0 .. MaxCalls)
    BY DEF ProgramInv, BootFirst
  <2>2. DOMAIN inbox = 1 .. Len(inbox)
    BY <2>1
  <2>3. \A i \in 1 .. Len(inbox) : inbox[i] \in 0 .. MaxCalls
    BY <2>1, ElementOfSeq
  <2> QED BY <2>2, <2>3
<1>2. \A id \in Calls : settled[id].value \in Values
  BY DEF ProgramInv, ReplyState, Promises
<1>3. replies = {id \in Calls : settled[id].how = "waiting"}
  BY DEF ProgramInv, ReplyState
<1>4. ledger.entries \in 0 .. MaxLines /\ (ledger.bytes = 2 \/ ledger.bytes <= MaxOutput)
  BY DEF ProgramInv, OutputState
<1> QED BY <1>1, <1>2, <1>3, <1>4 DEF ProgramInv, OutputState, ProgramTypeOK

\* The invariant gives what OutputAccounted says of frames and their number.
LEMMA AccountFollows == ASSUME ProgramInv PROVE OutputAccounted
<1>1. InOrder(sent)
  BY DEF ProgramInv, OutputState
<1>2. \A type : Positions(type) = Among(sent, type)
  BY DEF Positions, Among
<1>3. Positions("done") \cup Positions("overflow") = Ends(sent)
  BY <1>2 DEF Ends
<1>4. OutputWithinBudget
  BY <1>1, <1>2 DEF InOrder, Budgeted, OutputWithinBudget, LoggedBefore
<1>5. LimitEndsLog
  <2>1. Cardinality(Positions("output-limit")) <= 1
    BY <1>1, <1>2, AtMostOne DEF InOrder, LimitLast
  <2> QED BY <1>1, <1>2, <2>1 DEF InOrder, LimitLast, LimitEndsLog
<1>6. SuccessIsReported
  <2>1. Cardinality(Positions("done") \cup Positions("overflow")) <= 1
    BY <1>1, <1>3, AtMostOne DEF InOrder, OneEnd
  <2>2. loop = "exited" => closed \/ Positions("done") \cup Positions("overflow") # {}
    BY <1>3 DEF ProgramInv, OutputState, EndTold
  <2> QED BY <2>1, <2>2 DEF SuccessIsReported
<1> QED BY <1>4, <1>5, <1>6, TypeFollows DEF OutputAccounted

\* The invariant gives RepliesArriveWhole.
LEMMA WholeFollows == ASSUME ProgramInv PROVE RepliesArriveWhole
BY DEF ProgramInv, ReplyState, Whole, RepliesArriveWhole

(* What the frames written, the ledger, the inbox and the promises of the    *)
(* calls have to do with each other is so in every reachable state, for any  *)
(* budget, any lines and completions and any answers (main.rs, program.js).  *)
THEOREM ProgramInvHolds == ProgramSpec => []ProgramInv
<1>1. ProgramStart => ProgramInv
  BY StartOutput, StartReplies DEF ProgramInv
<1>2. ProgramInv /\ [Next]_vars => ProgramInv'
  BY OutputStep, BootStep, ReplyStep DEF ProgramInv
<1> QED BY <1>1, <1>2, PTL DEF ProgramSpec

(* The lines logged before the completion and the completion keep within     *)
(* maxOutputBytes together (a line logged after it is charged without it,    *)
(* and of that nothing is claimed), the limit is told once and ends the log, *)
(* and a run that exits with success has said how it ended, once, unless the *)
(* channel was closed on it (the ledger and runProgram, program.js).         *)
THEOREM OutputIsAccounted == ProgramSpec => []OutputAccounted
<1>1. ProgramInv => OutputAccounted
  BY AccountFollows
<1> QED BY <1>1, ProgramInvHolds, PTL

(* A call that resolves has the one value whose tokens its own reply spells, *)
(* and one that is rejected was refused or answered with a stream that is no *)
(* value's (deliverReply and unflatten, program.js).                         *)
THEOREM RepliesAreWhole == ProgramSpec => []RepliesArriveWhole
<1>1. ProgramInv => RepliesArriveWhole
  BY WholeFollows
<1> QED BY <1>1, ProgramInvHolds, PTL

=============================================================================
