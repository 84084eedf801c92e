-------------------------- MODULE NodeConnections --------------------------
(***************************************************************************)
(* The connection manager of src/src/models/machines.ts, for one machine.  *)
(*                                                                         *)
(* The manager keeps one entry object per machine.  Connecting is an       *)
(* asynchronous attempt (open a transport, then shake hands); a dropped    *)
(* connection starts a recovery loop of bounded attempts; disconnect and   *)
(* dispose clear the entry at any moment, also in the middle of an attempt.*)
(* Entries of two machines share nothing, so one machine is modelled;      *)
(* Entries is a set because dispose() forgets the entry object and a later *)
(* connectRecord creates another one, while closures still hold the first. *)
(*                                                                         *)
(* An attempt's identity also names what it produced: its transport and    *)
(* its live connection.  A slot (attempt, recovery, install) is used again *)
(* only once nothing refers to it, as a collected object would be.         *)
(***************************************************************************)
EXTENDS Naturals

CONSTANTS
  Entries,           \* entry objects the manager may create
  Attempts,          \* bound: attempts, transports and connections alive at once
  Recoveries,        \* bound: recovery loops alive at once
  Installs,          \* bound: PTC host installs alive at once
  RecoveryAttempts,  \* deps.recoveryAttempts: rounds of one recovery loop
  Ssh,               \* whether the machine's transport is an SSH forward
  None               \* undefined

ASSUME NoneAssumption ==
  None \notin Entries \cup Attempts \cup Recoveries \cup Installs
ASSUME RecoveryAttemptsAssumption == RecoveryAttempts \in Nat \ {0}
ASSUME SshAssumption == Ssh \in BOOLEAN

VARIABLES
  entry,     \* the fields of each entry object
  current,   \* the entry in the manager's map, or None
  born,      \* the entry objects created so far
  attempt,   \* the connect attempts: phase and the entry they will settle
  forwards,  \* attempts whose ssh forward process is running
  sockets,   \* attempts whose connection still carries requests
  held,      \* attempts whose published channel a caller holds
  recovery,  \* the recovery loops: phase, entry, round, attempt awaited
  install,   \* the PTC host installs: running or not, entry, connection
  disposed,  \* dispose() was called
  calm       \* history: no disconnect or dispose has met an attempt in flight

vars == <<entry, current, born, attempt, forwards, sockets, held, recovery,
          install, disposed, calm>>

-----------------------------------------------------------------------------
(* Types *)

NodeState == {"idle", "connecting", "ready", "failed", "disconnected"}

Entry == [state     : NodeState,
          live      : Attempts \cup {None},
          published : Attempts \cup {None},
          pending   : Attempts \cup {None},
          transport : Attempts \cup {None},
          recovery  : Recoveries \cup {None},
          ptcHost   : Installs \cup {None},
          worker    : {"none", "installing", "failed"}]

Attempt  == [phase : {"idle", "opening", "handshaking"},
             owner : Entries \cup {None}]
Recovery == [phase : {"idle", "sleeping", "waiting"},
             owner : Entries \cup {None},
             round : 0 .. RecoveryAttempts,
             on    : Attempts \cup {None}]
Install  == [running : BOOLEAN,
             owner   : Entries \cup {None},
             conn    : Attempts \cup {None}]

IdleEntry == [state |-> "idle", live |-> None, published |-> None,
              pending |-> None, transport |-> None, recovery |-> None,
              ptcHost |-> None, worker |-> "none"]
IdleAttempt  == [phase |-> "idle", owner |-> None]
IdleRecovery == [phase |-> "idle", owner |-> None, round |-> 0, on |-> None]
IdleInstall  == [running |-> FALSE, owner |-> None, conn |-> None]

(* The manager's state always has its declared shape. *)
TypeOK ==
  /\ entry \in [Entries -> Entry]
  /\ current \in Entries \cup {None}
  /\ born \subseteq Entries
  /\ attempt \in [Attempts -> Attempt]
  /\ forwards \subseteq Attempts
  /\ sockets \subseteq Attempts
  /\ held \subseteq Attempts
  /\ recovery \in [Recoveries -> Recovery]
  /\ install \in [Installs -> Install]
  /\ disposed \in BOOLEAN
  /\ calm \in BOOLEAN

-----------------------------------------------------------------------------
(* Identities nothing refers to any more *)

InstallHeld(i) == \E e \in Entries : entry[e].ptcHost = i

FreeAttempt(a) ==
  /\ attempt[a].phase = "idle"
  /\ a \notin forwards \cup sockets \cup held
  /\ \A e \in Entries : a \notin {entry[e].live, entry[e].published,
                                  entry[e].pending, entry[e].transport}
  /\ \A i \in Installs : InstallHeld(i) => install[i].conn # a
  /\ \A r \in Recoveries : recovery[r].on # a

FreeRecovery(r) ==
  /\ recovery[r].phase = "idle"
  /\ \A e \in Entries : entry[e].recovery # r

FreeInstall(i) ==
  /\ ~install[i].running
  /\ ~InstallHeld(i)

InFlight(e) == {a \in Attempts : /\ attempt[a].phase # "idle"
                                 /\ attempt[a].owner = e}

-----------------------------------------------------------------------------
(* What the handlers share *)

\* Mutants: clear without a field; fail that closes one of the two; a loop
\* that does not mark the entry.
ClearedKeepsChannel(x) ==
  [x EXCEPT !.live = None, !.pending = None, !.transport = None,
            !.ptcHost = None, !.worker = "none"]
ClearedKeepsPending(x) ==
  [x EXCEPT !.live = None, !.published = None, !.transport = None,
            !.ptcHost = None, !.worker = "none"]
CloseConnectionOnly(x) ==
  /\ sockets' = sockets \ {x.live}
  /\ UNCHANGED forwards

\* clear(entry): everything a connection holds; state, error, recovery stay.
Cleared(x) == [x EXCEPT !.live = None, !.published = None, !.pending = None,
                        !.transport = None, !.ptcHost = None,
                        !.worker = "none"]

\* clear also closes the connection and the forward it forgets.
Close(x) ==
  /\ sockets' = sockets \ {x.live}
  /\ forwards' = forwards \ {x.transport}

\* fail(entry, error)
Failed(x) == [Cleared(x) EXCEPT !.state = "failed"]

\* Mutant: the loop is started without marking the entry as its own.
FailAndRecoverUnmarked(e, r) ==
  /\ FreeRecovery(r)
  /\ entry' = [entry EXCEPT ![e] = Failed(@)]
  /\ Close(entry[e])
  /\ recovery' = [recovery EXCEPT
       ![r] = [phase |-> "sleeping", owner |-> e, round |-> 1, on |-> None]]

\* fail followed by recover: the loop starts with the sleep before round one.
FailAndRecover(e, r) ==
  /\ FreeRecovery(r)
  /\ entry' = [entry EXCEPT ![e] = [Failed(@) EXCEPT !.recovery = r]]
  /\ Close(entry[e])
  /\ recovery' = [recovery EXCEPT
       ![r] = [phase |-> "sleeping", owner |-> e, round |-> 1, on |-> None]]

\* Mutants: one round too many; the round never counted.
ResumedOneMore(a, ready) ==
  [r \in Recoveries |->
     IF recovery[r].on # a
       THEN recovery[r]
       ELSE IF ready \/ recovery[r].round > RecoveryAttempts
              THEN IdleRecovery
              ELSE [recovery[r] EXCEPT !.phase = "sleeping",
                                       !.round = @ + 1, !.on = None]]
ResumedUncounted(a, ready) ==
  [r \in Recoveries |->
     IF recovery[r].on # a
       THEN recovery[r]
       ELSE IF ready
              THEN IdleRecovery
              ELSE [recovery[r] EXCEPT !.phase = "sleeping", !.on = None]]

\* The recovery loops that await attempt a, once it settles.
Resumed(a, ready) ==
  [r \in Recoveries |->
     IF recovery[r].on # a
       THEN recovery[r]
       ELSE IF ready \/ recovery[r].round = RecoveryAttempts
              THEN IdleRecovery
              ELSE [recovery[r] EXCEPT !.phase = "sleeping",
                                       !.round = @ + 1, !.on = None]]

\* entryFor(nodeId): the entry in the map, or a fresh one put there.
EntryFor(e) ==
  \/ e = current /\ UNCHANGED <<current, born>>
  \/ /\ current = None
     /\ e \in Entries \ born
     /\ current' = e
     /\ born' = born \cup {e}

\* Mutant: no early return on a pending attempt.
BeginAgain(e, a) ==
  /\ entry[e].state # "ready"
  /\ FreeAttempt(a)
  /\ entry' = [entry EXCEPT ![e].state = "connecting", ![e].pending = a]
  /\ attempt' = [attempt EXCEPT ![a] = [phase |-> "opening", owner |-> e]]

\* connectRecord past its early returns: a new attempt for entry e.
Begin(e, a) ==
  /\ entry[e].state # "ready"
  /\ entry[e].pending = None
  /\ FreeAttempt(a)
  /\ entry' = [entry EXCEPT ![e].state = "connecting", ![e].pending = a]
  /\ attempt' = [attempt EXCEPT ![a] = [phase |-> "opening", owner |-> e]]

-----------------------------------------------------------------------------
(* Actions *)

Init ==
  /\ entry = [e \in Entries |-> IdleEntry]
  /\ current = None
  /\ born = {}
  /\ attempt = [a \in Attempts |-> IdleAttempt]
  /\ forwards = {}
  /\ sockets = {}
  /\ held = {}
  /\ recovery = [r \in Recoveries |-> IdleRecovery]
  /\ install = [i \in Installs |-> IdleInstall]
  /\ disposed = FALSE
  /\ calm = TRUE

\* connect(record), by a person or a connection pass.  A machine that is
\* ready or has an attempt pending answers without a change of state.  The
\* routes and the passes are gone once the plugin's scope is disposed.
Connect ==
  /\ ~disposed
  /\ \E e \in Entries, a \in Attempts : EntryFor(e) /\ Begin(e, a)
  /\ UNCHANGED <<forwards, sockets, held, recovery, install, disposed, calm>>

\* The transport opens: the agent is ensured and, over ssh, a forward runs.
\* The entry takes it whatever happened to the entry meanwhile.
TransportOpens(a) ==
  /\ attempt[a].phase = "opening"
  /\ attempt' = [attempt EXCEPT ![a].phase = "handshaking"]
  /\ entry' = [entry EXCEPT ![attempt[a].owner].transport = a]
  /\ forwards' = IF Ssh THEN forwards \cup {a} ELSE forwards
  /\ UNCHANGED <<current, born, sockets, held, recovery, install, disposed, calm>>

\* ptcHostFor(entry, record) when the entry remembers no install.
WarmUp(e, a, i) ==
  IF Ssh /\ entry[e].ptcHost = None
    THEN /\ FreeInstall(i)
         /\ install' = [install EXCEPT
              ![i] = [running |-> TRUE, owner |-> e, conn |-> a]]
    ELSE UNCHANGED install

\* The fields of an entry whose attempt a succeeded; i is the install begun.
Readied(x, a, i) ==
  LET installs == Ssh /\ x.ptcHost = None
  IN  [x EXCEPT !.live = a, !.published = a, !.pending = None,
                !.state = "ready",
                !.ptcHost = IF installs THEN i ELSE @,
                !.worker = IF installs THEN "installing" ELSE @]

\* The handshake succeeds: the connection is published, the host install is
\* warmed up, and whoever awaited the attempt goes on.
HandshakeSucceeds(a, i) ==
  LET e == attempt[a].owner
  IN  /\ attempt[a].phase = "handshaking"
      /\ attempt' = [attempt EXCEPT ![a] = IdleAttempt]
      /\ sockets' = sockets \cup {a}
      /\ WarmUp(e, a, i)
      /\ entry' = [entry EXCEPT ![e] = Readied(@, a, i)]
      /\ recovery' = Resumed(a, TRUE)
      /\ UNCHANGED <<current, born, forwards, held, disposed, calm>>

\* Opening or shaking hands fails, a timeout included: fail(entry).
AttemptFails(a) ==
  LET e == attempt[a].owner
  IN  /\ attempt[a].phase # "idle"
      /\ attempt' = [attempt EXCEPT ![a] = IdleAttempt]
      /\ entry' = [entry EXCEPT ![e] = Failed(@)]
      /\ Close(entry[e])
      /\ recovery' = Resumed(a, FALSE)
      /\ UNCHANGED <<current, born, held, install, disposed, calm>>

\* The environment: a forward process exits, a connection stops carrying calls.
ForwardDies(a) ==
  /\ a \in forwards
  /\ forwards' = forwards \ {a}
  /\ UNCHANGED <<entry, current, born, attempt, sockets, held, recovery,
                 install, disposed, calm>>

SocketDies(a) ==
  /\ a \in sockets
  /\ sockets' = sockets \ {a}
  /\ UNCHANGED <<entry, current, born, attempt, forwards, held, recovery,
                 install, disposed, calm>>

\* opened.exited.then(...), registered once the attempt succeeded.  For a
\* transport the entry no longer holds it returns without a change.
ForwardLost(e, r) ==
  /\ Ssh
  /\ entry[e].transport \notin forwards \cup {None}
  /\ attempt[entry[e].transport].phase = "idle"
  /\ FailAndRecover(e, r)
  /\ UNCHANGED <<current, born, attempt, held, install, disposed, calm>>

\* channel(nodeId): a caller takes the published channel, and lets it go.
TakeChannel ==
  /\ current # None
  /\ entry[current].published # None
  /\ held' = held \cup {entry[current].published}
  /\ UNCHANGED <<entry, current, born, attempt, forwards, sockets, recovery,
                 install, disposed, calm>>

DropChannel(a) ==
  /\ a \in held
  /\ held' = held \ {a}
  /\ UNCHANGED <<entry, current, born, attempt, forwards, sockets, recovery,
                 install, disposed, calm>>

\* Mutant: any wire error is a drop of whatever connection is live now.
CallFailsStale(a, r) ==
  /\ a \in held
  /\ a \notin sockets
  /\ held' = held \ {a}
  /\ IF \E e \in Entries : entry[e].live # None
       THEN \E e \in Entries : entry[e].live # None /\ FailAndRecover(e, r)
       ELSE UNCHANGED <<entry, forwards, sockets, recovery>>
  /\ UNCHANGED <<current, born, attempt, install, disposed, calm>>

\* A request on a held channel fails on the wire: a drop if the entry still
\* has that connection, the caller's business alone otherwise.  A refusal the
\* daemon answers changes nothing either.
CallFails(a, r) ==
  /\ a \in held
  /\ a \notin sockets
  /\ held' = held \ {a}
  /\ IF \E e \in Entries : entry[e].live = a
       THEN \E e \in Entries : entry[e].live = a /\ FailAndRecover(e, r)
       ELSE UNCHANGED <<entry, forwards, sockets, recovery>>
  /\ UNCHANGED <<current, born, attempt, install, disposed, calm>>

\* One recovery loop wakes from its sleep: taken over it ends, on a machine
\* already ready it is done, else it awaits the attempt pending or a new one.
NotSuperseded(r) == FALSE  \* mutant: the check after the sleep is missing
Superseded(r) == entry[recovery[r].owner].recovery # r

RecoveryEnds(r) ==
  /\ recovery[r].phase = "sleeping"
  /\ \/ Superseded(r)
     \/ current # None /\ entry[current].state = "ready"
  /\ recovery' = [recovery EXCEPT ![r] = IdleRecovery]
  /\ UNCHANGED <<entry, current, born, attempt, forwards, sockets, held,
                 install, disposed, calm>>

RecoveryJoins(r) ==
  /\ recovery[r].phase = "sleeping"
  /\ ~Superseded(r)
  /\ current # None
  /\ entry[current].state # "ready"
  /\ entry[current].pending # None
  /\ recovery' = [recovery EXCEPT ![r].phase = "waiting",
                                  ![r].on = entry[current].pending]
  /\ UNCHANGED <<entry, current, born, attempt, forwards, sockets, held,
                 install, disposed, calm>>

RecoveryConnects(r, a) ==
  /\ recovery[r].phase = "sleeping"
  /\ ~Superseded(r)
  /\ \E e \in Entries : EntryFor(e) /\ Begin(e, a)
  /\ recovery' = [recovery EXCEPT ![r].phase = "waiting", ![r].on = a]
  /\ UNCHANGED <<forwards, sockets, held, install, disposed, calm>>

\* ptcHost(nodeId): a program asks for the worker, starting an install when
\* the entry remembers none (the warm-up's having failed).
ProgramAsks(i) ==
  /\ current # None
  /\ entry[current].state = "ready"
  /\ Ssh
  /\ entry[current].ptcHost = None
  /\ WarmUp(current, entry[current].live, i)
  /\ entry' = [entry EXCEPT ![current].ptcHost = i,
                            ![current].worker = "installing"]
  /\ UNCHANGED <<current, born, attempt, forwards, sockets, held, recovery,
                 disposed, calm>>

\* Mutant: the answer of an older install is taken for the current one's.
InstallSettlesUnchecked(i, ok) ==
  LET e == install[i].owner
  IN  /\ install[i].running
      /\ install' = [install EXCEPT ![i].running = FALSE]
      /\ entry' = IF ok
                    THEN [entry EXCEPT ![e].worker = "none"]
                    ELSE [entry EXCEPT ![e].ptcHost = None,
                                       ![e].worker = "failed"]
      /\ UNCHANGED <<current, born, attempt, forwards, sockets, held,
                     recovery, disposed, calm>>

\* An install settles; an entry that moved on to another one is left alone.
InstallSettles(i, ok) ==
  LET e == install[i].owner
  IN  /\ install[i].running
      /\ install' = [install EXCEPT ![i].running = FALSE]
      /\ entry' = IF entry[e].ptcHost # i
                    THEN entry
                    ELSE IF ok
                      THEN [entry EXCEPT ![e].worker = "none"]
                      ELSE [entry EXCEPT ![e].ptcHost = None,
                                         ![e].worker = "failed"]
      /\ UNCHANGED <<current, born, attempt, forwards, sockets, held,
                     recovery, disposed, calm>>

\* Mutants: the recovery loop of the entry is not ended.
DisconnectKeepsRetry ==
  /\ ~disposed
  /\ current # None
  /\ entry' = [entry EXCEPT ![current] =
       [Cleared(@) EXCEPT !.state = "disconnected"]]
  /\ Close(entry[current])
  /\ calm' = (calm /\ InFlight(current) = {})
  /\ UNCHANGED <<current, born, attempt, held, recovery, install, disposed>>
DisposeKeepsRetry ==
  /\ ~disposed
  /\ current # None
  /\ disposed' = TRUE
  /\ current' = None
  /\ entry' = [entry EXCEPT ![current] = Cleared(@)]
  /\ Close(entry[current])
  /\ calm' = (calm /\ InFlight(current) = {})
  /\ UNCHANGED <<born, attempt, held, recovery, install>>

\* disconnect(nodeId)
Disconnect ==
  /\ ~disposed
  /\ current # None
  /\ entry' = [entry EXCEPT ![current] =
       [Cleared(@) EXCEPT !.recovery = None, !.state = "disconnected"]]
  /\ Close(entry[current])
  /\ calm' = (calm /\ InFlight(current) = {})
  /\ UNCHANGED <<current, born, attempt, held, recovery, install, disposed>>

\* dispose(): clear every entry, leaving its state as it was, and forget it.
Dispose ==
  /\ ~disposed
  /\ disposed' = TRUE
  /\ current' = None
  /\ IF current = None
       THEN UNCHANGED <<entry, sockets, forwards, calm>>
       ELSE /\ entry' = [entry EXCEPT ![current] =
                 [Cleared(@) EXCEPT !.recovery = None]]
            /\ Close(entry[current])
            /\ calm' = (calm /\ InFlight(current) = {})
  /\ UNCHANGED <<born, attempt, held, recovery, install>>

AttemptStep(a) ==
  \/ TransportOpens(a)
  \/ \E i \in Installs : HandshakeSucceeds(a, i)
  \/ AttemptFails(a)

RecoveryStep(r) ==
  \/ RecoveryEnds(r)
  \/ RecoveryJoins(r)
  \/ \E a \in Attempts : RecoveryConnects(r, a)

Next ==
  \/ Connect
  \/ Disconnect
  \/ Dispose
  \/ TakeChannel
  \/ \E a \in Attempts : \/ AttemptStep(a)
                         \/ ForwardDies(a)
                         \/ SocketDies(a)
                         \/ DropChannel(a)
  \/ \E r \in Recoveries : \/ RecoveryStep(r)
                           \/ \E e \in Entries : ForwardLost(e, r)
                           \/ \E a \in Attempts : CallFails(a, r)
  \/ \E i \in Installs : \/ ProgramAsks(i)
                         \/ \E ok \in BOOLEAN : InstallSettles(i, ok)

Spec == Init /\ [][Next]_vars

-----------------------------------------------------------------------------
(* Safety *)

(* The channel the routers are handed is the one of the live connection, and *)
(* there is one exactly while the machine reads as ready: machines.ts writes *)
(* the two in different places (ready, clear, fail, disconnect).             *)
HandedOutIsLive ==
  current # None =>
    LET x == entry[current]
    IN  /\ x.published = x.live
        /\ (x.state = "ready") <=> (x.live # None)

(* A machine reads as connecting exactly while an attempt of its own is in   *)
(* flight and remembered as pending: none is "stuck in `connecting`"         *)
(* (the comment on the attempt's catch), and no second one starts beside it. *)
ConnectingIsAttempted ==
  current # None =>
    LET x == entry[current]
    IN  /\ (x.state = "connecting") <=> (x.pending # None)
        /\ x.pending # None => x.pending \in InFlight(current)

(* Whatever happens to attempts, drops, recoveries and stale channels, no    *)
(* ssh forward and no connection outlives the entry's hold on it ("must not  *)
(* leave an `ssh` process running behind it", clear), as long as no          *)
(* disconnect or dispose met an attempt in flight.                           *)
NothingLeaks ==
  calm => /\ \A a \in forwards : \E e \in Entries : entry[e].transport = a
          /\ \A a \in sockets : \E e \in Entries : entry[e].live = a

(* "A person asking for the connection to end also ends any retry of it"     *)
(* (disconnect): a disconnected machine has no recovery loop that would      *)
(* still act on it.                                                          *)
DisconnectEndsRetry ==
  current # None /\ entry[current].state = "disconnected" =>
    \A r \in Recoveries : recovery[r].phase # "idle" =>
      recovery[r].owner # current \/ Superseded(r)

(* A disposed manager that was calm comes to nothing: no entry comes back,   *)
(* no attempt starts, no forward is left (recovery.test.ts: "nothing         *)
(* reconnects after the manager is disposed").                               *)
DisposedStaysQuiet ==
  calm /\ disposed =>
    /\ current = None
    /\ forwards = {}
    /\ \A a \in Attempts : attempt[a].phase = "idle"

(* The worker status a surface reads tells the truth about the install the   *)
(* entry remembers, and that install was begun for the connection the entry  *)
(* has now: the answers of an older connection's install are ignored.        *)
WorkerTellsInstall ==
  current # None =>
    LET x == entry[current]
    IN  /\ (x.worker = "installing")
             <=> (x.ptcHost # None /\ install[x.ptcHost].running)
        /\ x.worker # "none" => x.state = "ready"
        /\ calm /\ x.ptcHost # None => install[x.ptcHost].conn = x.live

(* Callers, recovery loops and passes share one attempt: as long as no       *)
(* disconnect or dispose met one, a second is never opened beside it.        *)
OneAttemptAtATime ==
  calm => \A a, b \in Attempts :
            attempt[a].phase # "idle" /\ attempt[b].phase # "idle" => a = b

(* What the manager's fields say of each other and of what runs: the channel *)
(* handed out is live, a connecting machine has an attempt and only one, a   *)
(* disconnected one no retry, and the worker's status is its install's.      *)
ManagerInv ==
  /\ TypeOK
  /\ HandedOutIsLive
  /\ ConnectingIsAttempted
  /\ DisconnectEndsRetry
  /\ OneAttemptAtATime
  /\ WorkerTellsInstall

-----------------------------------------------------------------------------
(* Action properties *)

(* A ready machine fails only on the loss of its own connection or forward:  *)
(* a stale channel's error or an old forward's exit never takes the new      *)
(* connection down.  There is one more way, only after a disconnect met an   *)
(* attempt in flight: that attempt, still running beside the one that made   *)
(* the machine ready again, fails late and its catch fails the entry.        *)
FailsLate(e) == ~calm /\ \E a \in InFlight(e) : AttemptFails(a)

OnlyOwnLossDrops ==
  [][\A e \in Entries :
       entry[e].state = "ready" /\ entry'[e].state = "failed" =>
         \/ entry[e].live \notin sockets
         \/ Ssh /\ entry[e].transport \notin forwards
         \/ FailsLate(e)]_vars

(* Where no disconnect met an attempt in flight, a machine somebody          *)
(* disconnected leaves that state only by connect(): no recovery and no      *)
(* stale loss revives it ("a deliberate disconnect is not undone",           *)
(* recovery.test.ts; "a machine a person disconnected stays down",           *)
(* autoconnect.ts).                                                          *)
StaysDown ==
  current # None /\ current' = current /\ entry[current].state = "disconnected"
    => entry'[current].state = "disconnected" \/ Connect

CalmDisconnectStaysDown == [][calm => StaysDown]_vars

(* The same sentence for every behaviour: an attempt in flight when the      *)
(* person disconnects must not make the machine ready again.                 *)
DisconnectNotUndone ==
  [][current # None /\ current' = current
       /\ entry[current].state = "disconnected"
     => entry'[current].state # "ready"]_vars

-----------------------------------------------------------------------------
(* Liveness *)

(* Timers fire, and an attempt, an install and the exit of a forward are     *)
(* answered.  forwardTimeoutMs and handshakeTimeoutMs bound the forward and  *)
(* the handshake; the ssh commands of ensureAgent before them (and of a host *)
(* install) have no timeout in the code, so that each of them ends is taken  *)
(* of ssh.  Nobody has to connect, disconnect, call, or lose a link.         *)
Fairness ==
  /\ \A a \in Attempts : WF_vars(AttemptStep(a))
  /\ \A r \in Recoveries : WF_vars(RecoveryStep(r))
  /\ \A i \in Installs : WF_vars(\E ok \in BOOLEAN : InstallSettles(i, ok))
  /\ WF_vars(\E e \in Entries, r \in Recoveries : ForwardLost(e, r))

(* The slots are finite where the program's objects are not: an attempt no   *)
(* entry refers to any more is let go in the end, so that its slot is free.  *)
Orphan(a) == \A e \in Entries : a \notin {entry[e].live, entry[e].transport}

BoundRelease ==
  \A a \in Attempts :
    WF_vars(Orphan(a) /\ (SocketDies(a) \/ ForwardDies(a) \/ DropChannel(a)))

FairSpec == Spec /\ Fairness /\ BoundRelease

StateIs(states) == current # None /\ entry[current].state \in states

(* "A connection that drops is re-established without being asked"           *)
(* (recovery.test.ts): the loss of a ready machine's forward is noticed and  *)
(* answered with a new attempt, unless somebody ends the connection first or *)
(* a disconnect has left two attempts fighting over the entry (~calm).       *)
ForwardGone ==
  StateIs({"ready"}) /\ entry[current].transport \notin forwards \cup {None}

DropIsRetried ==
  Ssh => (ForwardGone
           ~> \/ StateIs({"connecting", "disconnected"})
              \/ disposed
              \/ ~calm)

(* "The attempts are bounded" (recover): a machine that keeps failing is not *)
(* attempted forever unless somebody asks or it does come back in between.   *)
NoEndlessRetry ==
  []<>StateIs({"connecting"}) => []<>StateIs({"ready"}) \/ []<><<Connect>>_vars

=============================================================================
