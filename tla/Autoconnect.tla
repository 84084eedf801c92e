---------------------------- MODULE Autoconnect ----------------------------
(***************************************************************************)
(* The background connection passes of src/src/models/autoconnect.ts       *)
(* composed with the connection manager they drive.                        *)
(*                                                                         *)
(* A pass is one machine's run of pass(record): a few attempts in a row,   *)
(* checking only that the passes have not been stopped.  The follow-up     *)
(* timer starts a pass on a machine that reads as failed.  Stopping the    *)
(* passes and disposing the manager are one synchronous step (the effect's *)
(* cleanup in index.ts), so the manager's disposed flag is `stopped` too.  *)
(***************************************************************************)
EXTENDS NodeConnections

CONSTANTS
  Passes,        \* bound: passes over the machine running at once
  PassAttempts   \* deps.attempts

ASSUME PassAttemptsAssumption == PassAttempts \in Nat \ {0}

VARIABLES
  pass,     \* the passes: phase, round, attempt awaited
  started   \* the startup pass has been considered

allVars == <<vars, pass, started>>

Pass == [phase : {"idle", "sleeping", "waiting"},
         round : 0 .. PassAttempts,
         on    : Attempts \cup {None}]

IdlePass == [phase |-> "idle", round |-> 0, on |-> None]

\* mutant: a failed attempt never resumes its pass
PassResumedOnSuccess(a, ready) ==
  [p \in Passes |-> IF ready /\ pass[p].on = a THEN IdlePass ELSE pass[p]]

\* A pass goes on when the attempt it awaits settles: connected it is done,
\* failed it sleeps before the next round, unless stopped or out of rounds.
PassResumed(a, ready) ==
  [p \in Passes |->
     IF pass[p].on # a
       THEN pass[p]
       ELSE IF ready \/ disposed \/ pass[p].round = PassAttempts
              THEN IdlePass
              ELSE [phase |-> "sleeping", round |-> pass[p].round + 1,
                    on |-> None]]

PassBegins(p, a) ==
  pass' = [pass EXCEPT ![p] = [phase |-> "waiting", round |-> 1, on |-> a]]

ManagerRest ==
  UNCHANGED <<forwards, sockets, held, recovery, install, disposed, calm>>

-----------------------------------------------------------------------------

PassInit ==
  /\ Init
  /\ pass = [p \in Passes |-> IdlePass]
  /\ started = FALSE

\* The startup pass over the records: the machine is one of them, or it is
\* added later and nothing attempts it by itself.
Startup ==
  /\ ~started
  /\ started' = TRUE
  /\ \/ /\ \E p \in Passes, e \in Entries, a \in Attempts :
             EntryFor(e) /\ Begin(e, a) /\ PassBegins(p, a)
        /\ ManagerRest
     \/ UNCHANGED <<vars, pass>>

\* Mutant: everything that is down is revisited.
FollowUpAll(p) ==
  /\ started
  /\ ~disposed
  /\ pass[p].phase = "idle"
  /\ StateIs({"failed", "disconnected"})
  /\ \E a \in Attempts : Begin(current, a) /\ PassBegins(p, a)
  /\ ManagerRest
  /\ UNCHANGED <<current, born, started>>

\* The follow-up timer: only a failed machine is revisited, and its pass makes
\* its first attempt in the same tick.
FollowUp(p) ==
  /\ started
  /\ ~disposed
  /\ pass[p].phase = "idle"
  /\ StateIs({"failed"})
  /\ \E a \in Attempts : Begin(current, a) /\ PassBegins(p, a)
  /\ ManagerRest
  /\ UNCHANGED <<current, born, started>>

\* After its delay a pass ends, joins the attempt pending, or makes one.
PassEnds(p) ==
  /\ pass[p].phase = "sleeping"
  /\ disposed \/ StateIs({"ready"})
  /\ pass' = [pass EXCEPT ![p] = IdlePass]
  /\ UNCHANGED <<vars, started>>

PassJoins(p) ==
  /\ pass[p].phase = "sleeping"
  /\ ~disposed
  /\ current # None
  /\ entry[current].state # "ready"
  /\ entry[current].pending # None
  /\ pass' = [pass EXCEPT ![p].phase = "waiting",
                          ![p].on = entry[current].pending]
  /\ UNCHANGED <<vars, started>>

PassConnects(p, a) ==
  /\ pass[p].phase = "sleeping"
  /\ ~disposed
  /\ \E e \in Entries : EntryFor(e) /\ Begin(e, a)
  /\ pass' = [pass EXCEPT ![p].phase = "waiting", ![p].on = a]
  /\ ManagerRest
  /\ UNCHANGED started

PassStep(p) ==
  \/ PassEnds(p)
  \/ PassJoins(p)
  \/ \E a \in Attempts : PassConnects(p, a)

\* The manager's own steps; the settling of an attempt resumes the passes.
Opens(a)    == TransportOpens(a) /\ UNCHANGED <<pass, started>>
Succeeds(a) == /\ \E i \in Installs : HandshakeSucceeds(a, i)
               /\ pass' = PassResumed(a, TRUE)
               /\ UNCHANGED started
Fails(a)    == /\ AttemptFails(a)
               /\ pass' = PassResumed(a, FALSE)
               /\ UNCHANGED started

\* Everything of the manager that neither begins nor settles a pass's attempt.
Elsewhere ==
  /\ started
  /\ \/ Connect
     \/ Disconnect
     \/ Dispose
     \/ TakeChannel
     \/ \E a \in Attempts : ForwardDies(a) \/ SocketDies(a) \/ DropChannel(a)
     \/ \E r \in Recoveries : \/ RecoveryStep(r)
                              \/ \E e \in Entries : ForwardLost(e, r)
                              \/ \E a \in Attempts : CallFails(a, r)
     \/ \E i \in Installs : \/ ProgramAsks(i)
                            \/ \E ok \in BOOLEAN : InstallSettles(i, ok)
  /\ UNCHANGED <<pass, started>>

PassNext ==
  \/ Startup
  \/ \E p \in Passes : FollowUp(p) \/ PassStep(p)
  \/ \E a \in Attempts : Opens(a) \/ Succeeds(a) \/ Fails(a)
  \/ Elsewhere

PassSpec == PassInit /\ [][PassNext]_allVars

-----------------------------------------------------------------------------

(* The passes have the shape the code gives them, and a pass that waits      *)
(* waits for an attempt that will still settle: a clear that forgets         *)
(* `pending` never strands one.                                              *)
PassTypeOK ==
  /\ pass \in [Passes -> Pass]
  /\ started \in BOOLEAN
  /\ \A p \in Passes :
       pass[p].phase = "waiting" =>
         pass[p].on # None /\ attempt[pass[p].on].phase # "idle"

(* "No further attempt starts" once the passes are stopped (autoconnect's    *)
(* returned function), whatever round each pass was in.                      *)
NoPassAfterStop ==
  [][disposed => \A p \in Passes : pass'[p].on \in {None, pass[p].on}]_allVars

(* A machine disconnected while no attempt is in flight stays down until a   *)
(* person connects it, as long as no pass is between two rounds: neither the *)
(* follow-up timer nor a recovery nor a stale loss brings it back ("`failed` *)
(* is the only state it revisits"). A pass between two rounds does bring it  *)
(* back (lines 72-77), and of that nothing is claimed.                       *)
IdlePassesStayDown ==
  [][/\ calm
     /\ \A p \in Passes : pass[p].phase = "idle"
     /\ current # None /\ current' = current
     /\ entry[current].state = "disconnected"
     => \/ entry'[current].state = "disconnected"
        \/ Connect /\ UNCHANGED pass]_allVars

(* The passes start nothing on their own behalf that they should not: after  *)
(* the stop no attempt, and while no pass is between two rounds no way back  *)
(* from a disconnect.                                                        *)
PassesKeepQuiet == NoPassAfterStop /\ IdlePassesStayDown

-----------------------------------------------------------------------------
(* Liveness *)

\* The manager's fairness, restated over the composition's steps.
PassFairness ==
  /\ WF_allVars(Startup)
  /\ \A p \in Passes : WF_allVars(PassStep(p))
  /\ WF_allVars(\E p \in Passes : FollowUp(p))
  /\ \A a \in Attempts : WF_allVars(Opens(a) \/ Succeeds(a) \/ Fails(a))
  /\ \A r \in Recoveries : WF_allVars(started /\ RecoveryStep(r)
                                        /\ UNCHANGED <<pass, started>>)
  /\ \A i \in Installs :
       WF_allVars(/\ started
                  /\ \E ok \in BOOLEAN : InstallSettles(i, ok)
                  /\ UNCHANGED <<pass, started>>)
  /\ \A a \in Attempts :
       WF_allVars(/\ Orphan(a) /\ started
                  /\ SocketDies(a) \/ ForwardDies(a) \/ DropChannel(a)
                  /\ UNCHANGED <<pass, started>>)

\* The link is good in the end: attempts repeated for ever do not all fail.
LinkComesGood ==
  /\ SF_allVars(\E a \in Attempts : Opens(a))
  /\ SF_allVars(\E a \in Attempts : Succeeds(a))

FairPassSpec == PassSpec /\ PassFairness /\ LinkComesGood

(* "Bring every configured machine up, and keep trying the ones that are     *)
(* down": a failed machine is up again in the end, unless a person           *)
(* disconnects it or the plugin goes away.                                   *)
FailedComesBack ==
  StateIs({"failed"}) ~> (StateIs({"ready", "disconnected"}) \/ disposed)

=============================================================================
