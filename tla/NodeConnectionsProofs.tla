----------------------- MODULE NodeConnectionsProofs -----------------------
(***************************************************************************)
(* Proofs about NodeConnections, for every set of entries, attempts,       *)
(* recoveries and installs and every bound on the rounds of a recovery,    *)
(* and about the background passes over it (Autoconnect).                  *)
(*                                                                         *)
(* The safety invariants are not inductive: they follow from IInv, which   *)
(* adds to the types how entries, attempts and recoveries refer to each    *)
(* other (Links, always) and that everything in flight belongs to the      *)
(* entry in the map (Calm, until a disconnect or dispose cuts an attempt). *)
(* The passes are shown to be a client of the manager and no more.         *)
(***************************************************************************)
EXTENDS Autoconnect, TLAPS

-----------------------------------------------------------------------------
(* The inductive invariant *)

\* An attempt in flight and a loop that runs will act on an entry object.
OwnersExist ==
  /\ \A a \in Attempts :
       attempt[a].phase # "idle" => attempt[a].owner \in Entries
  /\ \A r \in Recoveries :
       recovery[r].phase # "idle" \/ recovery[r].on # None =>
         recovery[r].owner \in Entries

\* What one entry's fields say about each other, in the map or forgotten.
EntryLinks ==
  \A e \in Entries :
    /\ entry[e].published = entry[e].live
    /\ entry[e].live # None => entry[e].state = "ready"
    /\ entry[e].pending # None =>
         /\ entry[e].state = "connecting"
         /\ attempt[entry[e].pending].phase # "idle"
         /\ attempt[entry[e].pending].owner = e
    /\ entry[e].state = "disconnected" => entry[e].recovery = None

\* The converses hold for the entry in the map and those not yet created.
MapLinks ==
  /\ current # None => current \in born
  /\ \A e \in Entries :
       e = current \/ e \notin born =>
         /\ entry[e].state = "ready" => entry[e].live # None
         /\ entry[e].state = "connecting" => entry[e].pending # None

\* While calm, the entry in the map holds all there is.
CalmLinks ==
  calm =>
    /\ \A a \in Attempts : attempt[a].phase # "idle" =>
         attempt[a].owner = current /\ entry[current].pending = a
    /\ \A e \in Entries : e # current =>
         /\ entry[e].live = None
         /\ entry[e].transport = None
         /\ entry[e].recovery = None
    /\ \A e \in Entries : entry[e].transport # None =>
         \/ attempt[entry[e].transport].phase = "handshaking"
         \/ entry[e].live = entry[e].transport
    /\ disposed => current = None

Links == OwnersExist /\ EntryLinks /\ MapLinks /\ CalmLinks /\ NothingLeaks

IInv == TypeOK /\ Links

-----------------------------------------------------------------------------
(* Type correctness *)

(* What the shared steps of the handlers leave has the declared type.        *)
LEMMA ClearedType ==
  ASSUME NEW x \in Entry
  PROVE  Cleared(x) \in Entry /\ Failed(x) \in Entry
BY DEF Cleared, Failed, Entry, NodeState

LEMMA ReadiedType ==
  ASSUME NEW x \in Entry, NEW a \in Attempts, NEW i \in Installs
  PROVE  Readied(x, a, i) \in Entry
BY DEF Readied, Entry, NodeState

(* Resuming the loops that awaited an attempt keeps their rounds in bound.   *)
LEMMA ResumedType ==
  ASSUME recovery \in [Recoveries -> Recovery], NEW a \in Attempts,
         NEW ready \in BOOLEAN
  PROVE  Resumed(a, ready) \in [Recoveries -> Recovery]
<1> SUFFICES ASSUME NEW r \in Recoveries
             PROVE  Resumed(a, ready)[r] \in Recovery
  BY DEF Resumed
<1>1. CASE recovery[r].on # a
  BY <1>1 DEF Resumed
<1>2. CASE recovery[r].on = a /\ (ready \/ recovery[r].round = RecoveryAttempts)
  BY <1>2, RecoveryAttemptsAssumption DEF Resumed, IdleRecovery, Recovery
<1>3. CASE recovery[r].on = a /\ ~ready /\ recovery[r].round # RecoveryAttempts
  <2>1. recovery[r] \in Recovery
    OBVIOUS
  <2>2. recovery[r].round + 1 \in 0 .. RecoveryAttempts
    BY <1>3, <2>1, RecoveryAttemptsAssumption DEF Recovery
  <2>3. [recovery[r] EXCEPT !.phase = "sleeping",
                            !.round = recovery[r].round + 1, !.on = None]
          \in Recovery
    BY <2>1, <2>2 DEF Recovery
  <2> QED BY <1>3, <2>3 DEF Resumed
<1> QED BY <1>1, <1>2, <1>3

(* fail followed by recover keeps the types of the four variables it writes. *)
LEMMA FailAndRecoverType ==
  ASSUME TypeOK, NEW e \in Entries, NEW r \in Recoveries, FailAndRecover(e, r)
  PROVE  /\ entry' \in [Entries -> Entry]
         /\ forwards' \subseteq Attempts
         /\ sockets' \subseteq Attempts
         /\ recovery' \in [Recoveries -> Recovery]
<1>1. Failed(entry[e]) \in Entry
  BY ClearedType DEF TypeOK
<1>2. [Failed(entry[e]) EXCEPT !.recovery = r] \in Entry
  BY <1>1 DEF Entry
<1>3. [phase |-> "sleeping", owner |-> e, round |-> 1, on |-> None] \in Recovery
  BY RecoveryAttemptsAssumption DEF Recovery
<1> QED BY <1>2, <1>3 DEF FailAndRecover, Close, TypeOK

(* A new attempt and the entry it is begun for keep their types.             *)
LEMMA BeginType ==
  ASSUME TypeOK, NEW e \in Entries, NEW a \in Attempts, EntryFor(e), Begin(e, a)
  PROVE  /\ entry' \in [Entries -> Entry]
         /\ attempt' \in [Attempts -> Attempt]
         /\ current' \in Entries \cup {None}
         /\ born' \subseteq Entries
<1> DEFINE begun == [entry[e] EXCEPT !.state = "connecting", !.pending = a]
<1>1. entry \in [Entries -> Entry] /\ entry[e] \in Entry
  BY DEF TypeOK
<1>2. begun \in Entry
  BY <1>1 DEF Entry, NodeState
<1>3. entry' = [entry EXCEPT ![e] = begun]
  BY <1>1, Zenon DEF Begin
<1> HIDE DEF begun
<1>4. entry' \in [Entries -> Entry]
  BY <1>1, <1>2, <1>3
<1>5. [phase |-> "opening", owner |-> e] \in Attempt
  BY DEF Attempt
<1>6. attempt' \in [Attempts -> Attempt]
  BY <1>5 DEF Begin, TypeOK
<1>7. current' \in Entries \cup {None} /\ born' \subseteq Entries
  BY DEF EntryFor, TypeOK
<1> QED BY <1>4, <1>6, <1>7

LEMMA InitType == Init => TypeOK
<1>1. IdleEntry \in Entry
  BY DEF IdleEntry, Entry, NodeState
<1>2. IdleAttempt \in Attempt
  BY DEF IdleAttempt, Attempt
<1>3. IdleRecovery \in Recovery
  BY RecoveryAttemptsAssumption DEF IdleRecovery, Recovery
<1>4. IdleInstall \in Install
  BY DEF IdleInstall, Install
<1> QED BY <1>1, <1>2, <1>3, <1>4 DEF Init, TypeOK

(* Every step of the manager keeps the declared shape of its state.          *)
LEMMA NextType == TypeOK /\ [Next]_vars => TypeOK'
<1> SUFFICES ASSUME TypeOK, [Next]_vars
             PROVE  TypeOK'
  OBVIOUS
<1>1. CASE Connect
  <2>1. PICK e \in Entries, a \in Attempts : EntryFor(e) /\ Begin(e, a)
    BY <1>1 DEF Connect
  <2> QED BY <1>1, <2>1, BeginType DEF Connect, TypeOK
<1>2. CASE Disconnect
  <2>1. Cleared(entry[current]) \in Entry
    BY <1>2, ClearedType DEF Disconnect, TypeOK
  <2>2. [Cleared(entry[current]) EXCEPT !.recovery = None,
                                        !.state = "disconnected"] \in Entry
    BY <2>1 DEF Entry, NodeState
  <2> QED BY <1>2, <2>2 DEF Disconnect, Close, TypeOK
<1>3. CASE Dispose
  <2>1. CASE current = None
    BY <1>3, <2>1 DEF Dispose, TypeOK
  <2>2. CASE current # None
    <3>1. Cleared(entry[current]) \in Entry
      BY <2>2, ClearedType DEF TypeOK
    <3>2. [Cleared(entry[current]) EXCEPT !.recovery = None] \in Entry
      BY <3>1 DEF Entry
    <3> QED BY <1>3, <2>2, <3>2 DEF Dispose, Close, TypeOK
  <2> QED BY <2>1, <2>2
<1>4. CASE TakeChannel
  BY <1>4 DEF TakeChannel, TypeOK, Entry
<1>5. ASSUME NEW a \in Attempts, TransportOpens(a)
      PROVE  TypeOK'
  <2>1. [attempt[a] EXCEPT !.phase = "handshaking"] \in Attempt
    BY DEF TypeOK, Attempt
  <2>2. ASSUME NEW e \in Entries
        PROVE  [entry[e] EXCEPT !.transport = a] \in Entry
    BY DEF TypeOK, Entry
  <2>3. attempt' \in [Attempts -> Attempt]
    BY <1>5, <2>1 DEF TransportOpens, TypeOK
  <2>4. entry' \in [Entries -> Entry]
    BY <1>5, <2>2 DEF TransportOpens, TypeOK
  <2> QED BY <1>5, <2>3, <2>4 DEF TransportOpens, TypeOK
<1>6. ASSUME NEW a \in Attempts, NEW i \in Installs, HandshakeSucceeds(a, i)
      PROVE  TypeOK'
  <2> DEFINE e == attempt[a].owner
  <2>1. e \in Entries \cup {None}
    BY DEF TypeOK, Attempt
  <2>2. entry' = [entry EXCEPT ![e] = Readied(entry[e], a, i)]
    BY <1>6 DEF HandshakeSucceeds
  <2>3. entry' \in [Entries -> Entry]
    BY <2>2, ReadiedType DEF TypeOK
  <2>4. attempt' \in [Attempts -> Attempt]
    BY <1>6 DEF HandshakeSucceeds, TypeOK, IdleAttempt, Attempt
  <2>5. install' \in [Installs -> Install]
    <3>1. [running |-> TRUE, owner |-> e, conn |-> a] \in Install
      BY <2>1 DEF Install
    <3> QED BY <1>6, <3>1 DEF HandshakeSucceeds, WarmUp, TypeOK
  <2>6. recovery' \in [Recoveries -> Recovery]
    BY <1>6, ResumedType DEF HandshakeSucceeds, TypeOK
  <2> QED BY <1>6, <2>3, <2>4, <2>5, <2>6 DEF HandshakeSucceeds, TypeOK
<1>7. ASSUME NEW a \in Attempts, AttemptFails(a)
      PROVE  TypeOK'
  <2>1. entry' \in [Entries -> Entry]
    BY <1>7, ClearedType DEF AttemptFails, TypeOK
  <2>2. attempt' \in [Attempts -> Attempt]
    BY <1>7 DEF AttemptFails, TypeOK, IdleAttempt, Attempt
  <2>3. recovery' \in [Recoveries -> Recovery]
    BY <1>7, ResumedType DEF AttemptFails, TypeOK
  <2> QED BY <1>7, <2>1, <2>2, <2>3 DEF AttemptFails, Close, TypeOK
<1>8. ASSUME NEW a \in Attempts, ForwardDies(a) \/ SocketDies(a) \/ DropChannel(a)
      PROVE  TypeOK'
  BY <1>8 DEF ForwardDies, SocketDies, DropChannel, TypeOK
<1>9. ASSUME NEW e \in Entries, NEW r \in Recoveries, ForwardLost(e, r)
      PROVE  TypeOK'
  BY <1>9, FailAndRecoverType DEF ForwardLost, TypeOK
<1>10. ASSUME NEW a \in Attempts, NEW r \in Recoveries, CallFails(a, r)
       PROVE  TypeOK'
  <2>1. held' \subseteq Attempts
    BY <1>10 DEF CallFails, TypeOK
  <2>2. /\ entry' \in [Entries -> Entry]
        /\ forwards' \subseteq Attempts
        /\ sockets' \subseteq Attempts
        /\ recovery' \in [Recoveries -> Recovery]
    BY <1>10, FailAndRecoverType DEF CallFails, TypeOK
  <2> QED BY <1>10, <2>1, <2>2 DEF CallFails, TypeOK
<1>11. ASSUME NEW r \in Recoveries, RecoveryEnds(r)
       PROVE  TypeOK'
  BY <1>11, RecoveryAttemptsAssumption
     DEF RecoveryEnds, TypeOK, IdleRecovery, Recovery
<1>12. ASSUME NEW r \in Recoveries, RecoveryJoins(r)
       PROVE  TypeOK'
  <2>1. [recovery[r] EXCEPT !.phase = "waiting", !.on = entry[current].pending]
          \in Recovery
    <3>1. recovery[r] \in Recovery /\ entry[current].pending \in Attempts \cup {None}
      BY <1>12, SMTT(30) DEF RecoveryJoins, TypeOK, Entry
    <3> QED BY <3>1 DEF Recovery
  <2> QED BY <1>12, <2>1, SMTT(30) DEF RecoveryJoins, TypeOK
<1>13. ASSUME NEW r \in Recoveries, NEW a \in Attempts, RecoveryConnects(r, a)
       PROVE  TypeOK'
  <2>1. PICK e \in Entries : EntryFor(e) /\ Begin(e, a)
    BY <1>13 DEF RecoveryConnects
  <2>2. [recovery[r] EXCEPT !.phase = "waiting", !.on = a] \in Recovery
    BY DEF TypeOK, Recovery
  <2> QED BY <1>13, <2>1, <2>2, BeginType DEF RecoveryConnects, TypeOK
<1>14. ASSUME NEW i \in Installs, ProgramAsks(i)
       PROVE  TypeOK'
  <2>1. current \in Entries
    BY <1>14 DEF ProgramAsks, TypeOK
  <2>2. entry[current] \in Entry
    BY <2>1 DEF TypeOK
  <2>3. [entry[current] EXCEPT !.ptcHost = i, !.worker = "installing"] \in Entry
    BY <2>2 DEF Entry
  <2>4. entry' = [entry EXCEPT ![current] =
           [entry[current] EXCEPT !.ptcHost = i, !.worker = "installing"]]
    BY <1>14 DEF ProgramAsks, TypeOK
  <2>5. entry' \in [Entries -> Entry]
    BY <2>3, <2>4 DEF TypeOK
  <2>6. [running |-> TRUE, owner |-> current, conn |-> entry[current].live]
          \in Install
    BY <2>1, <2>2 DEF Entry, Install
  <2>7. install' \in [Installs -> Install]
    BY <1>14, <2>6 DEF ProgramAsks, WarmUp, TypeOK
  <2> QED BY <1>14, <2>5, <2>7 DEF ProgramAsks, TypeOK
<1>15. ASSUME NEW i \in Installs, NEW ok \in BOOLEAN, InstallSettles(i, ok)
       PROVE  TypeOK'
  <2> DEFINE e == install[i].owner
  <2>1. ASSUME NEW x \in Entry
        PROVE  /\ [x EXCEPT !.worker = "none"] \in Entry
               /\ [x EXCEPT !.ptcHost = None, !.worker = "failed"] \in Entry
    BY DEF Entry
  <2>2. \/ entry' = entry
        \/ entry' = [entry EXCEPT ![e] = [entry[e] EXCEPT !.worker = "none"]]
        \/ entry' = [entry EXCEPT ![e] =
                       [entry[e] EXCEPT !.ptcHost = None, !.worker = "failed"]]
    BY <1>15 DEF InstallSettles, TypeOK
  <2>3. entry' \in [Entries -> Entry]
    <3>1. CASE entry' = entry
      BY <3>1 DEF TypeOK
    <3>2. CASE entry' = [entry EXCEPT ![e] = [entry[e] EXCEPT !.worker = "none"]]
      BY <3>2, <2>1 DEF TypeOK
    <3>3. CASE entry' = [entry EXCEPT ![e] =
                           [entry[e] EXCEPT !.ptcHost = None, !.worker = "failed"]]
      BY <3>3, <2>1 DEF TypeOK
    <3> QED BY <2>2, <3>1, <3>2, <3>3
  <2>4. [install[i] EXCEPT !.running = FALSE] \in Install
    BY DEF TypeOK, Install
  <2> QED BY <1>15, <2>3, <2>4 DEF InstallSettles, TypeOK
<1>16. CASE UNCHANGED vars
  BY <1>16 DEF vars, TypeOK
<1> QED
  BY <1>1, <1>2, <1>3, <1>4, <1>5, <1>6, <1>7, <1>8, <1>9, <1>10, <1>11,
     <1>12, <1>13, <1>14, <1>15, <1>16 DEF Next, AttemptStep, RecoveryStep

(* TypeOK is an invariant for every value of the constants.                  *)
THEOREM TypeCorrect == Spec => []TypeOK
<1> QED BY InitType, NextType, PTL DEF Spec

-----------------------------------------------------------------------------
(* What a step does to the links, field by field *)

\* An entry that holds nothing of a connection.
Empty(x) == x.live = None /\ x.published = None /\ x.pending = None
              /\ x.transport = None

\* The fields the links speak of.
SameLinks(x, y) == x.live = y.live /\ x.published = y.published
                     /\ x.pending = y.pending /\ x.transport = y.transport
                     /\ x.recovery = y.recovery /\ x.state = y.state

LEMMA ClearedFields ==
  ASSUME NEW x \in Entry
  PROVE  /\ Empty(Cleared(x)) /\ Empty(Failed(x))
         /\ Cleared(x).state = x.state
         /\ Failed(x).state = "failed"
         /\ Failed(x).recovery = x.recovery
BY DEF Cleared, Failed, Entry, Empty

LEMMA ReadiedFields ==
  ASSUME NEW x \in Entry, NEW a \in Attempts, NEW i \in Installs
  PROVE  LET y == Readied(x, a, i)
         IN  /\ y.live = a /\ y.published = a /\ y.pending = None
             /\ y.state = "ready"
             /\ y.transport = x.transport /\ y.recovery = x.recovery
BY DEF Readied, Entry

(* fail and recover: entry e is emptied, failed and claimed by loop r.       *)
LEMMA FailAndRecoverFields ==
  ASSUME TypeOK, NEW e \in Entries, NEW r \in Recoveries, FailAndRecover(e, r)
  PROVE  /\ Empty(entry'[e]) /\ entry'[e].state = "failed"
         /\ entry'[e].recovery = r
         /\ \A x \in Entries : x # e => entry'[x] = entry[x]
         /\ recovery'[r].owner = e
         /\ \A x \in Recoveries : x # r => recovery'[x] = recovery[x]
<1>1. entry[e] \in Entry /\ Failed(entry[e]) \in Entry
  BY ClearedType DEF TypeOK
<1>2. entry'[e] = [Failed(entry[e]) EXCEPT !.recovery = r]
  BY DEF FailAndRecover, TypeOK
<1>3. Empty(Failed(entry[e])) /\ Failed(entry[e]).state = "failed"
  BY <1>1, ClearedFields
<1>4. Empty(entry'[e]) /\ entry'[e].state = "failed" /\ entry'[e].recovery = r
  BY <1>1, <1>2, <1>3 DEF Empty, Entry
<1>5. \A x \in Entries : x # e => entry'[x] = entry[x]
  BY DEF FailAndRecover, TypeOK
<1>6. recovery'[r].owner = e /\ \A x \in Recoveries : x # r => recovery'[x] = recovery[x]
  BY DEF FailAndRecover, TypeOK
<1> QED BY <1>4, <1>5, <1>6

(* A new attempt is pending at entry e, which is in the map then.            *)
LEMMA BeginFields ==
  ASSUME TypeOK, NEW e \in Entries, NEW a \in Attempts, EntryFor(e), Begin(e, a)
  PROVE  /\ entry'[e].state = "connecting" /\ entry'[e].pending = a
         /\ entry'[e].live = entry[e].live
         /\ entry'[e].published = entry[e].published
         /\ entry'[e].transport = entry[e].transport
         /\ entry'[e].recovery = entry[e].recovery
         /\ \A x \in Entries : x # e => entry'[x] = entry[x]
         /\ attempt'[a].phase # "idle" /\ attempt'[a].owner = e
         /\ \A b \in Attempts : b # a => attempt'[b] = attempt[b]
         /\ current' = e
<1>1. entry[e] \in Entry
  BY DEF TypeOK
<1>2. entry'[e] = [entry[e] EXCEPT !.state = "connecting", !.pending = a]
  BY DEF Begin, TypeOK
<1>3. \A x \in Entries : x # e => entry'[x] = entry[x]
  BY DEF Begin, TypeOK
<1>4. attempt'[a].phase # "idle" /\ attempt'[a].owner = e
  BY DEF Begin, TypeOK
<1>5. \A b \in Attempts : b # a => attempt'[b] = attempt[b]
  BY DEF Begin, TypeOK
<1>6. current' = e
  BY DEF EntryFor
<1>7. /\ entry'[e].state = "connecting" /\ entry'[e].pending = a
      /\ entry'[e].live = entry[e].live
      /\ entry'[e].published = entry[e].published
      /\ entry'[e].transport = entry[e].transport
      /\ entry'[e].recovery = entry[e].recovery
  BY <1>1, <1>2 DEF Entry
<1> QED BY <1>3, <1>4, <1>5, <1>6, <1>7

(* The loops that awaited a settled attempt keep their owners.               *)
LEMMA ResumedOwners ==
  ASSUME TypeOK, OwnersExist, NEW a \in Attempts, NEW ready \in BOOLEAN,
         recovery' = Resumed(a, ready)
  PROVE  \A r \in Recoveries :
           recovery'[r].phase # "idle" \/ recovery'[r].on # None =>
             recovery'[r].owner \in Entries
<1> SUFFICES ASSUME NEW r \in Recoveries,
                    recovery'[r].phase # "idle" \/ recovery'[r].on # None
             PROVE  recovery'[r].owner \in Entries
  OBVIOUS
<1>1. CASE recovery[r].on # a
  BY <1>1 DEF Resumed, OwnersExist
<1>2. CASE recovery[r].on = a
  <2>1. recovery[r].owner \in Entries
    BY <1>2, NoneAssumption DEF OwnersExist
  <2>2. recovery[r] \in Recovery
    BY DEF TypeOK
  <2>3. CASE ready \/ recovery[r].round = RecoveryAttempts
    BY <1>2, <2>3 DEF Resumed, IdleRecovery
  <2>4. CASE ~ready /\ recovery[r].round # RecoveryAttempts
    BY <1>2, <2>1, <2>2, <2>4 DEF Resumed, Recovery
  <2> QED BY <2>3, <2>4
<1> QED BY <1>1, <1>2

(* While calm, only the entry in the map awaits an attempt, and only one.    *)
LEMMA InFlightIsCurrent ==
  ASSUME IInv, calm, NEW a \in Attempts, attempt[a].phase # "idle"
  PROVE  /\ current \in Entries
         /\ attempt[a].owner = current
         /\ entry[current].pending = a
         /\ entry[current].state = "connecting"
         /\ entry[current].live = None
         /\ \A b \in Attempts : attempt[b].phase # "idle" => b = a
<1>1. current \in Entries /\ attempt[a].owner = current /\ entry[current].pending = a
  BY DEF IInv, Links, OwnersExist, CalmLinks
<1>2. \A b \in Attempts : attempt[b].phase # "idle" => b = a
  BY <1>1 DEF IInv, Links, CalmLinks
<1>3. entry[current].state = "connecting"
  BY <1>1, NoneAssumption DEF IInv, Links, EntryLinks
<1>4. entry[current].live = None
  BY <1>1, <1>3 DEF IInv, Links, EntryLinks
<1> QED BY <1>1, <1>2, <1>3, <1>4

-----------------------------------------------------------------------------
(* Every action preserves the links *)

(* connectRecord, asked for or begun by a recovery loop that may act.        *)
LEMMA BeginKeepsLinks ==
  ASSUME IInv, NEW e \in Entries, NEW a \in Attempts, EntryFor(e), Begin(e, a),
         calm => ~disposed,
         UNCHANGED <<forwards, sockets, disposed, calm>>
  PROVE  EntryLinks' /\ MapLinks' /\ CalmLinks' /\ NothingLeaks'
<1> USE NoneAssumption
<1>1. /\ entry'[e].state = "connecting" /\ entry'[e].pending = a
      /\ entry'[e].live = entry[e].live
      /\ entry'[e].published = entry[e].published
      /\ entry'[e].transport = entry[e].transport
      /\ entry'[e].recovery = entry[e].recovery
      /\ \A x \in Entries : x # e => entry'[x] = entry[x]
      /\ attempt'[a].phase # "idle" /\ attempt'[a].owner = e
      /\ \A b \in Attempts : b # a => attempt'[b] = attempt[b]
      /\ current' = e
  BY BeginFields DEF IInv
<1>2. entry[e].state # "ready" /\ entry[e].pending = None /\ entry[e].live = None
  BY DEF Begin, IInv, Links, EntryLinks
<1>3. \A x \in Entries : entry[x].pending # a
  BY DEF Begin, FreeAttempt
<1>4. \A x \in Entries : entry[x].pending \in Attempts \cup {None}
                           /\ entry[x].transport \in Attempts \cup {None}
  BY DEF IInv, TypeOK, Entry
<1>5. EntryLinks'
  BY <1>1, <1>2, <1>3, <1>4 DEF EntryLinks, IInv, Links
<1>6. MapLinks'
  BY <1>1, <1>2 DEF EntryFor, MapLinks, IInv, Links, TypeOK
<1>7. calm => \A b \in Attempts : attempt[b].phase = "idle"
  BY <1>2, InFlightIsCurrent DEF EntryFor
<1>8. calm => \A x \in Entries : entry[x].transport = None
  BY <1>2, <1>4, <1>7 DEF EntryFor, CalmLinks, IInv, Links
<1>9. CalmLinks'
  BY <1>1, <1>2, <1>7, <1>8 DEF EntryFor, CalmLinks, IInv, Links
<1>10. NothingLeaks'
  BY <1>1 DEF NothingLeaks, IInv, Links
<1> QED BY <1>5, <1>6, <1>9, <1>10

LEMMA ConnectKeepsLinks == ASSUME IInv, Connect PROVE Links'
<1>1. PICK e \in Entries, a \in Attempts : EntryFor(e) /\ Begin(e, a)
  BY DEF Connect
<1>2. OwnersExist'
  BY <1>1, BeginFields DEF Connect, OwnersExist, IInv, Links
<1> QED BY <1>1, <1>2, BeginKeepsLinks DEF Connect, Links

LEMMA RecoveryConnectsKeepsLinks ==
  ASSUME IInv, NEW r \in Recoveries, NEW a \in Attempts, RecoveryConnects(r, a)
  PROVE  Links'
<1>1. PICK e \in Entries : EntryFor(e) /\ Begin(e, a)
  BY DEF RecoveryConnects
<1>2. calm => current # None
  BY NoneAssumption
     DEF RecoveryConnects, Superseded, IInv, Links, OwnersExist, CalmLinks
<1>3. calm => ~disposed
  BY <1>2 DEF IInv, Links, CalmLinks
<1>4. OwnersExist'
  BY <1>1, BeginFields DEF RecoveryConnects, OwnersExist, IInv, Links, TypeOK
<1> QED BY <1>1, <1>3, <1>4, BeginKeepsLinks DEF RecoveryConnects, Links

(* The transport opened is remembered, and nothing was remembered before it. *)
LEMMA TransportOpensKeepsLinks ==
  ASSUME IInv, NEW a \in Attempts, TransportOpens(a)
  PROVE  Links'
<1> USE NoneAssumption
<1> DEFINE e == attempt[a].owner
<1>1. e \in Entries /\ entry[e] \in Entry /\ attempt[a] \in Attempt
  BY DEF TransportOpens, IInv, Links, OwnersExist, TypeOK
<1>2. entry'[e] = [entry[e] EXCEPT !.transport = a]
  BY <1>1 DEF TransportOpens, IInv, TypeOK
<1>3. /\ entry'[e].transport = a
      /\ entry'[e].live = entry[e].live
      /\ entry'[e].published = entry[e].published
      /\ entry'[e].pending = entry[e].pending
      /\ entry'[e].state = entry[e].state
      /\ entry'[e].recovery = entry[e].recovery
  BY <1>1, <1>2 DEF Entry
<1>4. \A x \in Entries : x # e => entry'[x] = entry[x]
  BY DEF TransportOpens, IInv, TypeOK
<1>5. attempt'[a].phase = "handshaking" /\ attempt'[a].owner = e
  BY <1>1 DEF TransportOpens, IInv, TypeOK, Attempt
<1>6. \A b \in Attempts : b # a => attempt'[b] = attempt[b]
  BY DEF TransportOpens, IInv, TypeOK
<1>7. \A x \in Entries : entry[x].pending \in Attempts \cup {None}
                           /\ entry[x].transport \in Attempts \cup {None}
  BY DEF IInv, TypeOK, Entry
<1>8. attempt[a].phase # "idle" /\ attempt[a].phase # "handshaking"
  BY DEF TransportOpens
<1>9. calm => /\ e = current /\ entry[e].pending = a /\ entry[e].live = None
              /\ \A b \in Attempts : b # a => attempt[b].phase = "idle"
  BY <1>8, InFlightIsCurrent
<1>10. calm => \A x \in Entries : entry[x].transport = None
  <2> SUFFICES ASSUME calm, NEW x \in Entries
               PROVE  entry[x].transport = None
    OBVIOUS
  <2>1. CASE x # e
    BY <2>1, <1>9 DEF IInv, Links, CalmLinks
  <2>2. CASE x = e /\ entry[e].transport # None
    <3>1. \/ attempt[entry[e].transport].phase = "handshaking"
          \/ entry[e].live = entry[e].transport
      BY <1>1, <2>2 DEF IInv, Links, CalmLinks
    <3> QED BY <1>7, <1>8, <1>9, <2>2, <3>1
  <2> QED BY <2>1, <2>2
<1>11. OwnersExist'
  BY <1>1, <1>5, <1>6 DEF TransportOpens, OwnersExist, IInv, Links
<1>12. EntryLinks'
  BY <1>3, <1>4, <1>5, <1>6, <1>7 DEF EntryLinks, IInv, Links
<1>13. MapLinks'
  BY <1>3, <1>4 DEF TransportOpens, MapLinks, IInv, Links
<1>14. CalmLinks'
  BY <1>3, <1>4, <1>5, <1>6, <1>9, <1>10 DEF TransportOpens, CalmLinks, IInv, Links
<1>15. NothingLeaks'
  <2>1. calm => forwards = {}
    BY <1>10 DEF NothingLeaks, IInv, Links, TypeOK
  <2>2. calm' = calm /\ sockets' = sockets /\ forwards' \subseteq forwards \cup {a}
    BY DEF TransportOpens
  <2> QED BY <1>1, <1>3, <1>4, <2>1, <2>2 DEF NothingLeaks, IInv, Links
<1> QED BY <1>11, <1>12, <1>13, <1>14, <1>15 DEF Links

LEMMA HandshakeSucceedsKeepsLinks ==
  ASSUME IInv, NEW a \in Attempts, NEW i \in Installs, HandshakeSucceeds(a, i)
  PROVE  Links'
<1> USE NoneAssumption
<1> DEFINE e == attempt[a].owner
<1>1. e \in Entries /\ entry[e] \in Entry
  BY DEF HandshakeSucceeds, IInv, Links, OwnersExist, TypeOK
<1>2. entry'[e] = Readied(entry[e], a, i)
  BY <1>1 DEF HandshakeSucceeds, IInv, TypeOK
<1>3. /\ entry'[e].live = a /\ entry'[e].published = a /\ entry'[e].pending = None
      /\ entry'[e].state = "ready"
      /\ entry'[e].transport = entry[e].transport
      /\ entry'[e].recovery = entry[e].recovery
  BY <1>1, <1>2, ReadiedFields
<1>4. \A x \in Entries : x # e => entry'[x] = entry[x]
  BY DEF HandshakeSucceeds, IInv, TypeOK
<1>5. attempt'[a].phase = "idle"
  BY DEF HandshakeSucceeds, IInv, TypeOK, IdleAttempt
<1>6. \A b \in Attempts : b # a => attempt'[b] = attempt[b]
  BY DEF HandshakeSucceeds, IInv, TypeOK
<1>7. \A x \in Entries : entry[x].pending \in Attempts \cup {None}
                           /\ entry[x].transport \in Attempts \cup {None}
  BY DEF IInv, TypeOK, Entry
<1>8. attempt[a].phase # "idle"
  BY DEF HandshakeSucceeds
<1>9. calm => /\ e = current /\ entry[e].pending = a /\ entry[e].live = None
              /\ \A b \in Attempts : b # a => attempt[b].phase = "idle"
  BY <1>8, InFlightIsCurrent
<1>10. calm => entry[e].transport \in {None, a}
  BY <1>1, <1>7, <1>9 DEF IInv, Links, CalmLinks
<1>11. calm => sockets = {}
  BY <1>9 DEF IInv, TypeOK, Links, CalmLinks, NothingLeaks
<1>12. OwnersExist'
  BY <1>5, <1>6, ResumedOwners DEF HandshakeSucceeds, OwnersExist, IInv, Links
<1>13. EntryLinks'
  BY <1>3, <1>4, <1>6, <1>7 DEF EntryLinks, IInv, Links
<1>14. MapLinks'
  BY <1>3, <1>4 DEF HandshakeSucceeds, MapLinks, IInv, Links
<1>15. CalmLinks'
  <2>1. UNCHANGED <<calm, current, disposed>>
    BY DEF HandshakeSucceeds
  <2>2. calm => \A b \in Attempts : attempt'[b].phase = "idle"
    BY <1>5, <1>6, <1>9
  <2>3. calm => \A x \in Entries : x # current =>
          entry'[x].live = None /\ entry'[x].transport = None /\ entry'[x].recovery = None
    BY <1>4, <1>9 DEF CalmLinks, IInv, Links
  <2>4. calm => \A x \in Entries : entry'[x].transport # None =>
                  entry'[x].live = entry'[x].transport
    BY <1>3, <1>9, <1>10, <2>3
  <2>5. calm => (disposed => current = None)
    BY DEF CalmLinks, IInv, Links
  <2> QED BY <2>1, <2>2, <2>3, <2>4, <2>5 DEF CalmLinks
<1>16. NothingLeaks'
  <2>1. \A x \in Entries : entry'[x].transport = entry[x].transport
    BY <1>3, <1>4
  <2>2. calm' => \A b \in forwards' : \E x \in Entries : entry'[x].transport = b
    BY <2>1 DEF HandshakeSucceeds, NothingLeaks, IInv, Links
  <2>3. calm' => \A b \in sockets' : \E x \in Entries : entry'[x].live = b
    BY <1>1, <1>3, <1>11 DEF HandshakeSucceeds
  <2> QED BY <2>2, <2>3 DEF NothingLeaks
<1> QED BY <1>12, <1>13, <1>14, <1>15, <1>16 DEF Links

(* fail() closes what the entry forgets.                                     *)
LEMMA AttemptFailsKeepsLinks ==
  ASSUME IInv, NEW a \in Attempts, AttemptFails(a)
  PROVE  Links'
<1> USE NoneAssumption
<1> DEFINE e == attempt[a].owner
<1>1. e \in Entries /\ entry[e] \in Entry
  BY DEF AttemptFails, IInv, Links, OwnersExist, TypeOK
<1>2. entry'[e] = Failed(entry[e])
  BY <1>1 DEF AttemptFails, IInv, TypeOK
<1>3. /\ entry'[e].live = None /\ entry'[e].published = None
      /\ entry'[e].pending = None /\ entry'[e].transport = None
      /\ entry'[e].state = "failed"
  BY <1>1, <1>2, ClearedFields DEF Empty
<1>4. \A x \in Entries : x # e => entry'[x] = entry[x]
  BY DEF AttemptFails, IInv, TypeOK
<1>5. attempt'[a].phase = "idle"
  BY DEF AttemptFails, IInv, TypeOK, IdleAttempt
<1>6. \A b \in Attempts : b # a => attempt'[b] = attempt[b]
  BY DEF AttemptFails, IInv, TypeOK
<1>7. \A x \in Entries : entry[x].pending \in Attempts \cup {None}
  BY DEF IInv, TypeOK, Entry
<1>8. calm => /\ e = current
              /\ \A b \in Attempts : b # a => attempt[b].phase = "idle"
  BY InFlightIsCurrent DEF AttemptFails
<1>9. OwnersExist'
  BY <1>5, <1>6, ResumedOwners DEF AttemptFails, OwnersExist, IInv, Links
<1>10. EntryLinks'
  BY <1>3, <1>4, <1>6, <1>7 DEF EntryLinks, IInv, Links
<1>11. MapLinks'
  BY <1>3, <1>4 DEF AttemptFails, MapLinks, IInv, Links
<1>12. CalmLinks'
  BY <1>3, <1>4, <1>5, <1>6, <1>8 DEF AttemptFails, CalmLinks, IInv, Links
<1>13. NothingLeaks'
  BY <1>3, <1>4 DEF AttemptFails, Close, NothingLeaks, IInv, Links
<1> QED BY <1>9, <1>10, <1>11, <1>12, <1>13 DEF Links

(* A drop empties the entry in the map, which awaits no attempt.             *)
LEMMA FailAndRecoverKeepsLinks ==
  ASSUME IInv, NEW e \in Entries, NEW r \in Recoveries, FailAndRecover(e, r),
         calm => e = current /\ \A a \in Attempts : attempt[a].phase = "idle",
         UNCHANGED <<current, born, attempt, disposed, calm>>
  PROVE  Links'
<1>1. /\ Empty(entry'[e]) /\ entry'[e].state = "failed"
      /\ \A x \in Entries : x # e => entry'[x] = entry[x]
      /\ recovery'[r].owner = e
      /\ \A x \in Recoveries : x # r => recovery'[x] = recovery[x]
  BY FailAndRecoverFields DEF IInv
<1>2. OwnersExist'
  BY <1>1 DEF OwnersExist, IInv, Links
<1>3. EntryLinks'
  BY <1>1 DEF Empty, EntryLinks, IInv, Links
<1>4. MapLinks'
  BY <1>1 DEF MapLinks, IInv, Links
<1>5. CalmLinks'
  BY <1>1 DEF Empty, CalmLinks, IInv, Links
<1>6. NothingLeaks'
  BY <1>1 DEF FailAndRecover, Close, Empty, NothingLeaks, IInv, Links
<1> QED BY <1>2, <1>3, <1>4, <1>5, <1>6 DEF Links

LEMMA ForwardLostKeepsLinks ==
  ASSUME IInv, NEW e \in Entries, NEW r \in Recoveries, ForwardLost(e, r)
  PROVE  Links'
<1>1. entry[e].transport \in Attempts /\ attempt[entry[e].transport].phase = "idle"
  BY DEF ForwardLost, IInv, TypeOK, Entry
<1>2. calm => e = current /\ entry[e].live # None
  BY <1>1, NoneAssumption DEF IInv, Links, CalmLinks
<1>3. calm => \A a \in Attempts : attempt[a].phase = "idle"
  BY <1>2, InFlightIsCurrent
<1> QED BY <1>2, <1>3, FailAndRecoverKeepsLinks DEF ForwardLost

LEMMA CallFailsKeepsLinks ==
  ASSUME IInv, NEW a \in Attempts, NEW r \in Recoveries, CallFails(a, r)
  PROVE  Links'
<1>1. CASE \E e \in Entries : entry[e].live = a
  <2>1. PICK e \in Entries : entry[e].live = a /\ FailAndRecover(e, r)
    BY <1>1 DEF CallFails
  <2>2. calm => e = current
    BY <2>1, NoneAssumption DEF IInv, Links, CalmLinks
  <2>3. calm => \A b \in Attempts : attempt[b].phase = "idle"
    BY <2>1, <2>2, InFlightIsCurrent, NoneAssumption
  <2> QED BY <2>1, <2>2, <2>3, FailAndRecoverKeepsLinks DEF CallFails
<1>2. CASE ~\E e \in Entries : entry[e].live = a
  BY <1>2 DEF CallFails, IInv, Links, OwnersExist, EntryLinks, MapLinks,
              CalmLinks, NothingLeaks
<1> QED BY <1>1, <1>2

(* The steps that move no link: the environment's, the callers', the         *)
(* installs' and a recovery loop's that begins no attempt.                   *)
LEMMA SameLinksKeepLinks ==
  ASSUME IInv, \A e \in Entries : SameLinks(entry'[e], entry[e]), OwnersExist',
         forwards' \subseteq forwards, sockets' \subseteq sockets,
         UNCHANGED <<current, born, attempt, disposed, calm>>
  PROVE  Links'
<1>1. EntryLinks'
  BY DEF SameLinks, EntryLinks, IInv, Links
<1>2. MapLinks'
  BY DEF SameLinks, MapLinks, IInv, Links
<1>3. CalmLinks'
  <2>1. CASE current \in Entries
    BY <2>1 DEF SameLinks, CalmLinks, IInv, Links
  <2>2. CASE current \notin Entries
    <3>1. calm => \A a \in Attempts : attempt[a].phase = "idle"
      BY <2>2, InFlightIsCurrent
    <3> QED BY <2>2, <3>1 DEF SameLinks, CalmLinks, IInv, Links
  <2> QED BY <2>1, <2>2
<1>4. NothingLeaks'
  BY DEF SameLinks, NothingLeaks, IInv, Links
<1> QED BY <1>1, <1>2, <1>3, <1>4 DEF Links

LEMMA EnvironmentKeepsLinks ==
  ASSUME IInv,
         NEW a \in Attempts,
         ForwardDies(a) \/ SocketDies(a) \/ DropChannel(a) \/ TakeChannel
  PROVE  Links'
BY SameLinksKeepLinks DEF ForwardDies, SocketDies, DropChannel, TakeChannel,
                          SameLinks, OwnersExist, IInv, Links

LEMMA RecoveryKeepsLinks ==
  ASSUME IInv, NEW r \in Recoveries, RecoveryEnds(r) \/ RecoveryJoins(r)
  PROVE  Links'
<1>1. CASE RecoveryEnds(r)
  <2>1. OwnersExist'
    BY <1>1 DEF RecoveryEnds, IdleRecovery, OwnersExist, IInv, Links, TypeOK
  <2> QED BY <1>1, <2>1, SameLinksKeepLinks DEF RecoveryEnds, SameLinks
<1>2. CASE RecoveryJoins(r)
  <2>1. recovery[r] \in Recovery
    BY DEF IInv, TypeOK
  <2>2. recovery'[r].owner = recovery[r].owner
    BY <1>2, <2>1 DEF RecoveryJoins, IInv, TypeOK, Recovery
  <2>3. \A x \in Recoveries : x # r => recovery'[x] = recovery[x]
    BY <1>2 DEF RecoveryJoins, IInv, TypeOK
  <2>4. OwnersExist'
    BY <1>2, <2>2, <2>3 DEF RecoveryJoins, OwnersExist, IInv, Links
  <2> QED BY <1>2, <2>4, SameLinksKeepLinks DEF RecoveryJoins, SameLinks
<1> QED BY <1>1, <1>2

(* An install that begins or is answered touches no field that links.        *)
LEMMA InstallKeepsLinks ==
  ASSUME IInv, NEW i \in Installs,
         ProgramAsks(i) \/ \E ok \in BOOLEAN : InstallSettles(i, ok)
  PROVE  Links'
<1>1. ASSUME NEW x \in Entry
      PROVE  /\ SameLinks([x EXCEPT !.worker = "none"], x)
             /\ SameLinks([x EXCEPT !.ptcHost = None, !.worker = "failed"], x)
             /\ SameLinks([x EXCEPT !.ptcHost = i, !.worker = "installing"], x)
             /\ SameLinks(x, x)
  BY DEF SameLinks, Entry
<1>2. \A e \in Entries :
        \/ entry'[e] = entry[e]
        \/ entry'[e] = [entry[e] EXCEPT !.worker = "none"]
        \/ entry'[e] = [entry[e] EXCEPT !.ptcHost = None, !.worker = "failed"]
        \/ entry'[e] = [entry[e] EXCEPT !.ptcHost = i, !.worker = "installing"]
  <2>1. CASE ProgramAsks(i)
    BY <2>1 DEF ProgramAsks, IInv, TypeOK
  <2>2. ASSUME NEW ok \in BOOLEAN, InstallSettles(i, ok),
               NEW e \in Entries
        PROVE  \/ entry'[e] = entry[e]
               \/ entry'[e] = [entry[e] EXCEPT !.worker = "none"]
               \/ entry'[e] = [entry[e] EXCEPT !.ptcHost = None, !.worker = "failed"]
    <3> DEFINE o == install[i].owner
    <3>1. CASE entry[o].ptcHost # i
      BY <2>2, <3>1 DEF InstallSettles
    <3>2. CASE entry[o].ptcHost = i /\ ok
      <4>1. entry' = [entry EXCEPT ![o].worker = "none"]
        BY <2>2, <3>2 DEF InstallSettles
      <4> QED BY <4>1 DEF IInv, TypeOK
    <3>3. CASE entry[o].ptcHost = i /\ ~ok
      <4>1. entry' = [entry EXCEPT ![o].ptcHost = None, ![o].worker = "failed"]
        BY <2>2, <3>3 DEF InstallSettles
      <4> QED BY <4>1 DEF IInv, TypeOK
    <3> QED BY <3>1, <3>2, <3>3
  <2> QED BY <2>1, <2>2
<1>3. \A e \in Entries : SameLinks(entry'[e], entry[e])
  BY <1>1, <1>2 DEF IInv, TypeOK
<1>4. OwnersExist'
  BY DEF ProgramAsks, InstallSettles, OwnersExist, IInv, Links
<1> QED BY <1>3, <1>4, SameLinksKeepLinks DEF ProgramAsks, InstallSettles

(* disconnect empties the entry; calm ends with an attempt in flight.        *)
LEMMA DisconnectKeepsLinks == ASSUME IInv, Disconnect PROVE Links'
<1> USE NoneAssumption
<1>1. current \in Entries /\ entry[current] \in Entry
  BY DEF Disconnect, IInv, TypeOK
<1>2. Empty(Cleared(entry[current])) /\ Cleared(entry[current]) \in Entry
  BY <1>1, ClearedFields, ClearedType
<1>3. entry'[current] = [Cleared(entry[current]) EXCEPT
                           !.recovery = None, !.state = "disconnected"]
  BY <1>1 DEF Disconnect, IInv, TypeOK
<1>4. Empty(entry'[current]) /\ entry'[current].state = "disconnected"
        /\ entry'[current].recovery = None
  BY <1>2, <1>3 DEF Entry, Empty
<1>5. \A x \in Entries : x # current => entry'[x] = entry[x]
  BY DEF Disconnect, IInv, TypeOK
<1>6. calm' => calm /\ \A a \in Attempts : attempt[a].phase = "idle"
  BY InFlightIsCurrent DEF Disconnect, InFlight, IInv, TypeOK
<1>7. OwnersExist'
  BY DEF Disconnect, OwnersExist, IInv, Links
<1>8. EntryLinks'
  BY <1>4, <1>5 DEF Disconnect, Empty, EntryLinks, IInv, Links
<1>9. MapLinks'
  BY <1>4, <1>5 DEF Disconnect, MapLinks, IInv, Links
<1>10. CalmLinks'
  BY <1>4, <1>5, <1>6 DEF Disconnect, Empty, CalmLinks, IInv, Links
<1>11. NothingLeaks'
  BY <1>4, <1>5, <1>6 DEF Disconnect, Close, NothingLeaks, IInv, Links
<1> QED BY <1>7, <1>8, <1>9, <1>10, <1>11 DEF Links

(* dispose empties the entry and forgets it.                                 *)
LEMMA DisposeKeepsLinks == ASSUME IInv, Dispose PROVE Links'
<1> USE NoneAssumption
<1>1. CASE current = None
  <2>1. calm => \A a \in Attempts : attempt[a].phase = "idle"
    BY <1>1, InFlightIsCurrent
  <2> QED BY <1>1, <2>1 DEF Dispose, OwnersExist, EntryLinks, MapLinks, CalmLinks,
                            NothingLeaks, IInv, Links
<1>2. CASE current # None
  <2>1. current \in Entries /\ entry[current] \in Entry
    BY <1>2 DEF IInv, TypeOK
  <2>2. /\ Empty(Cleared(entry[current])) /\ Cleared(entry[current]) \in Entry
        /\ Cleared(entry[current]).state = entry[current].state
    BY <2>1, ClearedFields, ClearedType
  <2>3. entry'[current] = [Cleared(entry[current]) EXCEPT !.recovery = None]
    BY <1>2, <2>1 DEF Dispose, IInv, TypeOK
  <2>4. Empty(entry'[current]) /\ entry'[current].state = entry[current].state
          /\ entry'[current].recovery = None
    BY <2>2, <2>3 DEF Entry, Empty
  <2>5. \A x \in Entries : x # current => entry'[x] = entry[x]
    BY <1>2 DEF Dispose, IInv, TypeOK
  <2>6. calm' => calm /\ \A a \in Attempts : attempt[a].phase = "idle"
    BY <1>2, InFlightIsCurrent DEF Dispose, InFlight, IInv, TypeOK
  <2>7. OwnersExist'
    BY DEF Dispose, OwnersExist, IInv, Links
  <2>8. EntryLinks'
    BY <2>4, <2>5 DEF Dispose, Empty, EntryLinks, IInv, Links
  <2>9. MapLinks'
    BY <1>2, <2>1, <2>5 DEF Dispose, MapLinks, IInv, Links
  <2>10. CalmLinks'
    BY <2>4, <2>5, <2>6 DEF Dispose, Empty, CalmLinks, IInv, Links
  <2>11. NothingLeaks'
    BY <1>2, <2>4, <2>5, <2>6 DEF Dispose, Close, NothingLeaks, IInv, Links
  <2> QED BY <2>7, <2>8, <2>9, <2>10, <2>11 DEF Links
<1> QED BY <1>1, <1>2

-----------------------------------------------------------------------------
(* The inductive invariant, and what follows from it *)

LEMMA InitIInv == Init => IInv
<1> SUFFICES ASSUME Init PROVE Links
  BY InitType DEF IInv
<1> QED BY NoneAssumption
        DEF Init, IdleEntry, IdleAttempt, IdleRecovery, Links, OwnersExist,
            EntryLinks, MapLinks, CalmLinks, NothingLeaks

LEMMA NextIInv == IInv /\ [Next]_vars => IInv'
<1> SUFFICES ASSUME IInv, [Next]_vars
             PROVE  Links'
  BY NextType DEF IInv
<1>1. CASE Connect
  BY <1>1, ConnectKeepsLinks
<1>2. CASE Disconnect
  BY <1>2, DisconnectKeepsLinks
<1>3. CASE Dispose
  BY <1>3, DisposeKeepsLinks
<1>4. CASE TakeChannel
  BY <1>4, SameLinksKeepLinks DEF TakeChannel, SameLinks, OwnersExist, IInv, Links
<1>5. ASSUME NEW a \in Attempts, AttemptStep(a)
      PROVE  Links'
  BY <1>5, TransportOpensKeepsLinks, HandshakeSucceedsKeepsLinks,
     AttemptFailsKeepsLinks DEF AttemptStep
<1>6. ASSUME NEW a \in Attempts, ForwardDies(a) \/ SocketDies(a) \/ DropChannel(a)
      PROVE  Links'
  BY <1>6, EnvironmentKeepsLinks
<1>7. ASSUME NEW r \in Recoveries, RecoveryStep(r)
      PROVE  Links'
  BY <1>7, RecoveryKeepsLinks, RecoveryConnectsKeepsLinks DEF RecoveryStep
<1>8. ASSUME NEW r \in Recoveries, NEW e \in Entries, ForwardLost(e, r)
      PROVE  Links'
  BY <1>8, ForwardLostKeepsLinks
<1>9. ASSUME NEW r \in Recoveries, NEW a \in Attempts, CallFails(a, r)
      PROVE  Links'
  BY <1>9, CallFailsKeepsLinks
<1>10. ASSUME NEW i \in Installs,
              ProgramAsks(i) \/ \E ok \in BOOLEAN : InstallSettles(i, ok)
       PROVE  Links'
  BY <1>10, InstallKeepsLinks
<1>11. CASE UNCHANGED vars
  BY <1>11, SameLinksKeepLinks DEF vars, SameLinks, OwnersExist, IInv, Links
<1> QED
  BY <1>1, <1>2, <1>3, <1>4, <1>5, <1>6, <1>7, <1>8, <1>9, <1>10, <1>11 DEF Next

LEMMA IInvInvariant == Spec => []IInv
<1> QED BY InitIInv, NextIInv, PTL DEF Spec

(* The channel handed to the routers is the live connection's, and there is  *)
(* one exactly while the machine reads as ready, whatever the interleaving.  *)
THEOREM HandedOutIsLiveHolds == Spec => []HandedOutIsLive
<1>1. IInv => HandedOutIsLive
  BY DEF IInv, Links, TypeOK, EntryLinks, MapLinks, HandedOutIsLive
<1> QED BY <1>1, IInvInvariant, PTL

(* A machine reads as connecting exactly while an attempt of its own is in   *)
(* flight: connectRecord's attempt always settles the entry it was for.      *)
THEOREM ConnectingIsAttemptedHolds == Spec => []ConnectingIsAttempted
<1>1. IInv => ConnectingIsAttempted
  <2> SUFFICES ASSUME IInv, current # None
               PROVE  LET x == entry[current]
                      IN  /\ (x.state = "connecting") <=> (x.pending # None)
                          /\ x.pending # None => x.pending \in InFlight(current)
    BY DEF ConnectingIsAttempted
  <2>1. current \in Entries /\ entry[current].pending \in Attempts \cup {None}
    BY DEF IInv, TypeOK, Entry
  <2> QED BY <2>1 DEF IInv, Links, EntryLinks, MapLinks, InFlight
<1> QED BY <1>1, IInvInvariant, PTL

(* No forward and no connection outlives the entry's hold on it, as long as  *)
(* no disconnect or dispose met an attempt in flight (clear, fail).          *)
THEOREM NothingLeaksHolds == Spec => []NothingLeaks
<1>1. IInv => NothingLeaks
  BY DEF IInv, Links
<1> QED BY <1>1, IInvInvariant, PTL

(* Callers, recovery loops and passes share one attempt (connectRecord's     *)
(* early returns), as long as no disconnect or dispose met one.              *)
THEOREM OneAttemptAtATimeHolds == Spec => []OneAttemptAtATime
<1>1. IInv => OneAttemptAtATime
  BY DEF IInv, Links, CalmLinks, OneAttemptAtATime
<1> QED BY <1>1, IInvInvariant, PTL

(* No recovery loop acts on a machine that reads as disconnected.            *)
THEOREM DisconnectEndsRetryHolds == Spec => []DisconnectEndsRetry
<1>1. IInv => DisconnectEndsRetry
  BY NoneAssumption
     DEF IInv, Links, TypeOK, EntryLinks, DisconnectEndsRetry, Superseded
<1> QED BY <1>1, IInvInvariant, PTL

(* A calm manager that was disposed comes to nothing.                        *)
THEOREM DisposedStaysQuietHolds == Spec => []DisposedStaysQuiet
<1>1. IInv => DisposedStaysQuiet
  <2> SUFFICES ASSUME IInv, calm, disposed
               PROVE  /\ current = None
                      /\ forwards = {}
                      /\ \A a \in Attempts : attempt[a].phase = "idle"
    BY DEF DisposedStaysQuiet
  <2>1. current = None
    BY DEF IInv, Links, CalmLinks
  <2>2. \A a \in Attempts : attempt[a].phase = "idle"
    BY <2>1, InFlightIsCurrent, NoneAssumption
  <2>3. forwards = {}
    BY <2>1, NoneAssumption DEF IInv, Links, TypeOK, CalmLinks, NothingLeaks
  <2> QED BY <2>1, <2>2, <2>3
<1> QED BY <1>1, IInvInvariant, PTL

-----------------------------------------------------------------------------
(* What the worker status tells.  No entry shares the install it remembers   *)
(* with another while it runs: the install then names that entry as its own. *)

\* What an entry's worker and install say of each other, of whatever entry.
WorkerLinks ==
  \A e \in Entries :
    LET x == entry[e]
    IN  /\ (x.worker = "installing")
             <=> (x.ptcHost # None /\ install[x.ptcHost].running)
        /\ x.ptcHost # None /\ install[x.ptcHost].running
             => install[x.ptcHost].owner = e
        /\ x.worker # "none" \/ x.ptcHost # None => x.state = "ready"
        /\ calm /\ x.ptcHost # None => install[x.ptcHost].conn = x.live

\* An entry that remembers no install.
Workerless(x) == x.ptcHost = None /\ x.worker = "none"

\* An entry whose worker a step leaves alone.
SameWorker(y, x) ==
  /\ y.ptcHost = x.ptcHost /\ y.worker = x.worker
  /\ x.state = "ready" => y.state = "ready"
  /\ calm => y.live = x.live

LEMMA ClearedWorker ==
  ASSUME NEW x \in Entry
  PROVE  Workerless(Cleared(x)) /\ Workerless(Failed(x))
BY DEF Cleared, Failed, Entry, Workerless

(* A machine that is not ready remembers no install: connectRecord begins on *)
(* an entry that holds none.                                                 *)
LEMMA WorkerlessBeforeReady ==
  ASSUME WorkerLinks, NEW e \in Entries, entry[e].state # "ready"
  PROVE  Workerless(entry[e])
BY DEF WorkerLinks, Workerless

(* A step that empties some entries' worker and leaves the others' alone.    *)
LEMMA SameWorkerKeepsWorker ==
  ASSUME WorkerLinks, UNCHANGED install, calm' => calm,
         \A e \in Entries : Workerless(entry'[e]) \/ SameWorker(entry'[e], entry[e])
  PROVE  WorkerLinks'
<1> SUFFICES ASSUME NEW e \in Entries
             PROVE  LET x == entry'[e]
                    IN  /\ (x.worker = "installing")
                             <=> (x.ptcHost # None /\ install[x.ptcHost].running)
                        /\ x.ptcHost # None /\ install[x.ptcHost].running
                             => install[x.ptcHost].owner = e
                        /\ x.worker # "none" \/ x.ptcHost # None => x.state = "ready"
                        /\ calm' /\ x.ptcHost # None => install[x.ptcHost].conn = x.live
  BY DEF WorkerLinks
<1>1. CASE Workerless(entry'[e])
  BY <1>1 DEF Workerless
<1>2. CASE SameWorker(entry'[e], entry[e])
  BY <1>2 DEF SameWorker, WorkerLinks
<1> QED BY <1>1, <1>2

(* A new attempt: the entry it is begun for remembers no install.            *)
LEMMA BeginKeepsWorker ==
  ASSUME IInv, WorkerLinks, NEW e \in Entries, NEW a \in Attempts, EntryFor(e),
         Begin(e, a), UNCHANGED <<install, calm>>
  PROVE  WorkerLinks'
<1>1. entry[e] \in Entry /\ entry \in [Entries -> Entry]
  BY DEF IInv, TypeOK
<1>2. entry'[e] = [entry[e] EXCEPT !.state = "connecting", !.pending = a]
  BY <1>1 DEF Begin
<1>3. Workerless(entry[e])
  BY WorkerlessBeforeReady DEF Begin
<1>4. Workerless(entry'[e])
  BY <1>1, <1>2, <1>3 DEF Workerless, Entry
<1>5. \A x \in Entries : x # e => SameWorker(entry'[x], entry[x])
  BY <1>1 DEF Begin, SameWorker
<1> QED BY <1>4, <1>5, SameWorkerKeepsWorker

(* fail and recover, and an attempt that fails, empty the entry they are of. *)
LEMMA EmptyingKeepsWorker ==
  ASSUME IInv, WorkerLinks, NEW e \in Entries, NEW y, Workerless(y),
         entry' = [entry EXCEPT ![e] = y], UNCHANGED install, calm' => calm
  PROVE  WorkerLinks'
<1>1. entry'[e] = y /\ \A x \in Entries : x # e => entry'[x] = entry[x]
  BY DEF IInv, TypeOK
<1>2. \A x \in Entries : Workerless(entry'[x]) \/ SameWorker(entry'[x], entry[x])
  BY <1>1 DEF SameWorker
<1> QED BY <1>2, SameWorkerKeepsWorker

LEMMA FailAndRecoverKeepsWorker ==
  ASSUME IInv, WorkerLinks, NEW e \in Entries, NEW r \in Recoveries,
         FailAndRecover(e, r), UNCHANGED <<install, calm>>
  PROVE  WorkerLinks'
<1> DEFINE y == [Failed(entry[e]) EXCEPT !.recovery = r]
<1>1. Failed(entry[e]) \in Entry /\ Workerless(Failed(entry[e]))
  BY ClearedType, ClearedWorker DEF IInv, TypeOK
<1>2. Workerless(y)
  BY <1>1 DEF Workerless, Entry
<1>3. entry' = [entry EXCEPT ![e] = y]
  BY DEF FailAndRecover
<1> HIDE DEF y
<1> QED BY <1>2, <1>3, EmptyingKeepsWorker

(* An entry that takes install i as the one that runs for it.                *)
LEMMA StartedKeepsWorker ==
  ASSUME IInv, WorkerLinks, NEW e \in Entries, NEW i \in Installs, NEW y,
         FreeInstall(i), entry' = [entry EXCEPT ![e] = y], UNCHANGED calm,
         y.ptcHost = i, y.worker = "installing", y.state = "ready",
         install' = [install EXCEPT
           ![i] = [running |-> TRUE, owner |-> e, conn |-> y.live]]
  PROVE  WorkerLinks'
<1>1. entry'[e] = y /\ \A x \in Entries : x # e => entry'[x] = entry[x]
  BY DEF IInv, TypeOK
<1>2. /\ install'[i].running /\ install'[i].owner = e /\ install'[i].conn = y.live
      /\ \A j : j # i => install'[j] = install[j]
  BY DEF IInv, TypeOK
<1>3. \A x \in Entries : entry[x].ptcHost # i
  BY DEF FreeInstall, InstallHeld
<1>4. i # None
  BY NoneAssumption
<1> QED BY <1>1, <1>2, <1>3, <1>4 DEF WorkerLinks

(* The warm-up: a connection published begins the install it needs; the one  *)
(* entry that may have one already is the target of a cut attempt.           *)
LEMMA HandshakeSucceedsKeepsWorker ==
  ASSUME IInv, WorkerLinks, NEW a \in Attempts, NEW i \in Installs,
         HandshakeSucceeds(a, i)
  PROVE  WorkerLinks'
<1> DEFINE e == attempt[a].owner
           y == Readied(entry[e], a, i)
<1>1. e \in Entries
  BY DEF HandshakeSucceeds, IInv, Links, OwnersExist
<1>2. entry[e] \in Entry
  BY <1>1 DEF IInv, TypeOK
<1>3. entry' = [entry EXCEPT ![e] = y] /\ UNCHANGED calm
  BY DEF HandshakeSucceeds
<1>4. y.live = a /\ y.state = "ready"
  BY <1>2 DEF Readied, Entry
<1>5. CASE Ssh /\ entry[e].ptcHost = None
  <2>1. y.ptcHost = i /\ y.worker = "installing"
    BY <1>2, <1>5 DEF Readied, Entry
  <2>2. FreeInstall(i) /\ install' = [install EXCEPT
           ![i] = [running |-> TRUE, owner |-> e, conn |-> y.live]]
    BY <1>4, <1>5 DEF HandshakeSucceeds, WarmUp
  <2> HIDE DEF e, y
  <2> QED BY <1>1, <1>3, <1>4, <2>1, <2>2, StartedKeepsWorker
<1>6. CASE ~(Ssh /\ entry[e].ptcHost = None)
  <2>1. y.ptcHost = entry[e].ptcHost /\ y.worker = entry[e].worker
    BY <1>2, <1>6 DEF Readied, Entry
  <2>2. UNCHANGED install
    BY <1>6 DEF HandshakeSucceeds, WarmUp
  <2>3. entry'[e] = y /\ \A x \in Entries : x # e => entry'[x] = entry[x]
    BY <1>1, <1>3 DEF IInv, TypeOK
  <2>4. calm => entry[e].state = "connecting"
    BY InFlightIsCurrent DEF HandshakeSucceeds
  <2>5. calm => Workerless(entry[e])
    BY <1>1, <2>4, WorkerlessBeforeReady
  <2>6. Workerless(y) \/ SameWorker(y, entry[e])
    BY <1>4, <2>1, <2>5 DEF SameWorker, Workerless
  <2>7. \A x \in Entries : Workerless(entry'[x]) \/ SameWorker(entry'[x], entry[x])
    BY <2>3, <2>6 DEF SameWorker
  <2> HIDE DEF e, y
  <2> QED BY <1>3, <2>2, <2>7, SameWorkerKeepsWorker
<1> QED BY <1>5, <1>6

(* ptcHost(): a program begins the install of the connection there is.       *)
LEMMA ProgramAsksKeepsWorker ==
  ASSUME IInv, WorkerLinks, NEW i \in Installs, ProgramAsks(i)
  PROVE  WorkerLinks'
<1> DEFINE y == [entry[current] EXCEPT !.ptcHost = i, !.worker = "installing"]
<1>1. current \in Entries /\ entry[current] \in Entry
  BY DEF ProgramAsks, IInv, TypeOK
<1>2. entry' = [entry EXCEPT ![current] = y] /\ UNCHANGED <<calm, current>>
  BY DEF ProgramAsks, IInv, TypeOK
<1>3. /\ y.ptcHost = i /\ y.worker = "installing" /\ y.state = "ready"
      /\ y.live = entry[current].live
  BY <1>1 DEF ProgramAsks, Entry
<1>4. FreeInstall(i) /\ install' = [install EXCEPT
        ![i] = [running |-> TRUE, owner |-> current, conn |-> y.live]]
  BY <1>3 DEF ProgramAsks, WarmUp
<1> HIDE DEF y
<1> QED BY <1>1, <1>2, <1>3, <1>4, StartedKeepsWorker

(* An install settles: the entry that still remembers it says how, and no    *)
(* other remembers it, for while it runs it names the one that does.         *)
LEMMA InstallSettlesKeepsWorker ==
  ASSUME IInv, WorkerLinks, NEW i \in Installs, NEW ok \in BOOLEAN,
         InstallSettles(i, ok)
  PROVE  WorkerLinks'
<1> DEFINE o == install[i].owner
<1> USE NoneAssumption
<1>1. /\ ~install'[i].running
      /\ install'[i].owner = o /\ install'[i].conn = install[i].conn
      /\ \A j : j # i => install'[j] = install[j]
  <2>1. install \in [Installs -> Install] /\ install[i] \in Install
    BY DEF IInv, TypeOK
  <2>2. install' = [install EXCEPT ![i] = [install[i] EXCEPT !.running = FALSE]]
    BY <2>1 DEF InstallSettles
  <2> QED BY <2>1, <2>2 DEF Install
<1>2. UNCHANGED calm /\ install[i].running
  BY DEF InstallSettles
<1>3. \A x \in Entries : entry[x].ptcHost = i => x = o /\ entry[x].worker = "installing"
  BY <1>2 DEF WorkerLinks
<1>4. ASSUME NEW x \in Entries, entry'[x] = entry[x], entry[x].ptcHost # i
      PROVE  LET z == entry'[x]
             IN  /\ (z.worker = "installing")
                      <=> (z.ptcHost # None /\ install'[z.ptcHost].running)
                 /\ z.ptcHost # None /\ install'[z.ptcHost].running
                      => install'[z.ptcHost].owner = x
                 /\ z.worker # "none" \/ z.ptcHost # None => z.state = "ready"
                 /\ calm' /\ z.ptcHost # None => install'[z.ptcHost].conn = z.live
  BY <1>1, <1>2, <1>4 DEF WorkerLinks
<1>5. CASE o \notin Entries \/ entry[o].ptcHost # i
  <2>1. \A x \in Entries : entry[x].ptcHost # i
    BY <1>3, <1>5
  <2>2. entry' = entry
    <3>1. CASE o \in Entries
      BY <1>5, <3>1 DEF InstallSettles
    <3>2. CASE o \notin Entries
      BY <3>2 DEF InstallSettles, IInv, TypeOK
    <3> QED BY <3>1, <3>2
  <2> QED BY <1>4, <2>1, <2>2 DEF WorkerLinks
<1>6. CASE o \in Entries /\ entry[o].ptcHost = i
  <2> DEFINE y == IF ok THEN [entry[o] EXCEPT !.worker = "none"]
                        ELSE [entry[o] EXCEPT !.ptcHost = None, !.worker = "failed"]
  <2>1. entry[o] \in Entry /\ entry[o].state = "ready"
    BY <1>6 DEF IInv, TypeOK, WorkerLinks
  <2>2. entry' = [entry EXCEPT ![o] = y]
    <3>1. CASE ok
      BY <1>6, <3>1 DEF InstallSettles
    <3>2. CASE ~ok
      BY <1>6, <3>2 DEF InstallSettles, IInv, TypeOK
    <3> QED BY <3>1, <3>2
  <2>3. /\ y.worker # "installing" /\ y.state = "ready" /\ y.live = entry[o].live
        /\ y.ptcHost \in {None, i}
    BY <1>6, <2>1 DEF Entry
  <2> HIDE DEF y
  <2>4. entry'[o] = y /\ \A x \in Entries : x # o => entry'[x] = entry[x]
    BY <1>6, <2>2 DEF IInv, TypeOK
  <2>5. calm => install[i].conn = entry[o].live
    BY <1>6 DEF WorkerLinks
  <2>6. \A x \in Entries : x # o => entry[x].ptcHost # i
    BY <1>3
  <2> QED BY <1>1, <1>2, <1>4, <2>3, <2>4, <2>5, <2>6 DEF WorkerLinks
<1> QED BY <1>5, <1>6

LEMMA NextWorkerLinks == IInv /\ WorkerLinks /\ [Next]_vars => WorkerLinks'
<1> SUFFICES ASSUME IInv, WorkerLinks, [Next]_vars
             PROVE  WorkerLinks'
  OBVIOUS
<1>0. entry \in [Entries -> Entry]
  BY DEF IInv, TypeOK
<1>1. CASE Connect
  BY <1>1, BeginKeepsWorker DEF Connect
<1>2. CASE Disconnect
  <2> DEFINE y == [Cleared(entry[current]) EXCEPT !.recovery = None,
                                                  !.state = "disconnected"]
  <2>1. current \in Entries
    BY <1>2 DEF Disconnect, IInv, TypeOK
  <2>2. Cleared(entry[current]) \in Entry /\ Workerless(Cleared(entry[current]))
    BY <1>0, <2>1, ClearedType, ClearedWorker
  <2>3. Workerless(y)
    BY <2>2 DEF Workerless, Entry
  <2>4. entry' = [entry EXCEPT ![current] = y] /\ UNCHANGED install /\ (calm' => calm)
    BY <1>2 DEF Disconnect
  <2> HIDE DEF y
  <2> QED BY <2>1, <2>3, <2>4, EmptyingKeepsWorker
<1>3. CASE Dispose
  <2>1. CASE current = None
    BY <1>3, <2>1, SameWorkerKeepsWorker DEF Dispose, SameWorker
  <2>2. CASE current # None
    <3> DEFINE y == [Cleared(entry[current]) EXCEPT !.recovery = None]
    <3>1. current \in Entries
      BY <2>2 DEF IInv, TypeOK
    <3>2. Cleared(entry[current]) \in Entry /\ Workerless(Cleared(entry[current]))
      BY <1>0, <3>1, ClearedType, ClearedWorker
    <3>3. Workerless(y)
      BY <3>2 DEF Workerless, Entry
    <3>4. entry' = [entry EXCEPT ![current] = y] /\ UNCHANGED install /\ (calm' => calm)
      BY <1>3, <2>2 DEF Dispose
    <3> HIDE DEF y
    <3> QED BY <3>1, <3>3, <3>4, EmptyingKeepsWorker
  <2> QED BY <2>1, <2>2
<1>4. ASSUME NEW a \in Attempts, TransportOpens(a)
      PROVE  WorkerLinks'
  <2>1. \A e \in Entries : \/ entry'[e] = entry[e]
                           \/ entry'[e] = [entry[e] EXCEPT !.transport = a]
    BY <1>0, <1>4 DEF TransportOpens
  <2>2. \A e \in Entries : SameWorker(entry'[e], entry[e])
    BY <1>0, <2>1 DEF SameWorker, Entry
  <2> QED BY <1>4, <2>2, SameWorkerKeepsWorker DEF TransportOpens
<1>5. ASSUME NEW a \in Attempts, AttemptFails(a)
      PROVE  WorkerLinks'
  <2>1. attempt[a].owner \in Entries
    BY <1>5 DEF AttemptFails, IInv, Links, OwnersExist
  <2>2. Workerless(Failed(entry[attempt[a].owner]))
    BY <1>0, <2>1, ClearedWorker
  <2> QED BY <1>5, <2>1, <2>2, EmptyingKeepsWorker DEF AttemptFails
<1>6. ASSUME NEW r \in Recoveries, NEW e \in Entries, ForwardLost(e, r)
      PROVE  WorkerLinks'
  BY <1>6, FailAndRecoverKeepsWorker DEF ForwardLost
<1>7. ASSUME NEW r \in Recoveries, NEW a \in Attempts, CallFails(a, r)
      PROVE  WorkerLinks'
  <2>1. CASE UNCHANGED entry
    BY <1>7, <2>1, SameWorkerKeepsWorker DEF CallFails, SameWorker
  <2>2. ASSUME NEW e \in Entries, FailAndRecover(e, r) PROVE WorkerLinks'
    BY <1>7, <2>2, FailAndRecoverKeepsWorker DEF CallFails
  <2> QED BY <1>7, <2>1, <2>2 DEF CallFails
<1>8. ASSUME NEW r \in Recoveries, NEW a \in Attempts, RecoveryConnects(r, a)
      PROVE  WorkerLinks'
  BY <1>8, BeginKeepsWorker DEF RecoveryConnects
<1>9. CASE \/ TakeChannel \/ UNCHANGED vars
           \/ \E a \in Attempts : \/ ForwardDies(a) \/ SocketDies(a) \/ DropChannel(a)
           \/ \E r \in Recoveries : RecoveryEnds(r) \/ RecoveryJoins(r)
  <2>1. UNCHANGED <<entry, install, calm>>
    BY <1>9 DEF TakeChannel, vars, ForwardDies, SocketDies, DropChannel,
                RecoveryEnds, RecoveryJoins
  <2> QED BY <2>1, SameWorkerKeepsWorker DEF SameWorker
<1> QED
  BY <1>1, <1>2, <1>3, <1>4, <1>5, <1>6, <1>7, <1>8, <1>9,
     HandshakeSucceedsKeepsWorker, ProgramAsksKeepsWorker,
     InstallSettlesKeepsWorker DEF Next, AttemptStep, RecoveryStep

(* The status a surface reads is the remembered install's, which was begun   *)
(* for the connection there is now: an older connection's install never      *)
(* speaks for it (ptcHostFor's check of what the entry remembers).           *)
THEOREM WorkerTellsInstallHolds == Spec => []WorkerTellsInstall
<1>1. Init => WorkerLinks
  <2> SUFFICES ASSUME Init PROVE WorkerLinks
    OBVIOUS
  <2>1. \A e \in Entries : entry[e].ptcHost = None /\ entry[e].worker = "none"
    BY DEF Init, IdleEntry
  <2> QED BY <2>1 DEF WorkerLinks
<1>2. IInv /\ WorkerLinks => WorkerTellsInstall
  <2> SUFFICES ASSUME IInv, WorkerLinks, current # None PROVE WorkerTellsInstall
    BY DEF WorkerTellsInstall
  <2>1. current \in Entries
    BY DEF IInv, TypeOK
  <2> QED BY <2>1, Zenon DEF WorkerLinks, WorkerTellsInstall
<1> QED BY <1>1, <1>2, IInvInvariant, NextWorkerLinks, PTL DEF Spec

(* All of it together: the manager's fields agree with each other and with   *)
(* what runs, in every interleaving (connectRecord, recover, clear, fail).   *)
THEOREM ManagerInvHolds == Spec => []ManagerInv
<1>1. /\ TypeOK /\ HandedOutIsLive /\ ConnectingIsAttempted
      /\ DisconnectEndsRetry /\ OneAttemptAtATime /\ WorkerTellsInstall
      => ManagerInv
  BY DEF ManagerInv
<1> QED BY <1>1, TypeCorrect, HandedOutIsLiveHolds, ConnectingIsAttemptedHolds,
           DisconnectEndsRetryHolds, OneAttemptAtATimeHolds,
           WorkerTellsInstallHolds, PTL

-----------------------------------------------------------------------------
(* What a step may never do: one lemma per kind of step, on the state of one *)
(* entry before and after it.                                                *)


(* The steps that leave every entry's state as it is.                        *)
LEMMA StateKept ==
  ASSUME IInv, NEW e \in Entries,
         \/ TakeChannel \/ UNCHANGED vars
         \/ \E a \in Attempts : \/ TransportOpens(a) \/ ForwardDies(a)
                                \/ SocketDies(a) \/ DropChannel(a)
         \/ \E r \in Recoveries : RecoveryEnds(r) \/ RecoveryJoins(r)
         \/ \E i \in Installs : \/ ProgramAsks(i)
                                \/ \E ok \in BOOLEAN : InstallSettles(i, ok)
  PROVE  entry'[e].state = entry[e].state
<1>1. entry[e] \in Entry
  BY DEF IInv, TypeOK
<1>2. ASSUME NEW a \in Attempts, TransportOpens(a)
      PROVE  entry'[e].state = entry[e].state
  <2>1. \/ entry'[e] = entry[e]
        \/ entry'[e] = [entry[e] EXCEPT !.transport = a]
    BY <1>2 DEF TransportOpens, IInv, TypeOK
  <2> QED BY <1>1, <2>1 DEF Entry
<1>3. ASSUME NEW i \in Installs, ProgramAsks(i)
      PROVE  entry'[e].state = entry[e].state
  <2>1. \/ entry'[e] = entry[e]
        \/ entry'[e] = [entry[e] EXCEPT !.ptcHost = i, !.worker = "installing"]
    BY <1>3 DEF ProgramAsks, IInv, TypeOK
  <2> QED BY <1>1, <2>1 DEF Entry
<1>4. ASSUME NEW i \in Installs, NEW ok \in BOOLEAN, InstallSettles(i, ok)
      PROVE  entry'[e].state = entry[e].state
  <2>1. \/ entry'[e] = entry[e]
        \/ entry'[e] = [entry[e] EXCEPT !.worker = "none"]
        \/ entry'[e] = [entry[e] EXCEPT !.ptcHost = None, !.worker = "failed"]
    BY <1>4 DEF InstallSettles, IInv, TypeOK
  <2> QED BY <1>1, <2>1 DEF Entry
<1> QED BY <1>2, <1>3, <1>4
        DEF TakeChannel, vars, ForwardDies, SocketDies, DropChannel,
            RecoveryEnds, RecoveryJoins

(* A new attempt makes its entry connecting and touches no other.            *)
LEMMA StateBegun ==
  ASSUME IInv, NEW e \in Entries,
         Connect \/ \E r \in Recoveries, a \in Attempts : RecoveryConnects(r, a)
  PROVE  entry'[e].state \in {entry[e].state, "connecting"}
<1>1. PICK x \in Entries, a \in Attempts : EntryFor(x) /\ Begin(x, a)
  BY DEF Connect, RecoveryConnects
<1> QED BY <1>1, BeginFields DEF IInv

(* disconnect and dispose make no entry ready or failed.                     *)
LEMMA StateEnded ==
  ASSUME IInv, NEW e \in Entries, Disconnect \/ Dispose
  PROVE  entry'[e].state \in {entry[e].state, "disconnected"}
<1>1. CASE e # current
  BY <1>1 DEF Disconnect, Dispose, IInv, TypeOK
<1>2. CASE e = current
  <2>1. entry[e] \in Entry
    BY DEF IInv, TypeOK
  <2>2. Cleared(entry[e]) \in Entry /\ Cleared(entry[e]).state = entry[e].state
    BY <2>1, ClearedType, ClearedFields
  <2>3. CASE Disconnect
    <3>1. entry'[e] = [Cleared(entry[e]) EXCEPT !.recovery = None,
                                                !.state = "disconnected"]
      BY <1>2, <2>3 DEF Disconnect, IInv, TypeOK
    <3> QED BY <2>2, <3>1 DEF Entry
  <2>4. CASE Dispose
    <3>1. entry'[e] = [Cleared(entry[e]) EXCEPT !.recovery = None]
      BY <1>2, <2>4, NoneAssumption DEF Dispose, IInv, TypeOK
    <3> QED BY <2>2, <3>1 DEF Entry
  <2> QED BY <2>3, <2>4
<1> QED BY <1>1, <1>2

(* While calm, an attempt settles only the entry that is connecting.         *)
LEMMA StateSettled ==
  ASSUME IInv, calm, NEW e \in Entries,
         \E a \in Attempts : \/ AttemptFails(a)
                             \/ \E i \in Installs : HandshakeSucceeds(a, i)
  PROVE  entry'[e].state = entry[e].state \/ entry[e].state = "connecting"
<1>1. PICK a \in Attempts : \/ AttemptFails(a)
                            \/ \E i \in Installs : HandshakeSucceeds(a, i)
  OBVIOUS
<1>2. attempt[a].owner = current /\ entry[current].state = "connecting"
  BY <1>1, InFlightIsCurrent DEF AttemptFails, HandshakeSucceeds
<1>3. e # current => entry'[e] = entry[e]
  BY <1>1, <1>2 DEF AttemptFails, HandshakeSucceeds, IInv, TypeOK
<1> QED BY <1>2, <1>3

(* A loss fails the entry that held what was lost, and touches no other.     *)
LEMMA StateLost ==
  ASSUME IInv, calm, NEW e \in Entries, NEW r \in Recoveries,
         \/ \E x \in Entries : ForwardLost(x, r)
         \/ \E a \in Attempts : CallFails(a, r)
  PROVE  \/ entry'[e].state = entry[e].state
         \/ /\ entry[e].state = "ready"
            /\ \/ entry[e].live \notin sockets
               \/ Ssh /\ entry[e].transport \notin forwards
<1>1. ASSUME NEW x \in Entries, ForwardLost(x, r)
      PROVE  \/ entry'[e].state = entry[e].state
             \/ entry[e].state = "ready" /\ Ssh /\ entry[e].transport \notin forwards
  <2>1. entry[x].transport \in Attempts /\ attempt[entry[x].transport].phase = "idle"
    BY <1>1 DEF ForwardLost, IInv, TypeOK, Entry
  <2>2. entry[x].live # None
    BY <2>1, NoneAssumption DEF IInv, Links, CalmLinks
  <2>3. entry[x].state = "ready"
    BY <2>2 DEF IInv, Links, EntryLinks
  <2>4. e # x => entry'[e] = entry[e]
    BY <1>1, FailAndRecoverFields DEF ForwardLost, IInv
  <2> QED BY <1>1, <2>3, <2>4 DEF ForwardLost
<1>2. ASSUME NEW a \in Attempts, CallFails(a, r)
      PROVE  \/ entry'[e].state = entry[e].state
             \/ entry[e].state = "ready" /\ entry[e].live \notin sockets
  <2>1. CASE \E x \in Entries : entry[x].live = a
    <3>1. PICK x \in Entries : entry[x].live = a /\ FailAndRecover(x, r)
      BY <1>2, <2>1 DEF CallFails
    <3>2. entry[x].state = "ready"
      BY <3>1, NoneAssumption DEF IInv, Links, EntryLinks
    <3>3. e # x => entry'[e] = entry[e]
      BY <3>1, FailAndRecoverFields DEF IInv
    <3> QED BY <1>2, <3>1, <3>2, <3>3 DEF CallFails
  <2>2. CASE ~\E x \in Entries : entry[x].live = a
    BY <1>2, <2>2 DEF CallFails
  <2> QED BY <2>1, <2>2
<1> QED BY <1>1, <1>2

(* The three together: what any step does to the state of an entry.          *)
LEMMA StateSteps ==
  ASSUME IInv, calm, NEW e \in Entries, [Next]_vars
  PROVE  \/ entry'[e].state = entry[e].state
         \/ entry'[e].state = "disconnected"
         \/ entry'[e].state = "connecting"
              /\ (Connect \/ \E r \in Recoveries, a \in Attempts : RecoveryConnects(r, a))
         \/ entry[e].state = "connecting"
         \/ /\ entry[e].state = "ready"
            /\ \/ entry[e].live \notin sockets
               \/ Ssh /\ entry[e].transport \notin forwards
BY StateKept, StateBegun, StateEnded, StateSettled, StateLost
   DEF Next, AttemptStep, RecoveryStep

(* The same without the premise, for a machine that is ready: besides its    *)
(* own loss only an attempt of its entry that fails takes it to failed.      *)
LEMMA ReadyFails ==
  ASSUME IInv, NEW e \in Entries, [Next]_vars,
         entry[e].state = "ready", entry'[e].state = "failed"
  PROVE  \/ entry[e].live \notin sockets
         \/ Ssh /\ entry[e].transport \notin forwards
         \/ \E a \in InFlight(e) : AttemptFails(a)
<1>1. ASSUME NEW r \in Recoveries, NEW x \in Entries, ForwardLost(x, r)
      PROVE  Ssh /\ entry[e].transport \notin forwards
  <2>1. x = e
    BY <1>1, FailAndRecoverFields DEF ForwardLost, IInv
  <2> QED BY <1>1, <2>1 DEF ForwardLost
<1>2. ASSUME NEW r \in Recoveries, NEW a \in Attempts, CallFails(a, r)
      PROVE  entry[e].live \notin sockets
  <2>1. PICK x \in Entries : entry[x].live = a /\ FailAndRecover(x, r)
    BY <1>2 DEF CallFails
  <2>2. x = e
    BY <2>1, FailAndRecoverFields DEF IInv
  <2> QED BY <1>2, <2>1, <2>2 DEF CallFails
<1>3. ASSUME NEW a \in Attempts, AttemptFails(a)
      PROVE  a \in InFlight(e)
  BY <1>3 DEF AttemptFails, InFlight, IInv, TypeOK
<1>4. ASSUME NEW a \in Attempts, NEW i \in Installs, HandshakeSucceeds(a, i)
      PROVE  FALSE
  <2>1. attempt[a].owner = e
    BY <1>4 DEF HandshakeSucceeds, IInv, TypeOK
  <2>2. entry[e] \in Entry /\ entry'[e] = Readied(entry[e], a, i)
    BY <1>4, <2>1 DEF HandshakeSucceeds, IInv, TypeOK
  <2> QED BY <2>2 DEF Readied, Entry
<1> QED BY <1>1, <1>2, <1>3, <1>4, StateKept, StateBegun, StateEnded
        DEF Next, AttemptStep, RecoveryStep

(* A ready machine fails only on the loss of its own connection or forward,  *)
(* or, after a disconnect met an attempt in flight, because that attempt     *)
(* fails late (requestThrough, the exit handler and the catch of             *)
(* connectRecord).                                                           *)
THEOREM OnlyOwnLossDropsHolds == Spec => OnlyOwnLossDrops
<1> DEFINE Drop == \A e \in Entries :
             entry[e].state = "ready" /\ entry'[e].state = "failed" =>
               \/ entry[e].live \notin sockets
               \/ Ssh /\ entry[e].transport \notin forwards
               \/ FailsLate(e)
<1>1. IInv /\ [Next]_vars => [Drop]_vars
  BY StateSteps, ReadyFails DEF FailsLate
<1> QED BY <1>1, IInvInvariant, PTL DEF Spec, OnlyOwnLossDrops

(* While calm no step but a connect takes a disconnected machine elsewhere.   *)
LEMMA NextStaysDown == IInv /\ [Next]_vars /\ calm => StaysDown
<1> SUFFICES ASSUME IInv, [Next]_vars, calm, current # None, current' = current,
                    entry[current].state = "disconnected"
             PROVE  entry'[current].state = "disconnected" \/ Connect
  BY DEF StaysDown
<1>1. current \in Entries
  BY DEF IInv, TypeOK
<1>2. CASE \E r \in Recoveries, a \in Attempts : RecoveryConnects(r, a)
  <2>1. PICK r \in Recoveries, a \in Attempts : RecoveryConnects(r, a)
    BY <1>2
  <2>2. recovery[r].owner \in Entries /\ entry[recovery[r].owner].recovery = r
    BY <2>1 DEF RecoveryConnects, Superseded, IInv, Links, OwnersExist
  <2>3. recovery[r].owner = current
    BY <2>2, NoneAssumption DEF IInv, Links, CalmLinks
  <2> QED BY <1>1, <2>2, <2>3, NoneAssumption DEF IInv, Links, EntryLinks
<1> QED BY <1>1, <1>2, StateSteps

(* A machine somebody disconnected leaves that state only by connect(), as   *)
(* long as no disconnect met an attempt in flight (the check of the loop     *)
(* after its sleep, and what clear leaves behind).                           *)
THEOREM CalmDisconnectStaysDownHolds == Spec => CalmDisconnectStaysDown
<1>1. IInv /\ [Next]_vars => [calm => StaysDown]_vars
  BY NextStaysDown
<1> QED BY <1>1, IInvInvariant, PTL DEF Spec, CalmDisconnectStaysDown

-----------------------------------------------------------------------------
(* The background passes (Autoconnect)                                       *)

\* Before the startup pass has been considered there is nothing.
NothingBefore ==
  ~started => /\ current = None
              /\ ~disposed
              /\ \A a \in Attempts : attempt[a].phase = "idle"
              /\ \A p \in Passes : pass[p].phase = "idle"

PassInv == IInv /\ PassTypeOK /\ NothingBefore

(* A pass makes an attempt the way a person's connect does, and its other    *)
(* steps leave the manager alone: the passes have no way of their own into   *)
(* the manager (pass calls only deps.connect).                               *)
LEMMA PassStepsAreManagers ==
  ASSUME IInv, NothingBefore, [PassNext]_allVars
  PROVE  [Next]_vars
<1>1. CASE Startup
  <2>1. CASE UNCHANGED vars
    BY <2>1
  <2>2. CASE /\ \E e \in Entries, a \in Attempts : EntryFor(e) /\ Begin(e, a)
             /\ ManagerRest
    <3>1. ~disposed
      BY <1>1 DEF Startup, NothingBefore
    <3>2. Connect
      BY <2>2, <3>1 DEF Connect, ManagerRest
    <3> QED BY <3>2 DEF Next
  <2> QED BY <1>1, <2>1, <2>2 DEF Startup
<1>2. ASSUME NEW p \in Passes, FollowUp(p) PROVE [Next]_vars
  <2>1. PICK a \in Attempts : Begin(current, a)
    BY <1>2 DEF FollowUp
  <2>2. current \in Entries
    BY <1>2 DEF FollowUp, StateIs, IInv, TypeOK
  <2>3. EntryFor(current)
    BY <1>2 DEF FollowUp, EntryFor
  <2>4. Connect
    BY <1>2, <2>1, <2>2, <2>3 DEF FollowUp, Connect, ManagerRest
  <2> QED BY <2>4 DEF Next
<1>3. ASSUME NEW p \in Passes, PassStep(p) PROVE [Next]_vars
  <2>1. CASE PassEnds(p) \/ PassJoins(p)
    BY <2>1 DEF PassEnds, PassJoins
  <2>2. ASSUME NEW a \in Attempts, PassConnects(p, a) PROVE [Next]_vars
    <3>1. Connect
      BY <2>2 DEF PassConnects, Connect, ManagerRest
    <3> QED BY <3>1 DEF Next
  <2> QED BY <1>3, <2>1, <2>2 DEF PassStep
<1>4. ASSUME NEW a \in Attempts, Opens(a) \/ Succeeds(a) \/ Fails(a)
      PROVE  [Next]_vars
  <2>1. AttemptStep(a)
    BY <1>4 DEF Opens, Succeeds, Fails, AttemptStep
  <2> QED BY <2>1 DEF Next
<1>5. CASE Elsewhere
  BY <1>5 DEF Elsewhere, Next
<1>6. CASE UNCHANGED allVars
  BY <1>6 DEF allVars
<1> QED BY <1>1, <1>2, <1>3, <1>4, <1>5, <1>6 DEF PassNext

\* The steps in which no attempt settles.
Unsettling ==
  \/ Connect \/ Disconnect \/ Dispose \/ TakeChannel \/ UNCHANGED vars
  \/ \E a \in Attempts : \/ TransportOpens(a) \/ ForwardDies(a)
                         \/ SocketDies(a) \/ DropChannel(a)
  \/ \E r \in Recoveries : \/ RecoveryStep(r)
                           \/ \E e \in Entries : ForwardLost(e, r)
                           \/ \E a \in Attempts : CallFails(a, r)
  \/ \E i \in Installs : \/ ProgramAsks(i)
                         \/ \E ok \in BOOLEAN : InstallSettles(i, ok)

(* In them an attempt that is in flight stays so.                            *)
LEMMA InFlightStays ==
  ASSUME IInv, Unsettling, NEW a \in Attempts, attempt[a].phase # "idle"
  PROVE  attempt'[a].phase # "idle"
<1>1. attempt \in [Attempts -> Attempt]
  BY DEF IInv, TypeOK
<1>2. ASSUME NEW b \in Attempts, NEW e \in Entries, Begin(e, b)
      PROVE  attempt'[a].phase # "idle"
  BY <1>1, <1>2 DEF Begin
<1>3. ASSUME NEW b \in Attempts, TransportOpens(b)
      PROVE  attempt'[a].phase # "idle"
  <2>1. \/ attempt'[a] = attempt[a]
        \/ attempt'[a] = [attempt[a] EXCEPT !.phase = "handshaking"]
    BY <1>1, <1>3 DEF TransportOpens
  <2>2. attempt[a] \in Attempt
    BY <1>1
  <2> QED BY <2>1, <2>2 DEF Attempt
<1>4. CASE \/ Disconnect \/ Dispose \/ TakeChannel \/ UNCHANGED vars
           \/ \E b \in Attempts : \/ ForwardDies(b) \/ SocketDies(b) \/ DropChannel(b)
           \/ \E r \in Recoveries : \/ RecoveryEnds(r) \/ RecoveryJoins(r)
                                    \/ \E e \in Entries : ForwardLost(e, r)
                                    \/ \E b \in Attempts : CallFails(b, r)
           \/ \E i \in Installs : \/ ProgramAsks(i)
                                  \/ \E ok \in BOOLEAN : InstallSettles(i, ok)
  BY <1>4 DEF Disconnect, Dispose, TakeChannel, vars, ForwardDies, SocketDies,
              DropChannel, RecoveryEnds, RecoveryJoins, ForwardLost, CallFails,
              ProgramAsks, InstallSettles
<1> QED BY <1>2, <1>3, <1>4 DEF Unsettling, Connect, RecoveryStep, RecoveryConnects

(* What the settling of an attempt leaves of the passes: each is of its      *)
(* type, and none waits for that attempt any more.                           *)
LEMMA PassResumedType ==
  ASSUME pass \in [Passes -> Pass], NEW a \in Attempts, NEW ready \in BOOLEAN
  PROVE  /\ PassResumed(a, ready) \in [Passes -> Pass]
         /\ \A p \in Passes :
              \/ PassResumed(a, ready)[p] = pass[p] /\ pass[p].on # a
              \/ /\ PassResumed(a, ready)[p].phase # "waiting"
                 /\ PassResumed(a, ready)[p].on = None
<1>1. IdlePass \in Pass /\ IdlePass.phase = "idle" /\ IdlePass.on = None
  BY PassAttemptsAssumption DEF IdlePass, Pass
<1>2. ASSUME NEW p \in Passes, ~ready, pass[p].round # PassAttempts
      PROVE  [phase |-> "sleeping", round |-> pass[p].round + 1, on |-> None] \in Pass
  <2>1. pass[p].round \in 0 .. PassAttempts
    BY DEF Pass
  <2>2. pass[p].round + 1 \in 0 .. PassAttempts
    BY <1>2, <2>1, PassAttemptsAssumption
  <2> QED BY <2>2 DEF Pass
<1>3. \A p \in Passes : PassResumed(a, ready)[p] \in Pass
  BY <1>1, <1>2 DEF PassResumed
<1>4. PassResumed(a, ready) \in [Passes -> Pass]
  BY <1>3 DEF PassResumed
<1> QED BY <1>1, <1>4 DEF PassResumed

(* A pass that begins waits for an attempt that has begun with it.           *)
LEMMA PassBegunType ==
  ASSUME IInv, PassTypeOK, started' \in BOOLEAN,
         NEW p \in Passes, NEW e \in Entries, NEW a \in Attempts, Begin(e, a),
         NEW q, q \in Pass, q.on = a, pass' = [pass EXCEPT ![p] = q]
  PROVE  PassTypeOK'
<1>1. attempt \in [Attempts -> Attempt] /\ pass \in [Passes -> Pass]
  BY DEF IInv, TypeOK, PassTypeOK
<1>2. attempt'[a].phase = "opening" /\ \A b \in Attempts : b # a => attempt'[b] = attempt[b]
  BY <1>1 DEF Begin
<1>3. pass' \in [Passes -> Pass] /\ pass'[p] = q
        /\ \A o \in Passes : o # p => pass'[o] = pass[o]
  BY <1>1
<1>4. \A o \in Passes : pass[o].on \in Attempts \cup {None}
  BY <1>1 DEF Pass
<1> QED BY <1>2, <1>3, <1>4, NoneAssumption DEF PassTypeOK

(* The passes keep their shape, and one that waits waits for an attempt that *)
(* will still settle.                                                        *)
LEMMA NextPassType ==
  ASSUME PassInv, [PassNext]_allVars
  PROVE  PassTypeOK'
<1> USE DEF PassInv
<1>1. pass \in [Passes -> Pass] /\ started \in BOOLEAN
  BY DEF PassTypeOK
<1>2. \A p \in Passes : pass[p].on \in Attempts \cup {None}
  BY <1>1 DEF Pass
<1>3. ASSUME Unsettling, UNCHANGED pass, started' \in BOOLEAN
      PROVE  PassTypeOK'
  BY <1>2, <1>3, InFlightStays DEF PassTypeOK
<1>4. CASE Startup
  <2>1. CASE UNCHANGED <<vars, pass>>
    BY <1>3, <1>4, <2>1 DEF Startup, Unsettling
  <2>2. ASSUME NEW p \in Passes, NEW e \in Entries, NEW a \in Attempts,
               Begin(e, a), PassBegins(p, a)
        PROVE  PassTypeOK'
    <3>1. [phase |-> "waiting", round |-> 1, on |-> a] \in Pass
      BY PassAttemptsAssumption DEF Pass
    <3> QED BY <1>4, <2>2, <3>1, PassBegunType DEF Startup, PassBegins
  <2> QED BY <1>4, <2>1, <2>2 DEF Startup
<1>5. ASSUME NEW p \in Passes, FollowUp(p) PROVE PassTypeOK'
  <2>1. PICK a \in Attempts : Begin(current, a) /\ PassBegins(p, a)
    BY <1>5 DEF FollowUp
  <2>2. current \in Entries
    BY <1>5 DEF FollowUp, StateIs, IInv, TypeOK
  <2>3. [phase |-> "waiting", round |-> 1, on |-> a] \in Pass
    BY PassAttemptsAssumption DEF Pass
  <2> QED BY <1>1, <1>5, <2>1, <2>2, <2>3, PassBegunType DEF FollowUp, PassBegins
<1>6. ASSUME NEW p \in Passes, PassEnds(p) PROVE PassTypeOK'
  <2>1. IdlePass \in Pass /\ IdlePass.phase = "idle"
    BY PassAttemptsAssumption DEF IdlePass, Pass
  <2> QED BY <1>1, <1>6, <2>1 DEF PassEnds, PassTypeOK, vars
<1>7. ASSUME NEW p \in Passes, PassJoins(p) PROVE PassTypeOK'
  <2> DEFINE it == [pass[p] EXCEPT !.phase = "waiting", !.on = entry[current].pending]
  <2>1. current \in Entries
    BY <1>7 DEF PassJoins, IInv, TypeOK
  <2>2. entry[current].pending \in Attempts
    BY <1>7, <2>1 DEF PassJoins, IInv, TypeOK, Entry
  <2>3. attempt[entry[current].pending].phase # "idle"
    BY <1>7, <2>1 DEF PassJoins, IInv, Links, EntryLinks
  <2>4. it \in Pass /\ it.on = entry[current].pending
    BY <1>1, <2>2 DEF Pass
  <2>5. pass' = [pass EXCEPT ![p] = it] /\ UNCHANGED <<attempt, started>>
    BY <1>7 DEF PassJoins, vars
  <2> HIDE DEF it
  <2> QED BY <1>1, <2>2, <2>3, <2>4, <2>5, NoneAssumption DEF PassTypeOK
<1>8. ASSUME NEW p \in Passes, NEW a \in Attempts, PassConnects(p, a)
      PROVE  PassTypeOK'
  <2> DEFINE it == [pass[p] EXCEPT !.phase = "waiting", !.on = a]
  <2>1. PICK e \in Entries : EntryFor(e) /\ Begin(e, a)
    BY <1>8 DEF PassConnects
  <2>2. it \in Pass /\ it.on = a
    BY <1>1 DEF Pass
  <2>3. pass' = [pass EXCEPT ![p] = it] /\ UNCHANGED started
    BY <1>8 DEF PassConnects
  <2> HIDE DEF it
  <2> QED BY <1>1, <2>1, <2>2, <2>3, PassBegunType
<1>9. ASSUME NEW a \in Attempts, Succeeds(a) \/ Fails(a) PROVE PassTypeOK'
  <2>1. PICK ready \in BOOLEAN : pass' = PassResumed(a, ready)
    BY <1>9 DEF Succeeds, Fails
  <2>2. \A b \in Attempts : b # a => attempt'[b] = attempt[b]
    BY <1>9 DEF Succeeds, Fails, HandshakeSucceeds, AttemptFails, IInv, TypeOK
  <2>3. UNCHANGED started
    BY <1>9 DEF Succeeds, Fails
  <2> QED BY <1>1, <1>2, <2>1, <2>2, <2>3, PassResumedType, NoneAssumption DEF PassTypeOK
<1>10. ASSUME NEW a \in Attempts, Opens(a) PROVE PassTypeOK'
  BY <1>1, <1>3, <1>10 DEF Opens, Unsettling
<1>11. CASE Elsewhere
  BY <1>1, <1>3, <1>11 DEF Elsewhere, Unsettling
<1>12. CASE UNCHANGED allVars
  BY <1>1, <1>3, <1>12 DEF allVars, Unsettling
<1> QED BY <1>4, <1>5, <1>6, <1>7, <1>8, <1>9, <1>10, <1>11, <1>12
        DEF PassNext, PassStep

(* Until the startup pass is considered no step is possible but a stutter.   *)
LEMMA NextNothingBefore ==
  ASSUME PassInv, [PassNext]_allVars
  PROVE  NothingBefore'
<1> USE DEF PassInv
<1>1. started => started'
  BY DEF PassNext, Startup, FollowUp, PassStep, PassEnds, PassJoins, PassConnects,
         Opens, Succeeds, Fails, Elsewhere, allVars
<1>2. CASE started
  BY <1>1, <1>2 DEF NothingBefore
<1>3. CASE ~started
  <2>1. \A p \in Passes : ~FollowUp(p)
    BY <1>3 DEF FollowUp
  <2>2. \A p \in Passes : ~PassStep(p)
    BY <1>3 DEF PassStep, PassEnds, PassJoins, PassConnects, NothingBefore
  <2>3. \A a \in Attempts : ~Opens(a) /\ ~Succeeds(a) /\ ~Fails(a)
    BY <1>3 DEF Opens, Succeeds, Fails, TransportOpens, HandshakeSucceeds,
                AttemptFails, NothingBefore
  <2>4. CASE Startup
    BY <2>4 DEF Startup, NothingBefore
  <2>5. CASE UNCHANGED allVars
    BY <2>5 DEF allVars, vars, NothingBefore
  <2> QED BY <1>3, <2>1, <2>2, <2>3, <2>4, <2>5 DEF PassNext, Elsewhere
<1> QED BY <1>2, <1>3

(* The invariant of the manager and its passes together.                     *)
LEMMA PassInvariant == PassSpec => []PassInv
<1>1. PassInit => PassInv
  <2> SUFFICES ASSUME PassInit PROVE PassInv
    OBVIOUS
  <2>1. IInv
    BY InitIInv DEF PassInit
  <2>2. IdlePass \in Pass /\ IdlePass.phase = "idle"
    BY PassAttemptsAssumption DEF IdlePass, Pass
  <2>3. PassTypeOK
    BY <2>2 DEF PassInit, PassTypeOK
  <2>4. NothingBefore
    BY <2>2 DEF PassInit, Init, NothingBefore, IdleAttempt
  <2> QED BY <2>1, <2>3, <2>4 DEF PassInv
<1>2. PassInv /\ [PassNext]_allVars => PassInv'
  <2> SUFFICES ASSUME PassInv, [PassNext]_allVars PROVE PassInv'
    OBVIOUS
  <2>1. IInv'
    BY PassStepsAreManagers, NextIInv DEF PassInv
  <2> QED BY <2>1, NextPassType, NextNothingBefore DEF PassInv
<1> QED BY <1>1, <1>2, PTL DEF PassSpec

-----------------------------------------------------------------------------
(* The theorems about the passes *)

(* The passes add nothing to what the manager can do: whatever they attempt, *)
(* it is a behaviour of the manager alone, and every theorem about it holds  *)
(* beside any number of passes (autoconnect drives deps.connect only).       *)
THEOREM PassesDriveTheManager == PassSpec => Spec
<1>1. PassInit => Init
  BY DEF PassInit
<1>2. PassInv /\ [PassNext]_allVars => [Next]_vars
  BY PassStepsAreManagers DEF PassInv
<1> QED BY <1>1, <1>2, PassInvariant, PTL DEF PassSpec, Spec

(* A pass that waits waits for an attempt that will still settle: a clear    *)
(* that forgets `pending` never strands one (pass, clear).                   *)
THEOREM PassesWaitForTheLiving == PassSpec => []PassTypeOK
<1>1. PassInv => PassTypeOK
  BY DEF PassInv
<1> QED BY <1>1, PassInvariant, PTL

(* After the stop no pass begins a further attempt. And a machine that is    *)
(* disconnected while no attempt is in flight is brought back by nobody but  *)
(* a person in a step during which no pass is between two rounds, for any    *)
(* number of passes and rounds (autoconnect). A pass between two rounds is   *)
(* left out: its next round does attempt a machine disconnected meanwhile    *)
(* (autoconnect.ts 72-77).                                                   *)
THEOREM PassesKeepQuietHold == PassSpec => PassesKeepQuiet
<1> DEFINE Stopped == disposed => \A p \in Passes : pass'[p].on \in {None, pass[p].on}
           Down == /\ calm
                   /\ \A p \in Passes : pass[p].phase = "idle"
                   /\ current # None /\ current' = current
                   /\ entry[current].state = "disconnected"
                   => \/ entry'[current].state = "disconnected"
                      \/ Connect /\ UNCHANGED pass
<1>1. PassInv /\ [PassNext]_allVars => [Stopped]_allVars
  <2> SUFFICES ASSUME PassInv, PassNext, disposed, NEW p \in Passes
               PROVE  pass'[p].on \in {None, pass[p].on}
    BY DEF allVars
  <2>1. pass \in [Passes -> Pass] /\ started
    BY DEF PassInv, PassTypeOK, NothingBefore
  <2>2. ASSUME NEW q \in Passes, PassStep(q) PROVE pass'[p].on \in {None, pass[p].on}
    <3>1. pass' = [pass EXCEPT ![q] = IdlePass]
      BY <2>2 DEF PassStep, PassEnds, PassJoins, PassConnects
    <3> QED BY <2>1, <3>1 DEF IdlePass
  <2>3. ASSUME NEW a \in Attempts, Succeeds(a) \/ Fails(a)
        PROVE  pass'[p].on \in {None, pass[p].on}
    <3>1. PICK ready \in BOOLEAN : pass' = PassResumed(a, ready)
      BY <2>3 DEF Succeeds, Fails
    <3> QED BY <2>1, <3>1, PassResumedType
  <2> QED BY <2>1, <2>2, <2>3 DEF PassNext, Startup, FollowUp, Opens, Elsewhere
<1>2. PassInv /\ [PassNext]_allVars => [Down]_allVars
  <2> SUFFICES ASSUME PassInv, PassNext, calm,
                      \A p \in Passes : pass[p].phase = "idle",
                      current # None, current' = current,
                      entry[current].state = "disconnected"
               PROVE  \/ entry'[current].state = "disconnected"
                      \/ Connect /\ UNCHANGED pass
    BY DEF allVars
  <2>1. IInv /\ started /\ current \in Entries
    BY DEF PassInv, NothingBefore, IInv, TypeOK
  <2>2. \A p \in Passes : ~PassStep(p)
    BY DEF PassStep, PassEnds, PassJoins, PassConnects
  <2>3. ~Startup /\ \A p \in Passes : ~FollowUp(p)
    BY <2>1 DEF Startup, FollowUp, StateIs
  <2>4. ASSUME NEW a \in Attempts, Opens(a)
        PROVE  entry'[current].state = "disconnected"
    BY <2>1, <2>4, StateKept DEF Opens
  <2>5. ASSUME NEW a \in Attempts, Succeeds(a) \/ Fails(a)
        PROVE  entry'[current].state = "disconnected"
    BY <2>1, <2>5, StateSettled DEF Succeeds, Fails
  <2>6. CASE Elsewhere
    <3>1. [Next]_vars /\ UNCHANGED pass
      BY <2>6, PassStepsAreManagers DEF PassInv, Elsewhere
    <3> QED BY <2>1, <3>1, NextStaysDown DEF StaysDown
  <2> QED BY <2>2, <2>3, <2>4, <2>5, <2>6 DEF PassNext
<1>3. PassSpec => [][Stopped]_allVars
  BY <1>1, PassInvariant, PTL DEF PassSpec
<1>4. PassSpec => [][Down]_allVars
  BY <1>2, PassInvariant, PTL DEF PassSpec
<1>5. PassSpec => NoPassAfterStop
  BY <1>3 DEF NoPassAfterStop
<1>6. PassSpec => IdlePassesStayDown
  BY <1>4 DEF IdlePassesStayDown
<1> QED BY <1>5, <1>6 DEF PassesKeepQuiet

=============================================================================
