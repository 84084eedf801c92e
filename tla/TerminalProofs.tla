--------------------------- MODULE TerminalProofs ---------------------------
(***************************************************************************)
(* Proofs about TerminalRegistry and TerminalSockets, for any terminals,   *)
(* sinks, sessions, waits and resizes, any amount of output and any sizes  *)
(* of the ring buffer and of the typed-ahead input.                        *)
(***************************************************************************)
EXTENDS TerminalSockets, TLAPS

-----------------------------------------------------------------------------
(* The inductive invariant *)

\* What one entry says of itself.
Sound(x) ==
  /\ x \in Term
  /\ x.dropped = Larger(0, x.bytes - Cap)
  /\ ~x.table => x.attaches = {} /\ x.state = "exited"
  /\ x.timer => x.table /\ x.state = "detached" /\ x.attaches = {}
  /\ x.table /\ x.state = "exited" => x.attaches # {}
  /\ x.state = "detached" => x.attaches = {} /\ (x.paused => x.cut)
  /\ x.state = "running" /\ x.paused /\ ~x.cut => x.flying # {}
  /\ x.flying # {} => x.paused

TermsSound ==
  /\ term \in [Terminals -> Term]
  /\ \A t \in Terminals : Sound(term[t])

\* Ordinals are given out in order.
OrdinalsSound ==
  /\ nextOrdinal \in Terminals \cup {0}
  /\ \A t \in Terminals : term[t].table => t <= nextOrdinal

\* A wait that waits does so on a terminal that can still answer it.
WaitsSound == wait \in [Waits -> Wait] /\ NoWaitMissed /\
  \A w \in Waits : wait[w].phase = "waiting" => wait[w].of \in Terminals

\* Sinks were handed their terminal's output, in order.
HeardSound == heard \in [Sinks -> Heard] /\ HandedInOrder

\* A socket views no terminal while it opens one, and a terminal it has just
\* opened is its own and nobody views it.
OpensAlone ==
  \A k \in Sinks :
    /\ sock[k].opening = "spawned" <=> sock[k].spawned # None
    /\ sock[k].opening # "no" => sock[k].entryId = None
    /\ sock[k].entryId # None => sock[k].entryId <= nextOrdinal
    /\ sock[k].spawned # None =>
         /\ sock[k].spawned <= nextOrdinal
         /\ term[sock[k].spawned].attaches = {}
         /\ \A j \in Sinks : sock[j].spawned = sock[k].spawned => j = k

SocksSound ==
  /\ sock \in [Sinks -> Sock]
  /\ OpensAlone
  /\ ViewsAgree
  /\ NoOrphanShell
  /\ ExitedIsTold

TableSound ==
  /\ TermsSound
  /\ OrdinalsSound
  /\ WaitsSound
  /\ HeardSound
  /\ resizing \in [Resizes -> Resize]

SoundInv == TableSound /\ SocksSound
-----------------------------------------------------------------------------
(* One entry *)

(* Before it is registered an entry is sound.                                *)
LEMMA NoTermSound == Sound(NoTerm)
BY CapAssumption DEF Sound, Term, NoTerm, Larger

(* A killed entry is out of the table, and keeps only its last chunk.        *)
LEMMA KilledSound ==
  ASSUME NEW x, Sound(x)
  PROVE  LET y == Killed(x)
         IN  /\ Sound(y) /\ ~y.table /\ y.attaches = {} /\ y.state = "exited"
             /\ y.flying = x.flying
<1>1. NoTerm \in Term
  BY NoTermSound DEF Sound
<1>2. /\ Killed(x) \in Term /\ Killed(x).flying = x.flying
      /\ Killed(x).paused = x.paused /\ Killed(x).table = NoTerm.table
      /\ Killed(x).state = NoTerm.state /\ Killed(x).attaches = NoTerm.attaches
      /\ Killed(x).timer = NoTerm.timer /\ Killed(x).bytes = NoTerm.bytes
      /\ Killed(x).dropped = NoTerm.dropped
  BY <1>1 DEF Sound, Term, Killed
<1>3. /\ ~NoTerm.table /\ NoTerm.state = "exited" /\ NoTerm.attaches = {}
      /\ ~NoTerm.timer /\ NoTerm.dropped = Larger(0, NoTerm.bytes - Cap)
  BY CapAssumption DEF NoTerm, Larger
<1>4. x.flying # {} => x.paused
  BY DEF Sound
<1> QED BY <1>2, <1>3, <1>4 DEF Sound

(* A registered entry runs, and nobody views it.                             *)
LEMMA SpawnedSound ==
  ASSUME NEW s \in Sessions \cup {None}, NEW size \in Sizes \cup {None}
  PROVE  LET y == Spawned(s, size)
         IN  /\ Sound(y) /\ y.table /\ y.state = "running" /\ y.attaches = {}
             /\ y.flying = {}
<1>1. NoTerm \in Term
  BY NoTermSound DEF Sound
<1> DEFINE y == Spawned(s, size)
<1>2. /\ y \in Term /\ y.table /\ y.state = "running"
      /\ y.attaches = NoTerm.attaches /\ y.flying = NoTerm.flying
      /\ y.timer = NoTerm.timer /\ y.paused = NoTerm.paused
      /\ y.bytes = NoTerm.bytes /\ y.dropped = NoTerm.dropped
  BY <1>1 DEF Term, Spawned
<1>3. /\ NoTerm.attaches = {} /\ NoTerm.flying = {} /\ ~NoTerm.timer
      /\ ~NoTerm.paused /\ NoTerm.dropped = Larger(0, NoTerm.bytes - Cap)
  BY CapAssumption DEF NoTerm, Larger
<1> HIDE DEF y
<1>4. Sound(y)
  BY <1>2, <1>3 DEF Sound
<1> QED BY <1>2, <1>3, <1>4 DEF y

(* An entry that takes a sink on runs, and its valve is off.                 *)
LEMMA ViewedSound ==
  ASSUME NEW x, Sound(x), x.table, x.state # "exited", NEW k \in Sinks
  PROVE  LET y == Viewed(x, k)
         IN  /\ Sound(y) /\ y.table /\ y.state = "running"
             /\ y.attaches = x.attaches \cup {k} /\ y.flying = x.flying
             /\ y.bytes = x.bytes /\ y.dropped = x.dropped
BY DEF Sound, Term, Viewed

\* What detach leaves of an entry it does not kill.
LeftBy(x, k) ==
  LET left == [x EXCEPT !.attaches = @ \ {k}]
  IN  IF left.table /\ left.attaches = {} THEN Unwatched(left) ELSE left

(* An entry a sink leaves is detached with its last sink.                    *)
LEMMA LeftSound ==
  ASSUME NEW x, Sound(x), NEW k \in Sinks, k \in x.attaches,
         ~(x.attaches \ {k} = {} /\ x.state = "exited")
  PROVE  LET y == LeftBy(x, k)
         IN  /\ Sound(y) /\ y.table = x.table
             /\ y.attaches = x.attaches \ {k} /\ y.flying = x.flying
             /\ y.bytes = x.bytes /\ y.dropped = x.dropped
             /\ y.state = "exited" <=> x.state = "exited"
             /\ y.attaches = {} => y.state # "running"
<1>0. PICK left : left = [x EXCEPT !.attaches = @ \ {k}]
  OBVIOUS
<1>c. PICK y : y = LeftBy(x, k)
  OBVIOUS
<1>a. y = IF left.table /\ left.attaches = {} THEN Unwatched(left) ELSE left
  BY <1>0, <1>c DEF LeftBy
<1> SUFFICES /\ Sound(y) /\ y.table = x.table
             /\ y.attaches = x.attaches \ {k} /\ y.flying = x.flying
             /\ y.bytes = x.bytes /\ y.dropped = x.dropped
             /\ y.state = "exited" <=> x.state = "exited"
             /\ y.attaches = {} => y.state # "running"
  BY <1>c
<1>1. /\ left \in Term /\ left.table = x.table /\ left.attaches = x.attaches \ {k}
      /\ left.flying = x.flying /\ left.bytes = x.bytes /\ left.dropped = x.dropped
      /\ left.state = x.state /\ left.timer = x.timer /\ left.paused = x.paused
      /\ left.cut = x.cut
  BY <1>0 DEF Sound, Term
<1>2. x.table /\ ~x.timer /\ x.state # "detached"
  BY DEF Sound
<1>3. CASE left.attaches = {}
  <2>1. y = Unwatched(left) /\ left.state = "running"
    BY <1>a, <1>1, <1>2, <1>3 DEF Term
  <2>2. /\ y \in Term /\ y.table = left.table /\ y.attaches = left.attaches
        /\ y.flying = left.flying /\ y.bytes = left.bytes /\ y.dropped = left.dropped
        /\ y.state = "detached" /\ y.paused = left.paused
        /\ y.cut = (left.cut \/ left.flying # {})
    BY <1>1, <2>1, ValveAssumption DEF Unwatched, Term
  <2> QED BY <1>1, <1>2, <1>3, <2>1, <2>2 DEF Sound
<1>4. CASE left.attaches # {}
  BY <1>a, <1>1, <1>2, <1>4 DEF Sound
<1> QED BY <1>3, <1>4

(* An entry that has produced keeps its newest output.                       *)
LEMMA AppendedSound ==
  ASSUME NEW x, Sound(x), NEW n \in 1 .. MaxBytes, x.bytes + n <= MaxBytes
  PROVE  LET y == Appended(x, n)
         IN  /\ Sound(y) /\ y.table = x.table /\ y.state = x.state
             /\ y.attaches = x.attaches /\ y.flying = x.flying
             /\ y.paused = x.paused /\ y.bytes = x.bytes + n
<1>1. PICK b : b = x.bytes
  OBVIOUS
<1>2. PICK d : d = x.dropped
  OBVIOUS
<1>3. b \in 0 .. MaxBytes /\ d = Larger(0, b - Cap) /\ d \in 0 .. MaxBytes
  BY <1>1, <1>2 DEF Sound, Term
<1>4. Larger(d, b + n - Cap) = Larger(0, (b + n) - Cap)
  BY <1>1, <1>3, CapAssumption DEF Larger
<1>5. Larger(d, b + n - Cap) \in 0 .. MaxBytes /\ b + n \in 0 .. MaxBytes
  BY <1>1, <1>3, CapAssumption DEF Larger
<1>6. Appended(x, n) = [x EXCEPT !.bytes = b + n, !.dropped = Larger(d, b + n - Cap)]
  BY <1>1, <1>2 DEF Appended
<1> HIDE DEF Larger
<1> QED BY <1>4, <1>5, <1>6, <1>1 DEF Sound, Term

(* An entry that hands a chunk out is paused for it.                         *)
LEMMA HandingSound ==
  ASSUME NEW x, Sound(x), x.attaches # {}
  PROVE  LET y == Handing(x)
         IN  /\ Sound(y) /\ y.table = x.table /\ y.state = x.state
             /\ y.attaches = x.attaches /\ y.flying = x.attaches
             /\ y.bytes = x.bytes /\ y.dropped = x.dropped
BY DEF Sound, Term, Handing

(* An entry whose chunk one sink has taken waits for the others.             *)
LEMMA TakenBySound ==
  ASSUME NEW x, Sound(x), NEW k \in x.flying
  PROVE  LET y == TakenBy(x, k)
         IN  /\ Sound(y) /\ y.table = x.table /\ y.state = x.state
             /\ y.attaches = x.attaches /\ y.flying = x.flying \ {k}
             /\ y.bytes = x.bytes /\ y.dropped = x.dropped
<1>1. PICK p \in BOOLEAN : p = (x.paused /\ ~(x.flying = {k} /\ x.state = "running"))
  OBVIOUS
<1>2. TakenBy(x, k) = [x EXCEPT !.flying = x.flying \ {k}, !.paused = p]
  BY <1>1 DEF TakenBy
<1> DEFINE y == TakenBy(x, k)
<1>3. /\ y \in Term /\ y.flying = x.flying \ {k} /\ y.paused = p
      /\ y.table = x.table /\ y.state = x.state /\ y.attaches = x.attaches
      /\ y.timer = x.timer /\ y.cut = x.cut /\ y.bytes = x.bytes
      /\ y.dropped = x.dropped
  BY <1>2 DEF Sound, Term
<1>4. x.flying # {} /\ x.paused
  BY DEF Sound
<1>5. /\ y.paused => x.paused
      /\ y.state = "running" /\ y.paused => y.flying # {}
      /\ y.flying # {} => y.paused
  BY <1>1, <1>3, <1>4
<1> HIDE DEF y
<1>6. Sound(y)
  BY <1>3, <1>5 DEF Sound
<1> QED BY <1>3, <1>6 DEF y

(* An entry whose process ended stays for its viewers.                       *)
LEMMA ExitedSound ==
  ASSUME NEW x, Sound(x), x.table, x.attaches # {}
  PROVE  LET y == [x EXCEPT !.state = "exited"]
         IN  /\ Sound(y) /\ y.table /\ y.state = "exited"
             /\ y.attaches = x.attaches /\ y.flying = x.flying
             /\ y.bytes = x.bytes /\ y.dropped = x.dropped
BY DEF Sound, Term

(* The geometry has no part in what an entry says of itself.                 *)
LEMMA ResizedSound ==
  ASSUME NEW x, Sound(x), NEW size \in Sizes \cup {None},
         NEW y, y = [x EXCEPT !.pty = size] \/ y = [x EXCEPT !.size = size]
  PROVE  /\ Sound(y) /\ y.table = x.table /\ y.state = x.state
         /\ y.attaches = x.attaches /\ y.flying = x.flying
         /\ y.bytes = x.bytes /\ y.dropped = x.dropped
BY DEF Sound, Term
-----------------------------------------------------------------------------
(* The table's steps, for what each part of the invariant needs *)

(* A live entry is what the waits on it last saw.                            *)
Kept(t) == term[t].table /\ term[t].state # "exited" =>
             /\ term'[t].table /\ term'[t].state # "exited"
             /\ term'[t].bytes = term[t].bytes /\ term'[t].dropped = term[t].dropped

(* Who views an entry, and whether it is there to be viewed.                 *)
Same(t) == /\ term'[t].table = term[t].table /\ term'[t].state = term[t].state
           /\ term'[t].attaches = term[t].attaches

(* An entry out of the table, and of everybody's view.                       *)
Out(t) == ~term'[t].table /\ term'[t].attaches = {} /\ term'[t].state = "exited"

(* A pending wait misses nothing while the live entries stay what they are.  *)
LEMMA WaitsStay ==
  ASSUME WaitsSound, wait' = wait, \A t \in Terminals : Kept(t)
  PROVE  WaitsSound'
BY DEF WaitsSound, NoWaitMissed, Kept, Retains, Larger

(* A checked wait that goes on waiting has nothing to read.                  *)
LEMMA CheckedWaits ==
  ASSUME NEW u \in Wait, NEW x
  PROVE  LET v == Checked(u, x)
         IN  /\ v \in Wait
             /\ v.phase = "waiting" =>
                  v = u /\ x.state # "exited" /\ ~Retains(x, u.start, u.needle)
<1>1. NoWait \in Wait
  BY CapAssumption DEF NoWait, Wait
<1>2. /\ Answered("match") \in Wait /\ Answered("match").phase = "match"
      /\ Answered("exit") \in Wait /\ Answered("exit").phase = "exit"
  BY <1>1 DEF Answered, Wait
<1> QED BY <1>2 DEF Checked

(* Waking the waits on the terminals that changed is enough.                 *)
LEMMA WaitsNotified ==
  ASSUME WaitsSound, NEW ts, NEW now, Notify(ts, now),
         \A t \in Terminals : t \notin ts => Kept(t),
         \A t \in Terminals : t \in ts /\ now[t].state # "exited" =>
           /\ term'[t].table /\ term'[t].state # "exited"
           /\ term'[t].bytes = now[t].bytes /\ term'[t].dropped = now[t].dropped
  PROVE  WaitsSound'
<1>1. ASSUME NEW w \in Waits
      PROVE  /\ wait'[w] \in Wait
             /\ wait'[w].phase = "waiting" =>
                  /\ wait'[w].of \in Terminals
                  /\ LET x == term'[wait'[w].of]
                     IN  /\ x.table /\ x.state # "exited"
                         /\ ~Retains(x, wait'[w].start, wait'[w].needle)
  <2>1. wait[w] \in Wait
    BY DEF WaitsSound
  <2>2. CASE Awaits(w, ts)
    <3>1. PICK t : t = wait[w].of
      OBVIOUS
    <3>2. t \in Terminals /\ t \in ts
      BY <2>2, <3>1 DEF WaitsSound, Awaits
    <3>3. wait'[w] = Checked(wait[w], now[t])
      BY <2>2, <3>1 DEF Notify
    <3>4. /\ wait'[w] \in Wait
          /\ wait'[w].phase = "waiting" =>
               /\ wait'[w] = wait[w] /\ now[t].state # "exited"
               /\ ~Retains(now[t], wait[w].start, wait[w].needle)
      BY <2>1, <3>3, CheckedWaits
    <3> QED BY <3>1, <3>2, <3>4 DEF Retains
  <2>3. CASE ~Awaits(w, ts)
    <3>1. wait'[w] = wait[w]
      BY <2>3 DEF Notify
    <3> QED BY <2>1, <2>3, <3>1 DEF WaitsSound, NoWaitMissed, Awaits, Kept, Retains
  <2> QED BY <2>2, <2>3
<1>2. wait' \in [Waits -> Wait]
  BY <1>1 DEF Notify
<1> QED BY <1>1, <1>2 DEF WaitsSound, NoWaitMissed

(* What the sinks were handed stays whole while nothing arrives.             *)
LEMMA HeardStays ==
  ASSUME HeardSound, heard' = heard,
         \A t \in Terminals : /\ term'[t].attaches \subseteq term[t].attaches
                              /\ term'[t].attaches # {} => term'[t].bytes = term[t].bytes
  PROVE  HeardSound'
BY DEF HeardSound, HandedInOrder

(* Killing leaves nothing of the terminals but the chunks being taken, tells *)
(* the waits on them, and touches no other.                                  *)
LEMMA KillEffect ==
  ASSUME TermsSound, NEW ts, Kill(ts)
  PROVE  /\ TermsSound'
         /\ \A t \in Terminals : Out(t) \/ (t \notin ts /\ term'[t] = term[t])
         /\ \A t \in ts \cap Terminals : Out(t)
         /\ WaitsSound => WaitsSound'
<1> DEFINE gone == {t \in ts : term[t].table}
<1>1. ASSUME NEW t \in Terminals
      PROVE  /\ term'[t] = IF t \in gone THEN Killed(term[t]) ELSE term[t]
             /\ Sound(term'[t]) /\ term'[t] \in Term
             /\ t \in gone => Out(t)
             /\ t \in ts => Out(t)
             /\ t \notin gone => term'[t] = term[t]
  <2>1. Sound(term[t])
    BY DEF TermsSound
  <2>2. term'[t] = IF t \in gone THEN Killed(term[t]) ELSE term[t]
    BY DEF Kill
  <2>3. t \notin gone /\ t \in ts => ~term[t].table
    OBVIOUS
  <2> HIDE DEF gone
  <2>4. CASE t \in gone
    BY <2>1, <2>2, <2>4, KilledSound DEF Out, Sound
  <2>5. CASE t \notin gone
    BY <2>1, <2>2, <2>3, <2>5 DEF Out, Sound
  <2> QED BY <2>2, <2>4, <2>5
<1>2. term' = [t \in Terminals |-> term'[t]]
  BY DEF Kill
<1>3. TermsSound'
  BY <1>1, <1>2 DEF TermsSound
<1>4. ASSUME WaitsSound PROVE WaitsSound'
  <2> DEFINE now == [t \in Terminals |-> [term[t] EXCEPT !.state = "exited"]]
  <2>1. Notify(gone, now)
    BY DEF Kill
  <2>2. \A t \in Terminals : now[t].state = "exited"
    BY DEF TermsSound, Term
  <2> HIDE DEF now, gone
  <2>3. \A t \in Terminals : t \notin gone => Kept(t)
    BY <1>1 DEF Kept
  <2> QED BY <1>4, <2>1, <2>2, <2>3, WaitsNotified
<1> QED BY <1>1, <1>3, <1>4
(* A killed terminal leaves a sound table.                                   *)
LEMMA KillTable ==
  ASSUME TableSound, NEW ts, Kill(ts), UNCHANGED <<nextOrdinal, heard>>,
         resizing' \in [Resizes -> Resize]
  PROVE  TableSound'
<1>1. TermsSound' /\ WaitsSound'
  BY KillEffect DEF TableSound
<1>2. \A t \in Terminals : Out(t) \/ term'[t] = term[t]
  BY KillEffect DEF TableSound
<1>3. HeardSound'
  BY <1>2, HeardStays DEF TableSound, Out
<1>4. OrdinalsSound'
  BY <1>2 DEF TableSound, OrdinalsSound, Out
<1> QED BY <1>1, <1>3, <1>4 DEF TableSound

(* open registers one more terminal, and nobody views it yet.                *)
LEMMA OpenTable ==
  ASSUME TableSound, NEW s \in Sessions \cup {None}, NEW size \in Sizes \cup {None},
         Open(s, size)
  PROVE  LET n == nextOrdinal + 1
         IN  /\ TableSound'
             /\ n \in Terminals /\ ~term[n].table /\ term[n].attaches = {}
             /\ term'[n].table /\ term'[n].attaches = {}
             /\ term'[n].state = "running"
             /\ \A t \in Terminals : t # n => term'[t] = term[t]
<1> DEFINE n == nextOrdinal + 1
<1>1. /\ n \in Terminals /\ nextOrdinal' = n
      /\ term' = [term EXCEPT ![n] = Spawned(s, size)]
      /\ UNCHANGED <<heard, wait, resizing>>
  BY DEF Open
<1>2. nextOrdinal \in Nat /\ n \in Nat
  BY <1>1, TerminalsAssumption DEF TableSound, OrdinalsSound
<1>3. ~(n <= nextOrdinal)
  BY <1>2
<1>4. ~term[n].table
  BY <1>1, <1>3 DEF TableSound, OrdinalsSound
<1> HIDE DEF n
<1>5. Sound(term[n]) /\ term \in [Terminals -> Term]
  BY <1>1 DEF TableSound, TermsSound
<1>6. term[n].attaches = {} /\ term[n].state = "exited"
  BY <1>4, <1>5 DEF Sound
<1>7. /\ term'[n] = Spawned(s, size)
      /\ \A t \in Terminals : t # n => term'[t] = term[t]
  BY <1>1, <1>5
<1>8. /\ Sound(term'[n]) /\ term'[n].table /\ term'[n].attaches = {}
      /\ term'[n].state = "running"
  BY <1>7, SpawnedSound
<1>9. TermsSound'
  BY <1>1, <1>7, <1>8 DEF TableSound, TermsSound, Sound
<1>10. OrdinalsSound'
  <2> SUFFICES ASSUME NEW t \in Terminals, term'[t].table
               PROVE  t <= nextOrdinal'
    BY <1>1 DEF OrdinalsSound
  <2>1. t \in Nat
    BY TerminalsAssumption
  <2>2. t # n => t <= nextOrdinal
    BY <1>7 DEF TableSound, OrdinalsSound
  <2> QED BY <1>1, <1>2, <2>1, <2>2 DEF n
<1>11. WaitsSound'
  BY <1>1, <1>4, <1>7, WaitsStay DEF TableSound, Kept
<1>12. HeardSound'
  BY <1>1, <1>7, <1>8, HeardStays DEF TableSound
<1>13. TableSound'
  BY <1>1, <1>9, <1>10, <1>11, <1>12 DEF TableSound
<1> QED BY <1>1, <1>4, <1>6, <1>7, <1>8, <1>13 DEF n

(* attach gives one live terminal one more sink, which has been handed all   *)
(* that is retained.                                                         *)
LEMMA WatchedTable ==
  ASSUME TableSound, NEW t \in Terminals, NEW k \in Sinks, Watched(t, k),
         UNCHANGED <<nextOrdinal, wait>>, resizing' \in [Resizes -> Resize]
  PROVE  /\ TableSound'
         /\ \A u \in Terminals : k \notin term[u].attaches
         /\ term[t].table /\ term'[t].table /\ term'[t].state = "running"
         /\ term'[t].attaches = term[t].attaches \cup {k}
         /\ \A u \in Terminals : u # t => term'[u] = term[u]
         /\ \A j \in Sinks : j # k => heard'[j] = heard[j]
<1>1. /\ term[t].table /\ term[t].state # "exited"
      /\ \A u \in Terminals : k \notin term[u].attaches
      /\ term' = [term EXCEPT ![t] = Viewed(term[t], k)]
      /\ heard' = [heard EXCEPT ![k] = Replayed(t)]
  BY DEF Watched, Attachable, Fresh
<1>2. /\ Sound(term[t]) /\ term[t] \in Term /\ term \in [Terminals -> Term]
      /\ heard \in [Sinks -> Heard]
  BY DEF TableSound, TermsSound, HeardSound
<1>3. /\ term'[t] = Viewed(term[t], k)
      /\ \A u \in Terminals : u # t => term'[u] = term[u]
      /\ heard'[k] = Replayed(t)
      /\ \A j \in Sinks : j # k => heard'[j] = heard[j]
  BY <1>1, <1>2
<1>4. /\ Sound(term'[t]) /\ term'[t].table /\ term'[t].state = "running"
      /\ term'[t].attaches = term[t].attaches \cup {k}
      /\ term'[t].bytes = term[t].bytes /\ term'[t].dropped = term[t].dropped
  BY <1>1, <1>2, <1>3, ViewedSound
<1>5. TermsSound'
  BY <1>1, <1>3, <1>4 DEF TableSound, TermsSound, Sound
<1>6. OrdinalsSound'
  BY <1>1, <1>3 DEF TableSound, OrdinalsSound
<1>7. WaitsSound'
  BY <1>1, <1>3, <1>4, WaitsStay DEF TableSound, Kept
<1>8. HeardSound'
  <2>1. Replayed(t) \in Heard
    BY <1>2 DEF Replayed, Heard, Term
  <2>2. heard' \in [Sinks -> Heard]
    BY <1>1, <1>2, <2>1
  <2> SUFFICES ASSUME NEW u \in Terminals, NEW j \in term'[u].attaches
               PROVE  /\ heard'[j].of = u /\ heard'[j].whole
                      /\ heard'[j].upto = term'[u].bytes
    BY <2>2 DEF HeardSound, HandedInOrder
  <2>a. j \in Sinks
    BY <1>5 DEF TermsSound, Term
  <2>3. CASE j = k
    <3>1. u = t
      BY <1>1, <1>3, <2>3
    <3> QED BY <1>3, <1>4, <2>3, <3>1 DEF Replayed
  <2>4. CASE j # k
    BY <1>3, <1>4, <2>a, <2>4 DEF TableSound, HeardSound, HandedInOrder
  <2> QED BY <2>3, <2>4
<1>9. TableSound'
  BY <1>5, <1>6, <1>7, <1>8 DEF TableSound
<1> QED BY <1>1, <1>3, <1>4, <1>9

(* detach takes the sink from the terminal it views, and the terminal with   *)
(* it if it had exited and was viewed by no other.                           *)
LEMMA DetachTable ==
  ASSUME TableSound, NEW t \in Terminals, NEW k \in term[t].attaches, Detach(t, k)
  PROVE  /\ TableSound'
         /\ \A u \in Terminals : u # t => term'[u] = term[u]
         /\ \/ Out(t)
            \/ /\ term'[t].table = term[t].table
               /\ term'[t].attaches = term[t].attaches \ {k}
               /\ term'[t].state = "exited" <=> term[t].state = "exited"
               /\ term'[t].attaches = {} => term'[t].state # "running"
         /\ \A j \in Sinks : j # k => heard'[j] = heard[j]
         /\ \A u \in Terminals : k \notin term'[u].attaches
<1>1. /\ Sound(term[t]) /\ term[t] \in Term /\ term \in [Terminals -> Term]
      /\ heard \in [Sinks -> Heard]
  BY DEF TableSound, TermsSound, HeardSound
<1>2. k \in Sinks
  BY <1>1 DEF Term
<1>3. PICK left : left = [term[t] EXCEPT !.attaches = @ \ {k}]
  OBVIOUS
<1>4. /\ heard' = [heard EXCEPT ![k] = NoHeard] /\ UNCHANGED <<nextOrdinal, resizing>>
      /\ \/ left.table /\ left.attaches = {} /\ left.state = "exited" /\ Kill({t})
         \/ /\ ~(left.table /\ left.attaches = {} /\ left.state = "exited")
            /\ term' = [term EXCEPT ![t] = IF left.table /\ left.attaches = {}
                                             THEN Unwatched(left) ELSE left]
            /\ UNCHANGED wait
  BY <1>3 DEF Detach
<1>5. \A j \in Sinks : j # k => heard'[j] = heard[j]
  BY <1>1, <1>4
<1>6. \A u \in Terminals : u # t => k \notin term[u].attaches
  BY DEF TableSound, HeardSound, HandedInOrder
<1>7. NoHeard \in Heard
  BY CapAssumption DEF NoHeard, Heard
<1>8. /\ TermsSound' /\ WaitsSound'
      /\ \A u \in Terminals : u # t => term'[u] = term[u]
      /\ \/ Out(t)
         \/ /\ term'[t].table = term[t].table
            /\ term'[t].attaches = term[t].attaches \ {k}
            /\ term'[t].bytes = term[t].bytes
            /\ term'[t].state = "exited" <=> term[t].state = "exited"
            /\ term'[t].attaches = {} => term'[t].state # "running"
  <2>1. CASE Kill({t})
    <3>1. TermsSound' /\ WaitsSound'
      BY <2>1, KillEffect DEF TableSound
    <3>2. Out(t) /\ \A u \in Terminals : u # t => term'[u] = term[u] \/ Out(u)
      BY <2>1, KillEffect DEF TableSound
    <3>3. \A u \in Terminals : u # t => term'[u] = term[u]
      BY <2>1 DEF Kill
    <3> QED BY <3>1, <3>2, <3>3
  <2>2. CASE ~(left.table /\ left.attaches = {} /\ left.state = "exited")
    <3> DEFINE y == LeftBy(term[t], k)
    <3>1. ~(term[t].attaches \ {k} = {} /\ term[t].state = "exited")
      BY <1>1, <1>3, <2>2 DEF Sound, Term
    <3>2. term' = [term EXCEPT ![t] = y] /\ UNCHANGED wait
      BY <1>3, <1>4, <2>2 DEF LeftBy
    <3> HIDE DEF y
    <3>3. /\ Sound(y) /\ y.table = term[t].table
          /\ y.attaches = term[t].attaches \ {k}
          /\ y.bytes = term[t].bytes /\ y.dropped = term[t].dropped
          /\ y.state = "exited" <=> term[t].state = "exited"
          /\ y.attaches = {} => y.state # "running"
      BY <1>1, <1>2, <3>1, LeftSound DEF y
    <3>4. /\ term'[t] = y
          /\ \A u \in Terminals : u # t => term'[u] = term[u]
      BY <1>1, <3>2
    <3>5. TermsSound'
      BY <3>2, <3>3, <3>4 DEF TableSound, TermsSound, Sound
    <3>6. WaitsSound'
      BY <3>2, <3>3, <3>4, WaitsStay DEF TableSound, Kept
    <3> QED BY <3>3, <3>4, <3>5, <3>6
  <2> QED BY <1>4, <2>1, <2>2
<1>9. OrdinalsSound'
  BY <1>4, <1>8 DEF TableSound, OrdinalsSound, Out
<1>10. \A u \in Terminals : k \notin term'[u].attaches
  BY <1>6, <1>8 DEF Out
<1>11. HeardSound'
  <2>1. heard' \in [Sinks -> Heard]
    BY <1>1, <1>2, <1>4, <1>7
  <2> SUFFICES ASSUME NEW u \in Terminals, NEW j \in term'[u].attaches
               PROVE  /\ heard'[j].of = u /\ heard'[j].whole
                      /\ heard'[j].upto = term'[u].bytes
    BY <2>1 DEF HeardSound, HandedInOrder
  <2>a. j \in Sinks
    BY <1>8 DEF TermsSound, Term
  <2>2. j # k /\ heard'[j] = heard[j]
    BY <1>5, <1>10, <2>a
  <2>3. j \in term[u].attaches /\ term'[u].bytes = term[u].bytes
    BY <1>8 DEF Out
  <2> QED BY <2>2, <2>3 DEF TableSound, HeardSound, HandedInOrder
<1>12. TableSound'
  BY <1>4, <1>8, <1>9, <1>11 DEF TableSound
<1> QED BY <1>5, <1>8, <1>10, <1>12
(* A data event: the entry keeps its newest output, the waits on it check    *)
(* it, and each sink has been handed the chunk after what it had.            *)
LEMMA DataTable ==
  ASSUME TableSound, NEW t \in Terminals, NEW n \in 1 .. MaxBytes, Data(t, n)
  PROVE  /\ TableSound'
         /\ \A u \in Terminals : Same(u)
         /\ \A j \in Sinks : heard'[j].told = heard[j].told
<1>1. /\ Sound(term[t]) /\ term[t] \in Term /\ term \in [Terminals -> Term]
      /\ heard \in [Sinks -> Heard]
  BY DEF TableSound, TermsSound, HeardSound
<1>2. PICK x : x = Appended(term[t], n)
  OBVIOUS
<1>3. PICK y : y = IF x.attaches = {} THEN x ELSE Handing(x)
  OBVIOUS
<1>4. /\ term[t].table /\ term[t].bytes + n <= MaxBytes
      /\ term' = [term EXCEPT ![t] = y]
      /\ Notify({t}, term') /\ heard' = Delivered(t, term[t], n)
      /\ UNCHANGED <<nextOrdinal, resizing>>
  BY <1>2, <1>3 DEF Data
<1>5. /\ Sound(x) /\ x.table = term[t].table /\ x.state = term[t].state
      /\ x.attaches = term[t].attaches /\ x.bytes = term[t].bytes + n
  BY <1>1, <1>2, <1>4, AppendedSound
<1>6. /\ Sound(y) /\ y.table = term[t].table /\ y.state = term[t].state
      /\ y.attaches = term[t].attaches /\ y.bytes = term[t].bytes + n
  BY <1>3, <1>5, HandingSound
<1>7. term'[t] = y /\ \A u \in Terminals : u # t => term'[u] = term[u]
  BY <1>1, <1>4
<1>8. \A u \in Terminals : Same(u)
  BY <1>6, <1>7 DEF Same
<1>9. TermsSound'
  BY <1>4, <1>6, <1>7 DEF TableSound, TermsSound, Sound
<1>10. OrdinalsSound'
  BY <1>4, <1>8 DEF TableSound, OrdinalsSound, Same
<1>11. WaitsSound'
  <2>2. \A u \in Terminals : u # t => Kept(u)
    BY <1>7 DEF Kept
  <2>3. \A u \in Terminals : u \in {t} /\ term'[u].state # "exited" => term'[u].table
    BY <1>4, <1>6, <1>7
  <2>4. PICK now : now = term'
    OBVIOUS
  <2>5. Notify({t}, now)
    BY <1>4, <2>4
  <2> QED BY <2>2, <2>3, <2>4, <2>5, WaitsNotified DEF TableSound
<1>12. ASSUME NEW j \in Sinks
       PROVE  /\ heard'[j] \in Heard
              /\ heard'[j].told = heard[j].told /\ heard'[j].of = heard[j].of
              /\ j \notin term[t].attaches => heard'[j] = heard[j]
              /\ j \in term[t].attaches =>
                   /\ heard'[j].upto = term[t].bytes + n
                   /\ heard'[j].whole = (heard[j].whole /\ heard[j].upto = term[t].bytes)
  <2>1. heard[j] \in Heard /\ term[t].bytes \in 0 .. MaxBytes
    BY <1>1 DEF Term
  <2>2. term[t].bytes + n \in 0 .. MaxBytes
    BY <1>4, <2>1, CapAssumption
  <2>3. CASE j \in term[t].attaches
    <3>1. PICK b \in BOOLEAN : b = (heard[j].whole /\ heard[j].upto = term[t].bytes)
      OBVIOUS
    <3>2. heard'[j] = [heard[j] EXCEPT !.upto = term[t].bytes + n, !.whole = b]
      BY <1>4, <2>3, <3>1 DEF Delivered
    <3>3. /\ heard'[j] \in Heard /\ heard'[j].of = heard[j].of
          /\ heard'[j].told = heard[j].told /\ heard'[j].whole = b
          /\ heard'[j].upto = term[t].bytes + n
      BY <2>1, <2>2, <3>2 DEF Heard
    <3> QED BY <2>3, <3>1, <3>3
  <2>4. CASE j \notin term[t].attaches
    BY <1>4, <2>1, <2>4 DEF Delivered
  <2> QED BY <2>3, <2>4
<1>13. HeardSound'
  <2>1. heard' \in [Sinks -> Heard]
    BY <1>4, <1>12 DEF Delivered
  <2> SUFFICES ASSUME NEW u \in Terminals, NEW j \in term'[u].attaches
               PROVE  /\ heard'[j].of = u /\ heard'[j].whole
                      /\ heard'[j].upto = term'[u].bytes
    BY <2>1 DEF HeardSound, HandedInOrder
  <2>2. j \in Sinks /\ j \in term[u].attaches
    BY <1>1, <1>8 DEF Same, Term
  <2>3. heard[j].of = u /\ heard[j].whole /\ heard[j].upto = term[u].bytes
    BY <2>2 DEF TableSound, HeardSound, HandedInOrder
  <2>4. CASE u = t
    BY <1>6, <1>7, <1>12, <2>2, <2>3, <2>4
  <2>5. CASE u # t
    <3>1. j \notin term[t].attaches
      BY <2>3, <2>5 DEF TableSound, HeardSound, HandedInOrder
    <3> QED BY <1>7, <1>12, <2>2, <2>3, <2>5, <3>1
  <2> QED BY <2>4, <2>5
<1>14. TableSound'
  BY <1>4, <1>9, <1>10, <1>11, <1>13 DEF TableSound
<1> QED BY <1>8, <1>12, <1>14

(* A step that changes one entry in no way the others see.                   *)
LEMMA EntryTable ==
  ASSUME TableSound, NEW t \in Terminals, NEW y, term' = [term EXCEPT ![t] = y],
         Sound(y), y.table = term[t].table, y.state = term[t].state,
         y.attaches = term[t].attaches, y.bytes = term[t].bytes,
         y.dropped = term[t].dropped,
         UNCHANGED <<nextOrdinal, heard, wait>>, resizing' \in [Resizes -> Resize]
  PROVE  TableSound' /\ \A u \in Terminals : Same(u)
<1>1. /\ term'[t] = y
      /\ \A u \in Terminals : u # t => term'[u] = term[u]
  BY DEF TableSound, TermsSound
<1>2. \A u \in Terminals : Same(u)
  BY <1>1 DEF Same
<1>3. TermsSound'
  BY <1>1 DEF TableSound, TermsSound, Sound
<1>4. OrdinalsSound'
  BY <1>2 DEF TableSound, OrdinalsSound, Same
<1>5. WaitsSound'
  BY <1>1, WaitsStay DEF TableSound, Kept
<1>6. HeardSound'
  BY <1>1, HeardStays DEF TableSound
<1> QED BY <1>2, <1>3, <1>4, <1>5, <1>6 DEF TableSound

(* A sink takes its chunk.                                                   *)
LEMMA TakenTable ==
  ASSUME TableSound, NEW t \in Terminals, NEW k \in Sinks, Taken(t, k)
  PROVE  TableSound' /\ \A u \in Terminals : Same(u)
<1>1. Sound(term[t]) /\ resizing \in [Resizes -> Resize]
  BY DEF TableSound, TermsSound
<1>2. PICK y : y = TakenBy(term[t], k)
  OBVIOUS
<1>3. /\ k \in term[t].flying /\ term' = [term EXCEPT ![t] = y]
      /\ UNCHANGED <<nextOrdinal, heard, wait, resizing>>
  BY <1>2 DEF Taken
<1>4. /\ Sound(y) /\ y.table = term[t].table /\ y.state = term[t].state
      /\ y.attaches = term[t].attaches /\ y.bytes = term[t].bytes
      /\ y.dropped = term[t].dropped
  BY <1>1, <1>2, <1>3, TakenBySound
<1> QED BY <1>1, <1>3, <1>4, EntryTable

(* A resize is asked for.                                                    *)
LEMMA AskTyped ==
  ASSUME TableSound, NEW c \in Resizes, NEW t \in Terminals, NEW size \in Sizes,
         AskResize(c, t, size)
  PROVE  resizing' \in [Resizes -> Resize]
BY DEF AskResize, TableSound, Resize

(* The provider answers a resize, or the registry adopts it.                 *)
LEMMA ResizeTable ==
  ASSUME TableSound, NEW c \in Resizes, ResizeStep(c)
  PROVE  /\ TableSound' /\ UNCHANGED <<nextOrdinal, heard>>
         /\ \A u \in Terminals : Same(u)
<1>1. resizing \in [Resizes -> Resize] /\ resizing[c] \in Resize
  BY DEF TableSound
<1>2. UNCHANGED <<nextOrdinal, heard, wait>>
  BY DEF ResizeStep, ProviderResizes, ResizeAnswered
<1>3. NoResize \in Resize /\ [NoResize EXCEPT !.phase = "refused"] \in Resize
  BY DEF NoResize, Resize
<1>4. resizing' \in [Resizes -> Resize]
  <2>1. ASSUME NEW ok \in BOOLEAN, ProviderResizes(c, ok)
        PROVE  resizing' \in [Resizes -> Resize]
    <3>1. [resizing[c] EXCEPT !.phase = "accepted"] \in Resize
      BY <1>1 DEF Resize
    <3> QED BY <1>1, <1>3, <2>1, <3>1 DEF ProviderResizes
  <2>2. ASSUME ResizeAnswered(c)
        PROVE  resizing' \in [Resizes -> Resize]
    BY <1>1, <1>3, <2>2 DEF ResizeAnswered
  <2> QED BY <2>1, <2>2 DEF ResizeStep
<1>5. PICK t : t = resizing[c].of
  OBVIOUS
<1>6. PICK size : size = resizing[c].size
  OBVIOUS
<1>7. size \in Sizes \cup {None}
  BY <1>1, <1>6 DEF Resize
<1>8. \/ term' = term
      \/ /\ term[t].table
         /\ \/ term' = [term EXCEPT ![t] = [@ EXCEPT !.pty = size]]
            \/ term' = [term EXCEPT ![t] = [@ EXCEPT !.size = size]]
  BY <1>5, <1>6 DEF ResizeStep, ProviderResizes, ResizeAnswered
<1>9. CASE term' = term \/ t \notin Terminals
  <2>1. term' = term
    BY <1>8, <1>9 DEF TableSound, TermsSound
  <2> QED BY <1>2, <1>4, <2>1
       DEF TableSound, TermsSound, OrdinalsSound, WaitsSound, NoWaitMissed, HeardSound,
           HandedInOrder, Same
<1>10. CASE term' # term /\ t \in Terminals
  <2>1. PICK y : /\ y = [term[t] EXCEPT !.pty = size] \/ y = [term[t] EXCEPT !.size = size]
                 /\ term' = [term EXCEPT ![t] = y]
    BY <1>8, <1>10 DEF TableSound, TermsSound
  <2>2. Sound(term[t])
    BY <1>10 DEF TableSound, TermsSound
  <2>3. /\ Sound(y) /\ y.table = term[t].table /\ y.state = term[t].state
        /\ y.attaches = term[t].attaches /\ y.bytes = term[t].bytes
        /\ y.dropped = term[t].dropped
    BY <1>7, <2>1, <2>2, ResizedSound
  <2> QED BY <1>2, <1>4, <1>10, <2>1, <2>3, EntryTable
<1> QED BY <1>2, <1>9, <1>10
(* The process ends: the viewers are told, and an entry nobody views goes.   *)
LEMMA ExitTable ==
  ASSUME TableSound, NEW t \in Terminals, Exit(t)
  PROVE  /\ TableSound' /\ UNCHANGED nextOrdinal
         /\ \A u \in Terminals : u # t => term'[u] = term[u]
         /\ \/ term[t].attaches = {} /\ Out(t)
            \/ /\ term'[t].table /\ term'[t].state = "exited"
               /\ term'[t].attaches = term[t].attaches
         /\ \A j \in Sinks : heard[j].told => heard'[j].told
         /\ \A j \in term[t].attaches : heard'[j].told
<1>1. /\ Sound(term[t]) /\ term[t] \in Term /\ term \in [Terminals -> Term]
      /\ heard \in [Sinks -> Heard]
  BY DEF TableSound, TermsSound, HeardSound
<1>2. /\ term[t].table /\ term[t].state # "exited"
      /\ heard' = [j \in Sinks |-> IF j \in term[t].attaches
                                     THEN [heard[j] EXCEPT !.told = TRUE] ELSE heard[j]]
      /\ UNCHANGED <<nextOrdinal, resizing>>
  BY DEF Exit, Attachable
<1>3. ASSUME NEW j \in Sinks
      PROVE  /\ heard'[j] \in Heard
             /\ heard'[j].of = heard[j].of /\ heard'[j].upto = heard[j].upto
             /\ heard'[j].whole = heard[j].whole
             /\ heard[j].told => heard'[j].told
             /\ j \in term[t].attaches => heard'[j].told
  <2>1. heard[j] \in Heard
    BY <1>1
  <2>2. CASE j \in term[t].attaches
    <3>1. heard'[j] = [heard[j] EXCEPT !.told = TRUE]
      BY <1>2, <2>2
    <3> QED BY <2>1, <3>1 DEF Heard
  <2>3. CASE j \notin term[t].attaches
    BY <1>2, <2>1, <2>3
  <2> QED BY <2>2, <2>3
<1>4. /\ TermsSound' /\ WaitsSound'
      /\ \A u \in Terminals : u # t => term'[u] = term[u]
      /\ \/ term[t].attaches = {} /\ Out(t)
         \/ /\ term'[t].table /\ term'[t].state = "exited"
            /\ term'[t].attaches = term[t].attaches /\ term'[t].bytes = term[t].bytes
  <2>1. CASE term[t].attaches = {}
    <3>1. Kill({t})
      BY <2>1 DEF Exit
    <3>2. TermsSound' /\ WaitsSound' /\ Out(t)
      BY <3>1, KillEffect DEF TableSound
    <3>3. \A u \in Terminals : u # t => term'[u] = term[u]
      BY <3>1 DEF Kill
    <3> QED BY <2>1, <3>2, <3>3
  <2>2. CASE term[t].attaches # {}
    <3>1. PICK x : x = [term[t] EXCEPT !.state = "exited"]
      OBVIOUS
    <3>2. term' = [term EXCEPT ![t] = x] /\ Notify({t}, term')
      BY <2>2, <3>1 DEF Exit
    <3>3. /\ Sound(x) /\ x.table /\ x.state = "exited"
          /\ x.attaches = term[t].attaches /\ x.bytes = term[t].bytes
      BY <1>1, <1>2, <2>2, <3>1, ExitedSound
    <3>4. term'[t] = x /\ \A u \in Terminals : u # t => term'[u] = term[u]
      BY <1>1, <3>2
    <3>5. TermsSound'
      BY <3>2, <3>3, <3>4 DEF TableSound, TermsSound, Sound
    <3>6. \A u \in Terminals : u # t => Kept(u)
      BY <3>4 DEF Kept
    <3>7. PICK now : now = term'
      OBVIOUS
    <3>8. Notify({t}, now)
      BY <3>2, <3>7
    <3>9. \A u \in Terminals : u \in {t} => now[u].state = "exited"
      BY <3>3, <3>4, <3>7
    <3>10. WaitsSound'
      BY <3>6, <3>8, <3>9, WaitsNotified DEF TableSound
    <3> QED BY <3>3, <3>4, <3>5, <3>10
  <2> QED BY <2>1, <2>2
<1>5. OrdinalsSound'
  BY <1>2, <1>4 DEF TableSound, OrdinalsSound, Out
<1>6. HeardSound'
  <2>1. heard' \in [Sinks -> Heard]
    BY <1>2, <1>3
  <2> SUFFICES ASSUME NEW u \in Terminals, NEW j \in term'[u].attaches
               PROVE  /\ heard'[j].of = u /\ heard'[j].whole
                      /\ heard'[j].upto = term'[u].bytes
    BY <2>1 DEF HeardSound, HandedInOrder
  <2>2. j \in Sinks /\ j \in term[u].attaches /\ term'[u].bytes = term[u].bytes
    BY <1>1, <1>4 DEF Out, Term
  <2> QED BY <1>3, <2>2 DEF TableSound, HeardSound, HandedInOrder
<1>7. TableSound'
  BY <1>2, <1>4, <1>5, <1>6 DEF TableSound
<1>8. term[t].attaches \subseteq Sinks
  BY <1>1 DEF Term
<1> QED BY <1>2, <1>3, <1>4, <1>7, <1>8

(* The tool's steps: a wait begins with what is retained, and ends.          *)
LEMMA ToolTable ==
  ASSUME TableSound, NEW w \in Waits, ToolStep(w)
  PROVE  /\ TableSound' /\ UNCHANGED <<term, nextOrdinal, heard>>
<1>1. UNCHANGED <<term, nextOrdinal, heard, resizing>>
  BY DEF ToolStep, WaitBegins, WaitStops, WaitAnswered
<1>2. wait \in [Waits -> Wait] /\ NoWait \in Wait
  BY CapAssumption DEF TableSound, WaitsSound, NoWait, Wait
<1>3. PICK v : wait' = [wait EXCEPT ![w] = v] /\
              \/ v \in Wait /\ v.phase # "waiting"
              \/ /\ v \in Wait /\ v.of \in Terminals
                 /\ term[v.of].table /\ term[v.of].state # "exited"
                 /\ ~Retains(term[v.of], v.start, v.needle)
  <2>1. ASSUME NEW t \in Terminals, NEW given \in BOOLEAN, WaitBegins(w, t, given)
        PROVE  \E v : wait' = [wait EXCEPT ![w] = v] /\
                 \/ v \in Wait /\ v.phase # "waiting"
                 \/ /\ v \in Wait /\ v.of \in Terminals
                    /\ term[v.of].table /\ term[v.of].state # "exited"
                    /\ ~Retains(term[v.of], v.start, v.needle)
    <3>1. /\ term[t].table /\ term[t] \in Term
          /\ term[t].bytes \in 0 .. MaxBytes /\ term[t].dropped \in 0 .. MaxBytes
      BY <2>1 DEF WaitBegins, TableSound, TermsSound, Term
    <3>2. PICK needle \in 0 .. MaxBytes, offset \in 0 .. term[t].bytes :
            wait' = [wait EXCEPT ![w] =
                      Checked([phase |-> "waiting", of |-> t,
                               start |-> IF given THEN offset ELSE RetainedStart(term[t]),
                               needle |-> needle], term[t])]
      BY <2>1 DEF WaitBegins
    <3>3. PICK start : start = IF given THEN offset ELSE RetainedStart(term[t])
      OBVIOUS
    <3>4. start \in 0 .. MaxBytes
      BY <3>1, <3>3, CapAssumption DEF RetainedStart, Larger
    <3>5. PICK u : u = [phase |-> "waiting", of |-> t, start |-> start, needle |-> needle]
      OBVIOUS
    <3>6. u \in Wait /\ u.of = t
      BY <3>4, <3>5 DEF Wait
    <3>7. PICK v : v = Checked(u, term[t])
      OBVIOUS
    <3>8. wait' = [wait EXCEPT ![w] = v]
      BY <3>2, <3>3, <3>5, <3>7
    <3>9. /\ v \in Wait
          /\ v.phase = "waiting" => /\ v = u /\ term[t].state # "exited"
                                    /\ ~Retains(term[t], u.start, u.needle)
      BY <3>6, <3>7, CheckedWaits
    <3> QED BY <3>1, <3>6, <3>8, <3>9
  <2>2. ASSUME NEW reason \in {"timeout", "aborted"}, WaitStops(w, reason)
        PROVE  \E v : wait' = [wait EXCEPT ![w] = v] /\ v \in Wait /\ v.phase # "waiting"
    <3>1. Answered(reason) \in Wait /\ Answered(reason).phase # "waiting"
      BY <1>2 DEF Answered, Wait
    <3> QED BY <2>2, <3>1 DEF WaitStops
  <2>3. ASSUME WaitAnswered(w)
        PROVE  \E v : wait' = [wait EXCEPT ![w] = v] /\ v \in Wait /\ v.phase # "waiting"
    <3>1. NoWait.phase # "waiting"
      BY DEF NoWait
    <3> QED BY <1>2, <2>3, <3>1 DEF WaitAnswered
  <2> QED BY <2>1, <2>2, <2>3 DEF ToolStep
<1>4. wait'[w] = v /\ \A o \in Waits : o # w => wait'[o] = wait[o]
  BY <1>2, <1>3
<1>5. wait' \in [Waits -> Wait]
  BY <1>2, <1>3
<1>6. WaitsSound'
  BY <1>1, <1>3, <1>4, <1>5 DEF TableSound, WaitsSound, NoWaitMissed, Retains
<1> QED BY <1>1, <1>6
     DEF TableSound, TermsSound, OrdinalsSound, HeardSound, HandedInOrder
-----------------------------------------------------------------------------
(* The sockets' steps *)

\* A socket's own fields, whatever the table does.
Apart(x) == /\ x \in Sock
            /\ x.opening = "spawned" <=> x.spawned # None
            /\ x.opening # "no" => x.entryId = None

(* The fresh socket and the one that is gone view nothing.                   *)
LEMMA NewSockApart ==
  /\ Apart(NewSock) /\ NewSock.state = "open"
  /\ NewSock.spawned = None /\ NewSock.entryId = None
  /\ Apart(Gone) /\ Gone.state = "closed"
  /\ Gone.spawned = None /\ Gone.entryId = None /\ Gone.opening = "no"
<1>1. DefaultSize \in Sizes
  BY SocketsAssumption DEF DefaultSize
<1> HIDE DEF DefaultSize
<1>2. /\ NewSock \in Sock /\ NewSock.state = "open" /\ NewSock.opening = "no"
      /\ NewSock.spawned = None /\ NewSock.entryId = None
  BY <1>1, SocketsAssumption DEF NewSock, Sock
<1>3. /\ Gone \in Sock /\ Gone.state = "closed" /\ Gone.opening = "no"
      /\ Gone.spawned = None /\ Gone.entryId = None
  BY <1>2 DEF Gone, Sock
<1> QED BY <1>2, <1>3 DEF Apart

(* A socket whose opening is over.                                           *)
LEMMA IdleApart ==
  ASSUME NEW x \in Sock, x.entryId = None
  PROVE  LET y == Idle(x)
         IN  /\ Apart(y) /\ y.state = x.state /\ y.opening = "no"
             /\ y.spawned = None /\ y.entryId = None
             /\ x.state # "closed" => y.requested = x.requested
<1>1. CASE x.state = "closed"
  BY <1>1, NewSockApart DEF Idle
<1>2. CASE x.state # "closed"
  <2>1. PICK y : y = [x EXCEPT !.opening = "no", !.session = None, !.asked = None,
                               !.spawned = None]
    OBVIOUS
  <2>2. Idle(x) = y
    BY <1>2, <2>1 DEF Idle
  <2>3. /\ y \in Sock /\ y.state = x.state /\ y.opening = "no"
        /\ y.spawned = None /\ y.entryId = None /\ y.requested = x.requested
    BY <2>1 DEF Sock
  <2> QED BY <2>2, <2>3 DEF Apart
<1> QED BY <1>1, <1>2

(* Terminals are told apart from nothing, and are ordinals.                  *)
LEMMA TerminalFacts == None \notin Terminals /\ Terminals \subseteq Nat
BY TerminalNoneAssumption, TerminalsAssumption

(* The sockets stay sound while the table keeps or drops its entries.        *)
LEMMA SocksHeld ==
  ASSUME SoundInv, UNCHANGED <<nextOrdinal, sock>>,
         \A u \in Terminals : Same(u) \/ Out(u),
         \A j \in Sinks : heard[j].told => heard'[j].told
  PROVE  SocksSound'
<1>1. /\ \A u \in Terminals : term[u].attaches \subseteq Sinks
      /\ sock \in [Sinks -> Sock]
  BY DEF SoundInv, TableSound, TermsSound, Term, SocksSound
<1>2. OpensAlone'
  <2>1. \A k \in Sinks : sock[k].spawned # None => sock[k].spawned \in Terminals
    BY <1>1 DEF Sock
  <2> QED BY <2>1 DEF SoundInv, SocksSound, OpensAlone, Same, Out
<1>3. ViewsAgree'
  BY DEF SoundInv, SocksSound, ViewsAgree, Same, Out
<1>4. NoOrphanShell'
  BY DEF SoundInv, SocksSound, NoOrphanShell, Unclaimed, Same, Out
<1>5. ExitedIsTold'
  BY <1>1 DEF SoundInv, SocksSound, ExitedIsTold, Same, Out
<1> QED BY <1>1, <1>2, <1>3, <1>4, <1>5 DEF SocksSound

(* A socket's step the table does not notice.                                *)
LEMMA SocketAlone ==
  ASSUME SoundInv, NEW k \in Sinks, NEW x, Apart(x), sock' = [sock EXCEPT ![k] = x],
         UNCHANGED <<nextOrdinal, heard>>, \A u \in Terminals : Same(u),
         x.spawned = sock[k].spawned,
         \/ x.state = sock[k].state /\ x.entryId = sock[k].entryId
         \/ x.entryId = None /\ \A u \in Terminals : k \notin term[u].attaches
  PROVE  SocksSound'
<1>1. /\ \A u \in Terminals : term[u].attaches \subseteq Sinks
      /\ sock \in [Sinks -> Sock] /\ x \in Sock
  BY DEF SoundInv, TableSound, TermsSound, Term, SocksSound, Apart
<1>2. sock'[k] = x /\ \A j \in Sinks : j # k => sock'[j] = sock[j]
  BY <1>1
<1>3. \A j \in Sinks : sock'[j].spawned = sock[j].spawned
  BY <1>2
<1>4. sock' \in [Sinks -> Sock]
  BY <1>1
<1>5. OpensAlone'
  <2>1. \A j \in Sinks : sock[j].spawned # None => sock[j].spawned \in Terminals
    BY <1>1 DEF Sock
  <2>2. \A j \in Sinks : sock'[j].entryId # None =>
           sock'[j].entryId = sock[j].entryId
    BY <1>2
  <2>3. ASSUME NEW j \in Sinks
        PROVE  /\ sock'[j].opening = "spawned" <=> sock'[j].spawned # None
               /\ sock'[j].opening # "no" => sock'[j].entryId = None
    <3>1. CASE j = k
      BY <1>2, <3>1 DEF Apart
    <3>2. CASE j # k
      BY <1>2, <3>2 DEF SoundInv, SocksSound, OpensAlone
    <3> QED BY <3>1, <3>2
  <2>4. ASSUME NEW j \in Sinks, sock'[j].spawned # None
        PROVE  /\ sock'[j].spawned <= nextOrdinal
               /\ term'[sock'[j].spawned].attaches = {}
               /\ \A i \in Sinks : sock'[i].spawned = sock'[j].spawned => i = j
    <3>1. PICK t : t = sock[j].spawned
      OBVIOUS
    <3>2. t = sock'[j].spawned /\ t \in Terminals /\ Same(t)
      BY <1>3, <2>1, <2>4, <3>1
    <3>3. /\ t <= nextOrdinal /\ term[t].attaches = {}
          /\ \A i \in Sinks : sock[i].spawned = t => i = j
      BY <2>4, <3>1, <3>2 DEF SoundInv, SocksSound, OpensAlone
    <3> QED BY <1>3, <3>2, <3>3 DEF Same
  <2>5. \A j \in Sinks : sock'[j].entryId # None => sock'[j].entryId <= nextOrdinal
    BY <2>2 DEF SoundInv, SocksSound, OpensAlone
  <2> QED BY <2>3, <2>4, <2>5 DEF OpensAlone
<1>6. ViewsAgree'
  BY <1>2, TerminalFacts DEF SoundInv, SocksSound, ViewsAgree, Same
<1>7. NoOrphanShell'
  BY <1>3 DEF SoundInv, SocksSound, NoOrphanShell, Unclaimed, Same
<1>8. ExitedIsTold'
  BY <1>1, <1>2 DEF SoundInv, SocksSound, ExitedIsTold, Same
<1> QED BY <1>4, <1>5, <1>6, <1>7, <1>8 DEF SocksSound
(* What the sockets' part of the invariant says of one socket.               *)
LEMMA SocketFacts ==
  ASSUME SoundInv, NEW k \in Sinks
  PROVE  /\ sock[k] \in Sock /\ sock \in [Sinks -> Sock]
         /\ sock[k].opening = "spawned" <=> sock[k].spawned # None
         /\ sock[k].opening # "no" => sock[k].entryId = None
         /\ sock[k].entryId = None => \A u \in Terminals : k \notin term[u].attaches
         /\ sock[k].spawned # None =>
              /\ sock[k].spawned \in Terminals /\ sock[k].spawned <= nextOrdinal
              /\ term[sock[k].spawned].attaches = {}
              /\ \A i \in Sinks : sock[i].spawned = sock[k].spawned => i = k
         /\ sock[k].entryId # None =>
              sock[k].entryId \in Terminals /\ sock[k].entryId <= nextOrdinal
<1>1. sock[k] \in Sock /\ sock \in [Sinks -> Sock]
  BY DEF SoundInv, SocksSound
<1>2. /\ sock[k].spawned \in Terminals \cup {None}
      /\ sock[k].entryId \in Terminals \cup {None}
  BY <1>1 DEF Sock
<1>3. /\ sock[k].opening = "spawned" <=> sock[k].spawned # None
      /\ sock[k].opening # "no" => sock[k].entryId = None
      /\ sock[k].spawned # None =>
           /\ sock[k].spawned <= nextOrdinal
           /\ term[sock[k].spawned].attaches = {}
           /\ \A i \in Sinks : sock[i].spawned = sock[k].spawned => i = k
      /\ sock[k].entryId # None => sock[k].entryId <= nextOrdinal
  BY DEF SoundInv, SocksSound, OpensAlone
<1>4. sock[k].entryId = None => \A u \in Terminals : k \notin term[u].attaches
  BY TerminalFacts DEF SoundInv, SocksSound, ViewsAgree
<1> QED BY <1>1, <1>2, <1>3, <1>4

(* The spawn answers: the new terminal is its opener's, and viewed by none.  *)
LEMMA SpawnAnswersSound ==
  ASSUME SoundInv, NEW k \in Sinks, SpawnAnswers(k)
  PROVE  SoundInv'
<1> DEFINE n == nextOrdinal + 1
<1>1. PICK x : x = [sock[k] EXCEPT !.opening = "spawned", !.spawned = n]
  OBVIOUS
<1>2. /\ sock[k].opening = "spawning" /\ Open(sock[k].session, sock[k].asked)
      /\ sock' = [sock EXCEPT ![k] = x]
  BY <1>1 DEF SpawnAnswers, Set
<1>3. /\ sock[k] \in Sock /\ sock \in [Sinks -> Sock]
      /\ sock[k].entryId = None
      /\ sock[k].session \in Sessions \cup {None} /\ sock[k].asked \in Sizes \cup {None}
  BY <1>2, SocketFacts DEF Sock
<1>4. /\ TableSound' /\ n \in Terminals /\ nextOrdinal' = n
      /\ ~term[n].table /\ term[n].attaches = {}
      /\ term'[n].table /\ term'[n].attaches = {} /\ term'[n].state = "running"
      /\ \A t \in Terminals : t # n => term'[t] = term[t]
      /\ heard' = heard
  <2> DEFINE s == sock[k].session
             size == sock[k].asked
  <2>1. /\ TableSound /\ s \in Sessions \cup {None} /\ size \in Sizes \cup {None}
        /\ Open(s, size)
    BY <1>2, <1>3 DEF SoundInv
  <2> HIDE DEF s, size
  <2>2. nextOrdinal' = nextOrdinal + 1 /\ heard' = heard
    BY <2>1 DEF Open
  <2> QED BY <2>1, <2>2, OpenTable
<1>5. nextOrdinal \in Nat /\ ~(n <= nextOrdinal) /\ \A m \in Nat : m <= nextOrdinal => m <= n
  <2>1. nextOrdinal \in Nat
    BY TerminalFacts DEF SoundInv, TableSound, OrdinalsSound
  <2> QED BY <2>1
<1> HIDE DEF n
<1>6. /\ x \in Sock /\ x.opening = "spawned" /\ x.spawned = n
      /\ x.entryId = None /\ x.state = sock[k].state
  BY <1>1, <1>3, <1>4 DEF Sock
<1>7. sock'[k] = x /\ \A j \in Sinks : j # k => sock'[j] = sock[j]
  BY <1>2, <1>3
<1>8. ASSUME NEW j \in Sinks
      PROVE  /\ sock[j].spawned # n /\ sock[j].entryId # n
             /\ sock[j].spawned # None => sock[j].spawned <= n
             /\ sock[j].entryId # None => sock[j].entryId <= n
  BY <1>4, <1>5, SocketFacts, TerminalFacts
<1>9. OpensAlone'
  <2> SUFFICES ASSUME NEW j \in Sinks
               PROVE  /\ sock'[j].opening = "spawned" <=> sock'[j].spawned # None
                      /\ sock'[j].opening # "no" => sock'[j].entryId = None
                      /\ sock'[j].entryId # None => sock'[j].entryId <= nextOrdinal'
                      /\ sock'[j].spawned # None =>
                           /\ sock'[j].spawned <= nextOrdinal'
                           /\ term'[sock'[j].spawned].attaches = {}
                           /\ \A i \in Sinks : sock'[i].spawned = sock'[j].spawned => i = j
    BY DEF OpensAlone
  <2>1. CASE j = k
    <3>1. n \in Nat /\ n <= n /\ n # None
      BY <1>4, TerminalFacts
    <3>2. \A i \in Sinks : i # k => sock'[i].spawned # n
      BY <1>7, <1>8
    <3> QED BY <1>4, <1>6, <1>7, <2>1, <3>1, <3>2
  <2>2. CASE j # k
    <3>1. sock'[j] = sock[j]
      BY <1>7, <2>2
    <3>2. sock[j].spawned # None =>
            /\ sock[j].spawned \in Terminals
            /\ term[sock[j].spawned].attaches = {}
            /\ \A i \in Sinks : sock[i].spawned = sock[j].spawned => i = j
      BY SocketFacts
    <3>3. sock[j].spawned # None => term'[sock[j].spawned].attaches = {}
      BY <1>4, <1>8, <3>2
    <3>4. sock[j].spawned # None =>
            \A i \in Sinks : sock'[i].spawned = sock[j].spawned => i = j
      BY <1>6, <1>7, <1>8, <3>2
    <3>5. /\ sock[j].opening = "spawned" <=> sock[j].spawned # None
          /\ sock[j].opening # "no" => sock[j].entryId = None
      BY SocketFacts
    <3> QED BY <1>4, <1>8, <3>1, <3>3, <3>4, <3>5
  <2> QED BY <2>1, <2>2
<1>10. ViewsAgree'
  <2> SUFFICES ASSUME NEW j \in Sinks, NEW t \in Terminals
               PROVE  /\ j \in term'[t].attaches =>
                           sock'[j].entryId = t /\ sock'[j].state # "closed"
                      /\ sock'[j].entryId = t /\ term'[t].table => j \in term'[t].attaches
    BY DEF ViewsAgree
  <2>1. CASE t = n
    BY <1>4, <1>6, <1>7, <1>8, <2>1, TerminalFacts
  <2>2. CASE t # n
    <3>1. /\ j \in term[t].attaches => sock[j].entryId = t /\ sock[j].state # "closed"
          /\ sock[j].entryId = t /\ term[t].table => j \in term[t].attaches
      BY DEF SoundInv, SocksSound, ViewsAgree
    <3>2. sock'[j].entryId = sock[j].entryId /\ sock'[j].state = sock[j].state
      BY <1>3, <1>6, <1>7
    <3> QED BY <1>4, <2>2, <3>1, <3>2
  <2> QED BY <2>1, <2>2
<1>11. NoOrphanShell'
  <2> SUFFICES ASSUME NEW t \in Terminals, term'[t].table, term'[t].state = "running",
                      term'[t].attaches = {}
               PROVE  \E j \in Sinks : sock'[j].spawned = t
    BY DEF NoOrphanShell, Unclaimed
  <2>1. CASE t = n
    BY <1>6, <1>7, <2>1
  <2>2. CASE t # n
    <3>1. PICK j \in Sinks : sock[j].spawned = t
      BY <1>4, <2>2 DEF SoundInv, SocksSound, NoOrphanShell, Unclaimed
    <3>2. j # k
      <4>1. sock[k].spawned = None
        BY <1>2, SocketFacts
      <4> QED BY <3>1, <4>1, TerminalFacts
    <3> QED BY <1>7, <3>1, <3>2
  <2> QED BY <2>1, <2>2
<1>12. ExitedIsTold'
  <2> SUFFICES ASSUME NEW t \in Terminals, term'[t].table, term'[t].state = "exited",
                      NEW j \in term'[t].attaches
               PROVE  heard'[j].told /\ sock'[j].state = "closing"
    BY DEF ExitedIsTold
  <2>1. t # n /\ term'[t] = term[t] /\ j \in Sinks
    BY <1>4 DEF SoundInv, TableSound, TermsSound, Term
  <2>2. heard[j].told /\ sock[j].state = "closing"
    BY <2>1 DEF SoundInv, SocksSound, ExitedIsTold
  <2> QED BY <1>4, <1>6, <1>7, <2>1, <2>2
<1>13. sock' \in [Sinks -> Sock]
  BY <1>2, <1>3, <1>6
<1> QED BY <1>4, <1>9, <1>10, <1>11, <1>12, <1>13 DEF SoundInv, SocksSound
(* A socket takes a terminal on and is one of its sinks.                     *)
LEMMA ViewsSound ==
  ASSUME SoundInv, NEW k \in Sinks, NEW t \in Terminals, NEW x, Apart(x),
         x.opening = "no", x.entryId = t, x.state = sock[k].state, x.state # "closed",
         sock' = [sock EXCEPT ![k] = x], UNCHANGED nextOrdinal, t <= nextOrdinal,
         \A j \in Sinks : sock[j].spawned = t => j = k,
         \A u \in Terminals : k \notin term[u].attaches,
         term'[t].table, term'[t].state = "running",
         term'[t].attaches = term[t].attaches \cup {k},
         \A u \in Terminals : u # t => term'[u] = term[u],
         \A j \in Sinks : j # k => heard'[j] = heard[j],
         sock[k].spawned \in {None, t}, term[t].table
  PROVE  SocksSound'
<1>1. /\ \A u \in Terminals : term[u].attaches \subseteq Sinks
      /\ sock \in [Sinks -> Sock] /\ x \in Sock
      /\ x.spawned = None /\ None \notin Terminals
  BY TerminalFacts DEF SoundInv, TableSound, TermsSound, Term, SocksSound, Apart
<1>2. sock'[k] = x /\ \A j \in Sinks : j # k => sock'[j] = sock[j]
  BY <1>1
<1>3. sock' \in [Sinks -> Sock]
  BY <1>1
<1>4. OpensAlone'
  <2> SUFFICES ASSUME NEW j \in Sinks
               PROVE  /\ sock'[j].opening = "spawned" <=> sock'[j].spawned # None
                      /\ sock'[j].opening # "no" => sock'[j].entryId = None
                      /\ sock'[j].entryId # None => sock'[j].entryId <= nextOrdinal'
                      /\ sock'[j].spawned # None =>
                           /\ sock'[j].spawned <= nextOrdinal'
                           /\ term'[sock'[j].spawned].attaches = {}
                           /\ \A i \in Sinks : sock'[i].spawned = sock'[j].spawned => i = j
    BY DEF OpensAlone
  <2>1. CASE j = k
    BY <1>1, <1>2, <2>1 DEF Apart
  <2>2. CASE j # k
    <3>1. sock'[j] = sock[j] /\ sock[j].spawned # t
      BY <1>2, <2>2
    <3>2. /\ sock[j].opening = "spawned" <=> sock[j].spawned # None
          /\ sock[j].opening # "no" => sock[j].entryId = None
          /\ sock[j].entryId # None => sock[j].entryId <= nextOrdinal
          /\ sock[j].spawned # None =>
               /\ sock[j].spawned \in Terminals /\ sock[j].spawned <= nextOrdinal
               /\ term[sock[j].spawned].attaches = {}
               /\ \A i \in Sinks : sock[i].spawned = sock[j].spawned => i = j
      BY SocketFacts
    <3>3. sock[j].spawned # None => term'[sock[j].spawned].attaches = {}
      BY <3>1, <3>2
    <3>4. sock[j].spawned # None =>
            \A i \in Sinks : sock'[i].spawned = sock[j].spawned => i = j
      BY <1>1, <1>2, <3>2
    <3> QED BY <3>1, <3>2, <3>3, <3>4
  <2> QED BY <2>1, <2>2
<1>5. ViewsAgree'
  <2> SUFFICES ASSUME NEW j \in Sinks, NEW u \in Terminals
               PROVE  /\ j \in term'[u].attaches =>
                           sock'[j].entryId = u /\ sock'[j].state # "closed"
                      /\ sock'[j].entryId = u /\ term'[u].table => j \in term'[u].attaches
    BY DEF ViewsAgree
  <2>1. CASE j = k
    BY <1>2, <2>1
  <2>2. CASE j # k
    <3>1. /\ j \in term[u].attaches => sock[j].entryId = u /\ sock[j].state # "closed"
          /\ sock[j].entryId = u /\ term[u].table => j \in term[u].attaches
      BY DEF SoundInv, SocksSound, ViewsAgree
    <3>2. sock'[j] = sock[j]
      BY <1>2, <2>2
    <3>3. CASE u = t
      BY <2>2, <3>1, <3>2, <3>3
    <3>4. CASE u # t
      BY <3>1, <3>2, <3>4
    <3> QED BY <3>3, <3>4
  <2> QED BY <2>1, <2>2
<1>6. NoOrphanShell'
  <2> SUFFICES ASSUME NEW u \in Terminals, term'[u].table, term'[u].state = "running",
                      term'[u].attaches = {}
               PROVE  \E j \in Sinks : sock'[j].spawned = u
    BY DEF NoOrphanShell, Unclaimed
  <2>1. u # t /\ term'[u] = term[u]
    OBVIOUS
  <2>2. PICK j \in Sinks : sock[j].spawned = u
    BY <2>1 DEF SoundInv, SocksSound, NoOrphanShell, Unclaimed
  <2>3. j # k
    BY <1>1, <2>1, <2>2
  <2> QED BY <1>2, <2>2, <2>3
<1>7. ExitedIsTold'
  <2> SUFFICES ASSUME NEW u \in Terminals, term'[u].table, term'[u].state = "exited",
                      NEW j \in term'[u].attaches
               PROVE  heard'[j].told /\ sock'[j].state = "closing"
    BY DEF ExitedIsTold
  <2>1. u # t /\ term'[u] = term[u] /\ j \in Sinks /\ j # k
    BY <1>1
  <2>2. heard[j].told /\ sock[j].state = "closing"
    BY <2>1 DEF SoundInv, SocksSound, ExitedIsTold
  <2> QED BY <1>2, <2>1, <2>2
<1> QED BY <1>3, <1>4, <1>5, <1>6, <1>7 DEF SocksSound

(* A socket is done with the terminal it opened, which is out of the table.  *)
LEMMA LosesSound ==
  ASSUME SoundInv, NEW k \in Sinks, NEW t, sock[k].spawned = t, t # None, NEW x,
         Apart(x), x.opening = "no", x.entryId \in {None, t}, x.state = sock[k].state,
         sock' = [sock EXCEPT ![k] = x], UNCHANGED <<nextOrdinal, heard>>,
         \A u \in Terminals : Same(u) \/ Out(u), ~term'[t].table
  PROVE  SocksSound'
<1>1. /\ \A u \in Terminals : term[u].attaches \subseteq Sinks
      /\ sock \in [Sinks -> Sock] /\ x \in Sock /\ x.spawned = None
  BY DEF SoundInv, TableSound, TermsSound, Term, SocksSound, Apart
<1>2. sock'[k] = x /\ \A j \in Sinks : j # k => sock'[j] = sock[j]
  BY <1>1
<1>3. sock' \in [Sinks -> Sock]
  BY <1>1
<1>4. /\ t \in Terminals /\ t <= nextOrdinal /\ sock[k].entryId = None
      /\ \A u \in Terminals : k \notin term[u].attaches
      /\ \A j \in Sinks : j # k => sock[j].spawned # t
  BY SocketFacts
<1>5. OpensAlone'
  <2> SUFFICES ASSUME NEW j \in Sinks
               PROVE  /\ sock'[j].opening = "spawned" <=> sock'[j].spawned # None
                      /\ sock'[j].opening # "no" => sock'[j].entryId = None
                      /\ sock'[j].entryId # None => sock'[j].entryId <= nextOrdinal'
                      /\ sock'[j].spawned # None =>
                           /\ sock'[j].spawned <= nextOrdinal'
                           /\ term'[sock'[j].spawned].attaches = {}
                           /\ \A i \in Sinks : sock'[i].spawned = sock'[j].spawned => i = j
    BY DEF OpensAlone
  <2>1. CASE j = k
    BY <1>1, <1>2, <1>4, <2>1 DEF Apart
  <2>2. CASE j # k
    <3>1. sock'[j] = sock[j]
      BY <1>2, <2>2
    <3>2. /\ sock[j].opening = "spawned" <=> sock[j].spawned # None
          /\ sock[j].opening # "no" => sock[j].entryId = None
          /\ sock[j].entryId # None => sock[j].entryId <= nextOrdinal
          /\ sock[j].spawned # None =>
               /\ sock[j].spawned \in Terminals /\ sock[j].spawned <= nextOrdinal
               /\ term[sock[j].spawned].attaches = {}
               /\ \A i \in Sinks : sock[i].spawned = sock[j].spawned => i = j
      BY SocketFacts
    <3>3. sock[j].spawned # None => term'[sock[j].spawned].attaches = {}
      BY <3>2 DEF Same, Out
    <3>4. sock[j].spawned # None =>
            \A i \in Sinks : sock'[i].spawned = sock[j].spawned => i = j
      BY <1>1, <1>2, <3>2
    <3> QED BY <3>1, <3>2, <3>3, <3>4
  <2> QED BY <2>1, <2>2
<1>6. ViewsAgree'
  <2> SUFFICES ASSUME NEW j \in Sinks, NEW u \in Terminals
               PROVE  /\ j \in term'[u].attaches =>
                           sock'[j].entryId = u /\ sock'[j].state # "closed"
                      /\ sock'[j].entryId = u /\ term'[u].table => j \in term'[u].attaches
    BY DEF ViewsAgree
  <2>1. CASE j = k
    BY <1>2, <1>4, <2>1, TerminalFacts DEF Same, Out
  <2>2. CASE j # k
    <3>1. /\ j \in term[u].attaches => sock[j].entryId = u /\ sock[j].state # "closed"
          /\ sock[j].entryId = u /\ term[u].table => j \in term[u].attaches
      BY DEF SoundInv, SocksSound, ViewsAgree
    <3>2. sock'[j] = sock[j]
      BY <1>2, <2>2
    <3> QED BY <3>1, <3>2 DEF Same, Out
  <2> QED BY <2>1, <2>2
<1>7. NoOrphanShell'
  <2> SUFFICES ASSUME NEW u \in Terminals, term'[u].table, term'[u].state = "running",
                      term'[u].attaches = {}
               PROVE  \E j \in Sinks : sock'[j].spawned = u
    BY DEF NoOrphanShell, Unclaimed
  <2>1. u # t /\ Same(u)
    BY DEF Out
  <2>2. PICK j \in Sinks : sock[j].spawned = u
    BY <2>1 DEF SoundInv, SocksSound, NoOrphanShell, Unclaimed, Same
  <2>3. j # k
    BY <2>1, <2>2
  <2> QED BY <1>2, <2>2, <2>3
<1>8. ExitedIsTold'
  <2> SUFFICES ASSUME NEW u \in Terminals, term'[u].table, term'[u].state = "exited",
                      NEW j \in term'[u].attaches
               PROVE  heard'[j].told /\ sock'[j].state = "closing"
    BY DEF ExitedIsTold
  <2>1. Same(u) /\ j \in Sinks /\ j # k
    BY <1>1, <1>4 DEF Out, Same
  <2>2. heard[j].told /\ sock[j].state = "closing"
    BY <2>1 DEF SoundInv, SocksSound, ExitedIsTold, Same
  <2> QED BY <1>2, <2>1, <2>2
<1> QED BY <1>3, <1>5, <1>6, <1>7, <1>8 DEF SocksSound
(* A socket that goes leaves the terminal it viewed.                         *)
LEMMA GoesSound ==
  ASSUME SoundInv, NEW k \in Sinks, Goes(k)
  PROVE  SoundInv'
<1>1. PICK x : x = IF sock[k].opening = "no" THEN Gone
                   ELSE [sock[k] EXCEPT !.state = "closed", !.entryId = None]
  OBVIOUS
<1>2. PICK t : t = sock[k].entryId
  OBVIOUS
<1>3. /\ sock[k].state # "closed" /\ sock' = [sock EXCEPT ![k] = x]
      /\ IF t = None THEN UNCHANGED registryVars ELSE Detach(t, k)
  BY <1>1, <1>2 DEF Goes, Set
<1>4. /\ sock[k] \in Sock /\ sock \in [Sinks -> Sock]
      /\ sock[k].opening = "spawned" <=> sock[k].spawned # None
      /\ t = None => \A u \in Terminals : k \notin term[u].attaches
      /\ t # None => t \in Terminals /\ sock[k].opening = "no"
  BY <1>2, SocketFacts
<1>5. /\ Apart(x) /\ x.state = "closed" /\ x.entryId = None
      /\ x.spawned = sock[k].spawned
  <2>1. CASE sock[k].opening = "no"
    BY <1>1, <1>4, <2>1, NewSockApart
  <2>2. CASE sock[k].opening # "no"
    <3>1. x = [sock[k] EXCEPT !.state = "closed", !.entryId = None]
      BY <1>1, <2>2
    <3>2. /\ x \in Sock /\ x.state = "closed" /\ x.entryId = None
          /\ x.spawned = sock[k].spawned /\ x.opening = sock[k].opening
      BY <1>4, <3>1 DEF Sock
    <3> QED BY <1>4, <3>2 DEF Apart
  <2> QED BY <2>1, <2>2
<1>6. sock'[k] = x /\ \A j \in Sinks : j # k => sock'[j] = sock[j]
  BY <1>3, <1>4
<1>7. CASE UNCHANGED registryVars /\ \A u \in Terminals : k \notin term[u].attaches
  <2>1. UNCHANGED <<term, nextOrdinal, heard, wait, resizing>>
    BY <1>7 DEF registryVars
  <2>2. TableSound'
    BY <2>1 DEF SoundInv, TableSound, TermsSound, OrdinalsSound, WaitsSound,
                NoWaitMissed, HeardSound, HandedInOrder
  <2>3. SocksSound'
    BY <1>3, <1>5, <1>7, <2>1, SocketAlone DEF Same
  <2> QED BY <2>2, <2>3 DEF SoundInv
<1>8. CASE t # None /\ k \notin term[t].attaches
  <2>1. ~term[t].table /\ Sound(term[t]) /\ term[t] \in Term
    BY <1>2, <1>4, <1>8 DEF SoundInv, SocksSound, ViewsAgree, TableSound, TermsSound
  <2>2. Detach(t, k) /\ t \in Terminals
    BY <1>3, <1>4, <1>8
  <2>3. PICK y : y = [term[t] EXCEPT !.attaches = term[t].attaches \ {k}]
    OBVIOUS
  <2>4. /\ Sound(y) /\ y.table = term[t].table
        /\ y.attaches = {} /\ y.state = "exited"
        /\ y.bytes = term[t].bytes /\ y.dropped = term[t].dropped
        /\ term[t].attaches = {} /\ term[t].state = "exited"
    BY <2>1, <2>3 DEF Sound, Term
  <2>5. /\ term' = [term EXCEPT ![t] = y] /\ UNCHANGED <<wait, nextOrdinal, resizing>>
        /\ heard' = [heard EXCEPT ![k] = NoHeard]
    BY <2>1, <2>2, <2>3, <2>4 DEF Detach
  <2>6. \A u \in Terminals : k \notin term[u].attaches
    BY <1>2, <1>8 DEF SoundInv, SocksSound, ViewsAgree
  <2>7. /\ TermsSound' /\ \A u \in Terminals : Same(u) /\ Kept(u)
        /\ \A u \in Terminals : term'[u].bytes = term[u].bytes
    <3>1. term \in [Terminals -> Term] /\ \A u \in Terminals : Sound(term[u])
      BY DEF SoundInv, TableSound, TermsSound
    <3>2. term'[t] = y /\ \A u \in Terminals : u # t => term'[u] = term[u]
      BY <2>2, <2>5, <3>1
    <3>3. y \in Term
      BY <2>4 DEF Sound
    <3>4. TermsSound'
      BY <2>4, <2>5, <3>1, <3>2, <3>3 DEF TermsSound
    <3>5. \A u \in Terminals : Same(u) /\ Kept(u) /\ term'[u].bytes = term[u].bytes
      BY <2>1, <2>4, <3>2 DEF Same, Kept
    <3> QED BY <3>4, <3>5
  <2>8. heard' \in [Sinks -> Heard] /\ \A j \in Sinks : j # k => heard'[j] = heard[j]
    <3>1. NoHeard \in Heard
      BY CapAssumption DEF NoHeard, Heard
    <3> QED BY <2>5, <3>1 DEF SoundInv, TableSound, HeardSound
  <2>9. \A u \in Terminals : term[u].attaches \subseteq Sinks \ {k}
    BY <2>6 DEF SoundInv, TableSound, TermsSound, Term
  <2>10. HeardSound'
    BY <2>7, <2>8, <2>9 DEF SoundInv, TableSound, HeardSound, HandedInOrder, Same
  <2>11. WaitsSound'
    BY <2>5, <2>7, WaitsStay DEF SoundInv, TableSound
  <2>12. OrdinalsSound'
    BY <2>5, <2>7 DEF SoundInv, TableSound, OrdinalsSound, Same
  <2>13. TableSound'
    BY <2>5, <2>7, <2>10, <2>11, <2>12 DEF SoundInv, TableSound
  <2>14. SocksSound'
    <3>1. OpensAlone' /\ sock' \in [Sinks -> Sock]
      <4>1. \A j \in Sinks : sock'[j].spawned = sock[j].spawned
        BY <1>5, <1>6
      <4>2. \A j \in Sinks : sock'[j].entryId # None => sock'[j].entryId = sock[j].entryId
        BY <1>5, <1>6
      <4>3. sock' \in [Sinks -> Sock]
        BY <1>3, <1>4, <1>5 DEF Apart
      <4>4. ASSUME NEW j \in Sinks
            PROVE  /\ sock'[j].opening = "spawned" <=> sock'[j].spawned # None
                   /\ sock'[j].opening # "no" => sock'[j].entryId = None
        BY <1>5, <1>6, SocketFacts DEF Apart
      <4>5. ASSUME NEW j \in Sinks, sock'[j].spawned # None
            PROVE  /\ sock'[j].spawned <= nextOrdinal
                   /\ term'[sock'[j].spawned].attaches = {}
                   /\ \A i \in Sinks : sock'[i].spawned = sock'[j].spawned => i = j
        <5>1. PICK u : u = sock[j].spawned
          OBVIOUS
        <5>2. /\ u = sock'[j].spawned /\ u \in Terminals /\ u <= nextOrdinal
              /\ term[u].attaches = {} /\ \A i \in Sinks : sock[i].spawned = u => i = j
          BY <4>1, <4>5, <5>1, SocketFacts
        <5> QED BY <2>7, <4>1, <5>2 DEF Same
      <4>6. \A j \in Sinks : sock[j].entryId # None => sock[j].entryId <= nextOrdinal
        BY SocketFacts
      <4> QED BY <2>5, <4>2, <4>3, <4>4, <4>5, <4>6 DEF OpensAlone
    <3>2. ViewsAgree'
      BY <1>5, <1>6, <2>6, <2>7, TerminalFacts DEF SoundInv, SocksSound, ViewsAgree, Same
    <3>3. NoOrphanShell'
      BY <1>5, <1>6, <2>7 DEF SoundInv, SocksSound, NoOrphanShell, Unclaimed, Same
    <3>4. ExitedIsTold'
      BY <1>6, <2>7, <2>8, <2>9 DEF SoundInv, SocksSound, ExitedIsTold, Same
    <3> QED BY <3>1, <3>2, <3>3, <3>4 DEF SocksSound
  <2> QED BY <2>13, <2>14 DEF SoundInv
<1>9. CASE t # None /\ k \in term[t].attaches
  <2>1. Detach(t, k) /\ t \in Terminals /\ sock[k].spawned = None
    BY <1>3, <1>4, <1>9
  <2>2. /\ TableSound'
        /\ \A u \in Terminals : u # t => term'[u] = term[u]
        /\ \/ Out(t)
           \/ /\ term'[t].table = term[t].table
              /\ term'[t].attaches = term[t].attaches \ {k}
              /\ term'[t].state = "exited" <=> term[t].state = "exited"
              /\ term'[t].attaches = {} => term'[t].state # "running"
        /\ \A j \in Sinks : j # k => heard'[j] = heard[j]
        /\ \A u \in Terminals : k \notin term'[u].attaches
    BY <1>9, <2>1, DetachTable DEF SoundInv
  <2>3. UNCHANGED nextOrdinal
    BY <2>1 DEF Detach
  <2>4. /\ \A u \in Terminals : term'[u].attaches \subseteq term[u].attaches \ {k}
        /\ \A u \in Terminals : term[u].attaches \subseteq Sinks
    BY <2>2 DEF Out, SoundInv, TableSound, TermsSound, Term
  <2>5. OpensAlone' /\ sock' \in [Sinks -> Sock]
    <3>1. \A j \in Sinks : sock'[j].spawned = sock[j].spawned
      BY <1>5, <1>6
    <3>2. \A j \in Sinks : sock'[j].entryId # None => sock'[j].entryId = sock[j].entryId
      BY <1>5, <1>6
    <3>3. sock' \in [Sinks -> Sock]
      BY <1>3, <1>4, <1>5 DEF Apart
    <3>4. ASSUME NEW j \in Sinks
          PROVE  /\ sock'[j].opening = "spawned" <=> sock'[j].spawned # None
                 /\ sock'[j].opening # "no" => sock'[j].entryId = None
      BY <1>5, <1>6, SocketFacts DEF Apart
    <3>5. ASSUME NEW j \in Sinks, sock'[j].spawned # None
          PROVE  /\ sock'[j].spawned <= nextOrdinal
                 /\ term'[sock'[j].spawned].attaches = {}
                 /\ \A i \in Sinks : sock'[i].spawned = sock'[j].spawned => i = j
      <4>1. PICK u : u = sock[j].spawned
        OBVIOUS
      <4>2. /\ u = sock'[j].spawned /\ u \in Terminals /\ u <= nextOrdinal
            /\ term[u].attaches = {} /\ \A i \in Sinks : sock[i].spawned = u => i = j
        BY <3>1, <3>5, <4>1, SocketFacts
      <4> QED BY <2>4, <3>1, <4>2
    <3>6. \A j \in Sinks : sock[j].entryId # None => sock[j].entryId <= nextOrdinal
      BY SocketFacts
    <3> QED BY <2>3, <3>2, <3>3, <3>4, <3>5, <3>6 DEF OpensAlone
  <2>6. ViewsAgree'
    BY <1>5, <1>6, <2>2, TerminalFacts DEF SoundInv, SocksSound, ViewsAgree, Out
  <2>7. NoOrphanShell'
    BY <1>5, <1>6, <2>2 DEF SoundInv, SocksSound, NoOrphanShell, Unclaimed, Out
  <2>8. ExitedIsTold'
    <3> SUFFICES ASSUME NEW u \in Terminals, term'[u].table, term'[u].state = "exited",
                        NEW j \in term'[u].attaches
                 PROVE  heard'[j].told /\ sock'[j].state = "closing"
      BY DEF ExitedIsTold
    <3>1. /\ j \in Sinks /\ j # k /\ j \in term[u].attaches
          /\ term[u].table /\ term[u].state = "exited"
      BY <2>2, <2>4 DEF Out
    <3>2. heard[j].told /\ sock[j].state = "closing"
      BY <3>1 DEF SoundInv, SocksSound, ExitedIsTold
    <3> QED BY <1>6, <2>2, <3>1, <3>2
  <2> QED BY <2>2, <2>5, <2>6, <2>7, <2>8 DEF SoundInv, SocksSound
<1> QED BY <1>3, <1>4, <1>7, <1>8, <1>9
(* A terminal exits: its viewers are told and their sockets begin to close.  *)
LEMMA ExitSound ==
  ASSUME SoundInv, NEW t \in Terminals, Exit(t), sock' = ClosedBy(t)
  PROVE  SoundInv'
<1>1. /\ TableSound' /\ UNCHANGED nextOrdinal
      /\ \A u \in Terminals : u # t => term'[u] = term[u]
      /\ \/ term[t].attaches = {} /\ Out(t)
         \/ /\ term'[t].table /\ term'[t].state = "exited"
            /\ term'[t].attaches = term[t].attaches
      /\ \A j \in Sinks : heard[j].told => heard'[j].told
      /\ \A j \in term[t].attaches : heard'[j].told
      /\ term[t].table /\ term[t].state # "exited"
  BY ExitTable DEF SoundInv, Exit, Attachable
<1>2. \A u \in Terminals : term[u].attaches \subseteq Sinks
  BY DEF SoundInv, TableSound, TermsSound, Term
<1>3. ASSUME NEW j \in Sinks
      PROVE  /\ sock'[j] \in Sock /\ sock'[j].opening = sock[j].opening
             /\ sock'[j].spawned = sock[j].spawned /\ sock'[j].entryId = sock[j].entryId
             /\ sock[j].state # "closed" => sock'[j].state # "closed"
             /\ sock[j].state = "closing" => sock'[j].state = "closing"
             /\ j \in term[t].attaches => sock'[j].state = "closing"
  <2>1. sock[j] \in Sock
    BY SocketFacts
  <2>2. CASE j \in term[t].attaches /\ sock[j].state = "open"
    <3>1. sock'[j] = [sock[j] EXCEPT !.state = "closing"]
      BY <2>2 DEF ClosedBy
    <3> QED BY <2>1, <2>2, <3>1 DEF Sock
  <2>3. CASE ~(j \in term[t].attaches /\ sock[j].state = "open")
    <3>1. sock'[j] = sock[j]
      BY <2>3 DEF ClosedBy
    <3>2. j \in term[t].attaches => sock[j].state \in {"open", "closing"}
      BY <2>1 DEF SoundInv, SocksSound, ViewsAgree, Sock
    <3> QED BY <2>1, <2>3, <3>1, <3>2
  <2> QED BY <2>2, <2>3
<1>4. sock' \in [Sinks -> Sock]
  BY <1>3 DEF ClosedBy
<1>5. \A u \in Terminals : term'[u].attaches = term[u].attaches
  BY <1>1 DEF Out
<1>6. OpensAlone'
  <2> SUFFICES ASSUME NEW j \in Sinks
               PROVE  /\ sock'[j].opening = "spawned" <=> sock'[j].spawned # None
                      /\ sock'[j].opening # "no" => sock'[j].entryId = None
                      /\ sock'[j].entryId # None => sock'[j].entryId <= nextOrdinal'
                      /\ sock'[j].spawned # None =>
                           /\ sock'[j].spawned <= nextOrdinal'
                           /\ term'[sock'[j].spawned].attaches = {}
                           /\ \A i \in Sinks : sock'[i].spawned = sock'[j].spawned => i = j
    BY DEF OpensAlone
  <2>1. /\ sock[j].opening = "spawned" <=> sock[j].spawned # None
        /\ sock[j].opening # "no" => sock[j].entryId = None
        /\ sock[j].entryId # None => sock[j].entryId <= nextOrdinal
        /\ sock[j].spawned # None =>
             /\ sock[j].spawned \in Terminals /\ sock[j].spawned <= nextOrdinal
             /\ term[sock[j].spawned].attaches = {}
             /\ \A i \in Sinks : sock[i].spawned = sock[j].spawned => i = j
    BY SocketFacts
  <2>2. sock[j].spawned # None => term'[sock[j].spawned].attaches = {}
    BY <1>5, <2>1
  <2> QED BY <1>1, <1>3, <2>1, <2>2
<1>7. ViewsAgree'
  BY <1>1, <1>3, <1>5 DEF SoundInv, SocksSound, ViewsAgree, Out
<1>8. NoOrphanShell'
  BY <1>1, <1>3 DEF SoundInv, SocksSound, NoOrphanShell, Unclaimed, Out
<1>9. ExitedIsTold'
  <2> SUFFICES ASSUME NEW u \in Terminals, term'[u].table, term'[u].state = "exited",
                      NEW j \in term'[u].attaches
               PROVE  heard'[j].told /\ sock'[j].state = "closing"
    BY DEF ExitedIsTold
  <2>1. j \in Sinks /\ j \in term[u].attaches
    BY <1>2, <1>5
  <2>2. CASE u = t
    BY <1>1, <1>3, <2>1, <2>2
  <2>3. CASE u # t
    BY <1>1, <1>3, <2>1, <2>3 DEF SoundInv, SocksSound, ExitedIsTold
  <2> QED BY <2>2, <2>3
<1> QED BY <1>1, <1>4, <1>6, <1>7, <1>8, <1>9 DEF SoundInv, SocksSound

(* The answer of a spawn reaches the socket that asked for it.               *)
LEMMA OpenedSound ==
  ASSUME SoundInv, NEW k \in Sinks, Opened(k)
  PROVE  SoundInv'
<1>1. PICK t : t = sock[k].spawned
  OBVIOUS
<1>2. sock[k].opening = "spawned"
  BY DEF Opened
<1>3. /\ t # None /\ t \in Terminals /\ t <= nextOrdinal /\ term[t].attaches = {}
      /\ sock[k].entryId = None /\ sock[k] \in Sock
      /\ \A j \in Sinks : sock[j].spawned = t => j = k
      /\ \A u \in Terminals : k \notin term[u].attaches
  BY <1>1, <1>2, SocketFacts
<1>4. PICK idle : idle = Idle(sock[k])
  OBVIOUS
<1>5. /\ Apart(idle) /\ idle.state = sock[k].state /\ idle.opening = "no"
      /\ idle.spawned = None /\ idle.entryId = None
      /\ sock[k].state # "closed" => idle.requested = sock[k].requested
  BY <1>3, <1>4, IdleApart
<1>6. Sound(term[t]) /\ resizing \in [Resizes -> Resize]
  BY <1>3 DEF SoundInv, TableSound, TermsSound
<1>7. CASE /\ sock[k].state = "closed" /\ sock' = [sock EXCEPT ![k] = idle]
           /\ IF term[t].table THEN Close(t) ELSE UNCHANGED registryVars
  <2>1. CASE term[t].table
    <3>1. Kill({t}) /\ UNCHANGED <<nextOrdinal, heard, resizing>>
      BY <1>7, <2>1 DEF Close, End
    <3>2. TableSound'
      BY <1>6, <3>1, KillTable DEF SoundInv
    <3>3. Out(t) /\ \A u \in Terminals : Same(u) \/ Out(u)
      BY <1>3, <3>1, KillEffect DEF SoundInv, TableSound, Same
    <3>4. SocksSound'
      <4>1. ~term'[t].table /\ UNCHANGED <<nextOrdinal, heard>>
        BY <3>1, <3>3 DEF Out
      <4> QED BY <1>1, <1>3, <1>5, <1>7, <3>3, <4>1, LosesSound
    <3> QED BY <3>2, <3>4 DEF SoundInv
  <2>2. CASE ~term[t].table
    <3>1. UNCHANGED <<term, nextOrdinal, heard, wait, resizing>>
      BY <1>7, <2>2 DEF registryVars
    <3>2. TableSound'
      BY <3>1 DEF SoundInv, TableSound, TermsSound, OrdinalsSound, WaitsSound,
                  NoWaitMissed, HeardSound, HandedInOrder
    <3>3. SocksSound'
      BY <1>1, <1>3, <1>5, <1>7, <2>2, <3>1, LosesSound DEF Same
    <3> QED BY <3>2, <3>3 DEF SoundInv
  <2> QED BY <2>1, <2>2
<1>8. CASE /\ sock[k].state # "closed" /\ Attach(t, k)
           /\ sock' = [sock EXCEPT ![k] = Bound(sock[k], t)]
  <2>1. PICK x : x = Bound(sock[k], t)
    OBVIOUS
  <2>2. x = [idle EXCEPT !.entryId = t, !.applied = sock[k].requested, !.typed = 0]
    BY <1>4, <2>1 DEF Bound
  <2>3. /\ Apart(x) /\ x.opening = "no" /\ x.entryId = t /\ x.state = sock[k].state
    <3>1. 0 \in 0 .. MaxTyped /\ sock[k].requested \in Sizes /\ idle \in Sock
      BY <1>3, <1>5, SocketsAssumption DEF Sock, Apart
    <3>2. /\ x \in Sock /\ x.opening = "no" /\ x.entryId = t /\ x.state = idle.state
          /\ x.spawned = idle.spawned
      BY <1>3, <1>5, <2>2, <3>1 DEF Sock
    <3> QED BY <1>5, <3>2 DEF Apart
  <2>4. Watched(t, k) /\ UNCHANGED <<nextOrdinal, wait, resizing>>
    BY <1>8 DEF Attach
  <2>5. /\ TableSound'
        /\ term[t].table /\ term'[t].table /\ term'[t].state = "running"
        /\ term'[t].attaches = term[t].attaches \cup {k}
        /\ \A u \in Terminals : u # t => term'[u] = term[u]
        /\ \A j \in Sinks : j # k => heard'[j] = heard[j]
    BY <1>3, <1>6, <2>4, WatchedTable DEF SoundInv
  <2>6. /\ sock' = [sock EXCEPT ![k] = x] /\ x.state # "closed"
        /\ sock[k].spawned \in {None, t} /\ UNCHANGED nextOrdinal
    BY <1>1, <1>8, <2>1, <2>3, <2>4
  <2>7. SocksSound'
    BY <1>3, <2>3, <2>5, <2>6, ViewsSound
  <2> QED BY <2>5, <2>7 DEF SoundInv
<1>9. CASE /\ sock[k].state # "closed" /\ ~Attachable(t)
           /\ sock' = [sock EXCEPT ![k] =
                [idle EXCEPT !.entryId = t, !.applied = sock[k].requested]]
           /\ UNCHANGED registryVars
  <2>1. PICK x : x = [idle EXCEPT !.entryId = t, !.applied = sock[k].requested]
    OBVIOUS
  <2>2. /\ Apart(x) /\ x.opening = "no" /\ x.entryId = t /\ x.state = sock[k].state
    <3>1. /\ x \in Sock /\ x.opening = "no" /\ x.entryId = t /\ x.state = idle.state
          /\ x.spawned = idle.spawned
      BY <1>3, <1>5, <2>1 DEF Sock, Apart
    <3> QED BY <1>5, <3>1 DEF Apart
  <2>3. ~term[t].table
    BY <1>3, <1>6, <1>9 DEF Attachable, Sound
  <2>4. UNCHANGED <<term, nextOrdinal, heard, wait, resizing>>
    BY <1>9 DEF registryVars
  <2>5. TableSound'
    BY <2>4 DEF SoundInv, TableSound, TermsSound, OrdinalsSound, WaitsSound,
                NoWaitMissed, HeardSound, HandedInOrder
  <2>6. sock' = [sock EXCEPT ![k] = x]
    BY <1>9, <2>1
  <2>7. SocksSound'
    BY <1>1, <1>3, <2>2, <2>3, <2>4, <2>6, LosesSound DEF Same
  <2> QED BY <2>5, <2>7 DEF SoundInv
<1> QED BY <1>1, <1>4, <1>7, <1>8, <1>9 DEF Opened, Set
(* A socket attaches to a terminal by its id.                                *)
LEMMA AttachFrameSound ==
  ASSUME SoundInv, NEW k \in Sinks, NEW s \in Sessions, NEW t \in Terminals,
         NEW size \in Sizes, AttachFrame(k, s, t, size)
  PROVE  SoundInv'
<1>1. PICK x : x = [sock[k] EXCEPT !.entryId = t, !.applied = size, !.typed = 0,
                                   !.requested = size]
  OBVIOUS
<1>2. /\ sock[k].state # "closed" /\ sock[k].entryId = None /\ sock[k].opening = "no"
      /\ ~Unclaimed(t) /\ Watched(t, k) /\ ResizeTo(t, size)
      /\ sock' = [sock EXCEPT ![k] = x] /\ UNCHANGED <<nextOrdinal, wait>>
  BY <1>1 DEF AttachFrame, Claims, Set
<1>3. /\ sock[k] \in Sock /\ sock[k].spawned = None
      /\ \A u \in Terminals : k \notin term[u].attaches
  BY <1>2, SocketFacts
<1>4. Apart(x) /\ x.opening = "no" /\ x.entryId = t /\ x.state = sock[k].state
  <2>1. 0 \in 0 .. MaxTyped
    BY SocketsAssumption
  <2>2. /\ x \in Sock /\ x.opening = "no" /\ x.entryId = t /\ x.state = sock[k].state
        /\ x.spawned = None
    BY <1>1, <1>2, <1>3, <2>1 DEF Sock
  <2> QED BY <2>2 DEF Apart
<1>5. resizing' \in [Resizes -> Resize]
  BY <1>2, AskTyped DEF ResizeTo, SoundInv, TableSound
<1>6. /\ TableSound'
      /\ term[t].table /\ term'[t].table /\ term'[t].state = "running"
      /\ term'[t].attaches = term[t].attaches \cup {k}
      /\ \A u \in Terminals : u # t => term'[u] = term[u]
      /\ \A j \in Sinks : j # k => heard'[j] = heard[j]
  BY <1>2, <1>5, WatchedTable DEF SoundInv
<1>7. t <= nextOrdinal
  BY <1>6 DEF SoundInv, TableSound, OrdinalsSound
<1>8. \A j \in Sinks : sock[j].spawned = t => j = k
  BY <1>2 DEF Unclaimed
<1>9. sock[k].spawned \in {None, t} /\ x.state # "closed"
  BY <1>2, <1>3, <1>4
<1>10. SocksSound'
  BY <1>2, <1>3, <1>4, <1>6, <1>7, <1>8, <1>9, ViewsSound
<1> QED BY <1>6, <1>10 DEF SoundInv

(* The table is sound while it stays what it is.                             *)
LEMMA TableStays ==
  ASSUME TableSound, UNCHANGED <<term, nextOrdinal, heard, wait>>,
         resizing' \in [Resizes -> Resize]
  PROVE  TableSound'
BY DEF TableSound, TermsSound, OrdinalsSound, WaitsSound, NoWaitMissed, HeardSound,
       HandedInOrder

(* The frames and answers that change nothing in the table but the resizes.  *)
LEMMA QuietSound ==
  ASSUME SoundInv, NEW k \in Sinks,
         \/ \E s \in Sessions, size \in Sizes : OpenFrame(k, s, size)
         \/ Spawns(k)
         \/ OpenFails(k)
         \/ \E size \in Sizes : ResizeFrame(k, size)
         \/ InputFrame(k)
         \/ Connects(k)
  PROVE  SoundInv'
<1>1. /\ sock[k] \in Sock /\ resizing \in [Resizes -> Resize]
      /\ sock[k].opening = "spawned" <=> sock[k].spawned # None
      /\ sock[k].opening # "no" => sock[k].entryId = None
      /\ sock[k].entryId = None => \A u \in Terminals : k \notin term[u].attaches
      /\ sock[k].entryId # None => sock[k].entryId \in Terminals
  BY SocketFacts DEF SoundInv, TableSound
<1> SUFFICES \E x : /\ Apart(x) /\ sock' = [sock EXCEPT ![k] = x]
                    /\ UNCHANGED <<term, nextOrdinal, heard, wait>>
                    /\ resizing' \in [Resizes -> Resize]
                    /\ x.spawned = sock[k].spawned
                    /\ \/ x.state = sock[k].state /\ x.entryId = sock[k].entryId
                       \/ x.entryId = None /\ \A u \in Terminals : k \notin term[u].attaches
  <2>1. PICK x : /\ Apart(x) /\ sock' = [sock EXCEPT ![k] = x]
                 /\ UNCHANGED <<term, nextOrdinal, heard, wait>>
                 /\ resizing' \in [Resizes -> Resize]
                 /\ x.spawned = sock[k].spawned
                 /\ \/ x.state = sock[k].state /\ x.entryId = sock[k].entryId
                    \/ x.entryId = None /\ \A u \in Terminals : k \notin term[u].attaches
    OBVIOUS
  <2>2. TableSound'
    BY <2>1, TableStays DEF SoundInv
  <2>3. \A u \in Terminals : Same(u)
    BY <2>1 DEF Same
  <2>4. SocksSound'
    BY <2>1, <2>3, SocketAlone
  <2> QED BY <2>2, <2>4 DEF SoundInv
<1>2. ASSUME NEW s \in Sessions, NEW size \in Sizes, OpenFrame(k, s, size)
      PROVE  \E x : /\ Apart(x) /\ sock' = [sock EXCEPT ![k] = x] /\ UNCHANGED registryVars
                    /\ x.spawned = sock[k].spawned /\ x.state = sock[k].state
                    /\ x.entryId = sock[k].entryId
  <2>1. PICK x : x = [sock[k] EXCEPT !.opening = "resolving", !.session = s,
                                     !.requested = size]
    OBVIOUS
  <2>2. /\ sock[k].entryId = None /\ sock[k].opening = "no"
        /\ sock' = [sock EXCEPT ![k] = x] /\ UNCHANGED registryVars
    BY <1>2, <2>1 DEF OpenFrame, Claims, Set
  <2>3. /\ x \in Sock /\ x.opening = "resolving" /\ x.spawned = sock[k].spawned
        /\ x.state = sock[k].state /\ x.entryId = sock[k].entryId
    BY <1>1, <2>1 DEF Sock
  <2> QED BY <1>1, <2>2, <2>3 DEF Apart
<1>3. ASSUME Spawns(k)
      PROVE  \E x : /\ Apart(x) /\ sock' = [sock EXCEPT ![k] = x] /\ UNCHANGED registryVars
                    /\ x.spawned = sock[k].spawned /\ x.state = sock[k].state
                    /\ x.entryId = sock[k].entryId
  <2>1. PICK x : x = [sock[k] EXCEPT !.opening = "spawning", !.asked = sock[k].requested]
    OBVIOUS
  <2>2. /\ sock[k].opening = "resolving"
        /\ sock' = [sock EXCEPT ![k] = x] /\ UNCHANGED registryVars
    BY <1>3, <2>1 DEF Spawns, Set
  <2>3. /\ x \in Sock /\ x.opening = "spawning" /\ x.spawned = sock[k].spawned
        /\ x.state = sock[k].state /\ x.entryId = sock[k].entryId
    BY <1>1, <2>1 DEF Sock
  <2> QED BY <1>1, <2>2, <2>3 DEF Apart
<1>4. ASSUME OpenFails(k)
      PROVE  \E x : /\ Apart(x) /\ sock' = [sock EXCEPT ![k] = x] /\ UNCHANGED registryVars
                    /\ x.spawned = sock[k].spawned /\ x.state = sock[k].state
                    /\ x.entryId = sock[k].entryId
  <2>1. /\ sock[k].opening \in {"resolving", "spawning"}
        /\ sock' = [sock EXCEPT ![k] = Idle(sock[k])] /\ UNCHANGED registryVars
    BY <1>4 DEF OpenFails, Set
  <2>2. sock[k].entryId = None /\ sock[k].spawned = None
    BY <1>1, <2>1
  <2>3. /\ Apart(Idle(sock[k])) /\ Idle(sock[k]).state = sock[k].state
        /\ Idle(sock[k]).spawned = None /\ Idle(sock[k]).entryId = None
    BY <1>1, <2>2, IdleApart
  <2> QED BY <2>1, <2>2, <2>3
<1>5. ASSUME NEW size \in Sizes, ResizeFrame(k, size)
      PROVE  \E x : /\ Apart(x) /\ sock' = [sock EXCEPT ![k] = x]
                    /\ UNCHANGED <<term, nextOrdinal, heard, wait>>
                    /\ resizing' \in [Resizes -> Resize]
                    /\ x.spawned = sock[k].spawned /\ x.state = sock[k].state
                    /\ x.entryId = sock[k].entryId
  <2>1. PICK t : t = sock[k].entryId
    OBVIOUS
  <2>2. PICK x : x \in {[sock[k] EXCEPT !.requested = size],
                        [sock[k] EXCEPT !.requested = size, !.applied = size]}
                 /\ sock' = [sock EXCEPT ![k] = x]
    BY <1>5 DEF ResizeFrame, Set
  <2>3. /\ UNCHANGED <<term, nextOrdinal, heard, wait>>
        /\ \/ resizing' = resizing
           \/ t # None /\ \E c \in Resizes : AskResize(c, t, size)
    BY <1>5, <2>1 DEF ResizeFrame, registryVars
  <2>4. resizing' \in [Resizes -> Resize]
    BY <1>1, <2>1, <2>3, AskTyped DEF SoundInv
  <2>5. /\ x \in Sock /\ x.opening = sock[k].opening /\ x.spawned = sock[k].spawned
        /\ x.state = sock[k].state /\ x.entryId = sock[k].entryId
    BY <1>1, <2>2 DEF Sock
  <2> QED BY <1>1, <2>2, <2>3, <2>4, <2>5 DEF Apart
<1>6. ASSUME InputFrame(k)
      PROVE  \E x : /\ Apart(x) /\ sock' = [sock EXCEPT ![k] = x] /\ UNCHANGED registryVars
                    /\ x.spawned = sock[k].spawned /\ x.state = sock[k].state
                    /\ x.entryId = sock[k].entryId
  <2>1. PICK n : n = sock[k].typed + 1
    OBVIOUS
  <2>2. PICK x : x = [sock[k] EXCEPT !.typed = n]
    OBVIOUS
  <2>3. /\ sock[k].typed < MaxTyped
        /\ sock' = [sock EXCEPT ![k] = x] /\ UNCHANGED registryVars
    BY <1>6, <2>1, <2>2 DEF InputFrame, Set
  <2>4. n \in 0 .. MaxTyped
    <3>1. sock[k].typed \in 0 .. MaxTyped
      BY <1>1 DEF Sock
    <3> QED BY <2>1, <2>3, <3>1, SocketsAssumption
  <2>5. /\ x \in Sock /\ x.opening = sock[k].opening /\ x.spawned = sock[k].spawned
        /\ x.state = sock[k].state /\ x.entryId = sock[k].entryId
    BY <1>1, <2>2, <2>4 DEF Sock
  <2> QED BY <1>1, <2>3, <2>5 DEF Apart
<1>7. ASSUME Connects(k)
      PROVE  \E x : /\ Apart(x) /\ sock' = [sock EXCEPT ![k] = x] /\ UNCHANGED registryVars
                    /\ x.spawned = sock[k].spawned /\ x.entryId = None
                    /\ \A u \in Terminals : k \notin term[u].attaches
  <2>1. /\ sock[k].opening = "no" /\ Fresh(k)
        /\ sock' = [sock EXCEPT ![k] = NewSock] /\ UNCHANGED registryVars
    BY <1>7 DEF Connects, Set
  <2> QED BY <1>1, <2>1, NewSockApart DEF Fresh
<1>8. UNCHANGED registryVars =>
        UNCHANGED <<term, nextOrdinal, heard, wait>> /\ resizing' \in [Resizes -> Resize]
  BY <1>1 DEF registryVars
<1> QED BY <1>2, <1>3, <1>4, <1>5, <1>6, <1>7, <1>8
(* The table's own steps.                                                    *)
LEMMA TableStepSound ==
  ASSUME SoundInv, TableStep
  PROVE  SoundInv'
<1>1. ASSUME NEW t \in Terminals, Exit(t), sock' = ClosedBy(t)
      PROVE  SoundInv'
  BY <1>1, ExitSound
<1>2. ASSUME NEW t \in Terminals, NEW n \in 1 .. MaxBytes, Data(t, n), UNCHANGED sock
      PROVE  SoundInv'
  <2>1. /\ TableSound' /\ \A u \in Terminals : Same(u)
        /\ \A j \in Sinks : heard'[j].told = heard[j].told
    BY <1>2, DataTable DEF SoundInv
  <2>2. UNCHANGED nextOrdinal
    BY <1>2 DEF Data
  <2> QED BY <1>2, <2>1, <2>2, SocksHeld DEF SoundInv
<1>3. ASSUME NEW ts, Kill(ts), UNCHANGED <<nextOrdinal, heard, resizing, sock>>
      PROVE  SoundInv'
  <2>1. TableSound'
    BY <1>3, KillTable DEF SoundInv, TableSound
  <2>2. \A u \in Terminals : Same(u) \/ Out(u)
    BY <1>3, KillEffect DEF SoundInv, TableSound, Same
  <2>3. SocksSound'
    BY <1>3, <2>2, SocksHeld
  <2> QED BY <2>1, <2>3 DEF SoundInv
<1>4. ASSUME NEW t \in Terminals, NEW k \in Sinks, Taken(t, k), UNCHANGED sock
      PROVE  SoundInv'
  <2>1. TableSound' /\ \A u \in Terminals : Same(u)
    BY <1>4, TakenTable DEF SoundInv
  <2>2. UNCHANGED <<nextOrdinal, heard>>
    BY <1>4 DEF Taken
  <2> QED BY <1>4, <2>1, <2>2, SocksHeld DEF SoundInv
<1>5. ASSUME NEW c \in Resizes, ResizeStep(c), UNCHANGED sock
      PROVE  SoundInv'
  <2>1. TableSound' /\ UNCHANGED <<nextOrdinal, heard>> /\ \A u \in Terminals : Same(u)
    BY <1>5, ResizeTable DEF SoundInv
  <2> QED BY <1>5, <2>1, SocksHeld DEF SoundInv
<1>6. ASSUME NEW w \in Waits, ToolStep(w), UNCHANGED sock
      PROVE  SoundInv'
  <2>1. TableSound' /\ UNCHANGED <<term, nextOrdinal, heard>>
    BY <1>6, ToolTable DEF SoundInv
  <2>2. \A u \in Terminals : Same(u)
    BY <2>1 DEF Same
  <2> QED BY <1>6, <2>1, <2>2, SocksHeld DEF SoundInv
<1>7. ASSUME NEW t \in Terminals, ValveExpires(t)
      PROVE  Kill({t}) /\ UNCHANGED <<nextOrdinal, heard, resizing>>
  BY <1>7 DEF ValveExpires
<1>8. ASSUME NEW ts, End(ts)
      PROVE  Kill(ts) /\ UNCHANGED <<nextOrdinal, heard, resizing>>
  BY <1>8 DEF End
<1>9. CASE \E t \in Terminals : Exit(t) /\ sock' = ClosedBy(t)
  BY <1>1, <1>9
<1>10. CASE UNCHANGED sock /\ \E t \in Terminals : \E n \in 1 .. MaxBytes : Data(t, n)
  BY <1>2, <1>10
<1>11. CASE UNCHANGED sock /\ \E t \in Terminals : ValveExpires(t)
  BY <1>3, <1>7, <1>11
<1>12. CASE UNCHANGED sock /\ \/ \E t \in Terminals : Close(t)
                              \/ \E s \in Sessions : ReleaseSession(s)
                              \/ DisposeAll
  <2>1. PICK ts : End(ts)
    BY <1>12 DEF Close, ReleaseSession, DisposeAll
  <2> QED BY <1>3, <1>8, <1>12, <2>1
<1>13. CASE UNCHANGED sock /\ \E t \in Terminals, k \in Sinks : Taken(t, k)
  BY <1>4, <1>13
<1>14. CASE UNCHANGED sock /\ \E c \in Resizes : ResizeStep(c)
  BY <1>5, <1>14
<1>15. CASE UNCHANGED sock /\ \E w \in Waits : ToolStep(w)
  BY <1>6, <1>15
<1> QED BY <1>9, <1>10, <1>11, <1>12, <1>13, <1>14, <1>15 DEF TableStep

-----------------------------------------------------------------------------
(* Theorems *)

(* Whatever order frames, answers, closes, output, exits and kills come in,  *)
(* the table and the sockets stay sound.                                     *)
THEOREM TerminalsSound == SocketSpec => []SoundInv
<1>1. SocketInit => SoundInv
  <2> SUFFICES ASSUME SocketInit PROVE SoundInv
    OBVIOUS
  <2>1. /\ term = [t \in Terminals |-> NoTerm] /\ nextOrdinal = 0
        /\ heard = [k \in Sinks |-> NoHeard] /\ wait = [w \in Waits |-> NoWait]
        /\ resizing = [c \in Resizes |-> NoResize] /\ sock = [k \in Sinks |-> NewSock]
    BY DEF SocketInit, RegistryInit
  <2>2. \A t \in Terminals : /\ Sound(term[t]) /\ term[t] \in Term /\ ~term[t].table
                             /\ term[t].attaches = {}
    BY <2>1, NoTermSound DEF Sound, NoTerm
  <2>3. \A k \in Sinks : /\ Apart(sock[k]) /\ sock[k] \in Sock /\ sock[k].spawned = None
                         /\ sock[k].entryId = None
    BY <2>1, NewSockApart DEF Apart
  <2>4. TermsSound
    BY <2>1, <2>2 DEF TermsSound
  <2>5. OrdinalsSound
    BY <2>1, <2>2 DEF OrdinalsSound
  <2>6. WaitsSound
    BY <2>1, CapAssumption DEF WaitsSound, NoWaitMissed, NoWait, Wait
  <2>7. HeardSound
    BY <2>1, <2>2, CapAssumption DEF HeardSound, HandedInOrder, NoHeard, Heard
  <2>8. resizing \in [Resizes -> Resize]
    BY <2>1 DEF NoResize, Resize
  <2>9. OpensAlone
    BY <2>3 DEF OpensAlone, Apart
  <2>10. ViewsAgree /\ NoOrphanShell /\ ExitedIsTold
    BY <2>2, <2>3, TerminalFacts DEF ViewsAgree, NoOrphanShell, ExitedIsTold
  <2>11. sock \in [Sinks -> Sock]
    BY <2>1, <2>3
  <2> QED BY <2>4, <2>5, <2>6, <2>7, <2>8, <2>9, <2>10, <2>11
       DEF SoundInv, TableSound, SocksSound
<1>2. SoundInv /\ [SocketNext]_socketVars => SoundInv'
  <2> SUFFICES ASSUME SoundInv, [SocketNext]_socketVars PROVE SoundInv'
    OBVIOUS
  <2>1. CASE TableStep
    BY <2>1, TableStepSound
  <2>2. ASSUME NEW k \in Sinks, SocketStep(k) PROVE SoundInv'
    <3>1. CASE SpawnAnswers(k)
      BY <3>1, SpawnAnswersSound
    <3>2. CASE Opened(k)
      BY <3>2, OpenedSound
    <3>3. CASE \E s \in Sessions, t \in Terminals, size \in Sizes :
                 AttachFrame(k, s, t, size)
      BY <3>3, AttachFrameSound
    <3>4. CASE Goes(k)
      BY <3>4, GoesSound
    <3>5. CASE \/ \E s \in Sessions, size \in Sizes : OpenFrame(k, s, size)
               \/ Spawns(k) \/ OpenFails(k)
               \/ \E size \in Sizes : ResizeFrame(k, size)
               \/ InputFrame(k) \/ Connects(k)
      BY <3>5, QuietSound
    <3> QED BY <2>2, <3>1, <3>2, <3>3, <3>4, <3>5 DEF SocketStep
  <2>3. CASE UNCHANGED socketVars
    <3>1. UNCHANGED <<term, nextOrdinal, heard, wait, resizing, sock>>
      BY <2>3 DEF socketVars, registryVars
    <3>2. TableSound'
      BY <3>1, TableStays DEF SoundInv, TableSound
    <3>3. SocksSound'
      BY <3>1, SocksHeld DEF Same
    <3> QED BY <3>2, <3>3 DEF SoundInv
  <2> QED BY <2>1, <2>2, <2>3 DEF SocketNext
<1> QED BY <1>1, <1>2, PTL DEF SocketSpec

(* The table agrees with itself and with what its sinks were handed: TableInv *)
(* of any number of terminals and sinks (registry.ts).                       *)
THEOREM TableAgrees == SocketSpec => []TableInv
<1>1. SoundInv => TableInv
  <2> SUFFICES ASSUME SoundInv PROVE TableInv
    OBVIOUS
  <2>1. RegistryTypeOK
    BY DEF SoundInv, TableSound, TermsSound, OrdinalsSound, WaitsSound, HeardSound,
           RegistryTypeOK, Sound
  <2>2. ValveMeansUnwatched /\ NoCorpse /\ OneChunkInFlight
    BY DEF SoundInv, TableSound, TermsSound, Sound, ValveMeansUnwatched, NoCorpse,
           OneChunkInFlight
  <2>3. PauseEnds
    BY DEF SoundInv, TableSound, TermsSound, Sound, PauseEnds
  <2>4. HandedInOrder
    BY DEF SoundInv, TableSound, HeardSound
  <2> QED BY <2>1, <2>2, <2>3, <2>4 DEF TableInv
<1> QED BY <1>1, TerminalsSound, PTL

(* A pending wait has missed nothing, whatever came and went: no output it   *)
(* is waiting for is retained, and its terminal can still answer (wait).     *)
THEOREM WaitsMissNothing == SocketSpec => []NoWaitMissed
<1>1. SoundInv => NoWaitMissed
  BY DEF SoundInv, TableSound, WaitsSound
<1> QED BY <1>1, TerminalsSound, PTL

(* Sockets and table agree on who views what, an exit is told to all who     *)
(* view, and no shell is left to nobody (terminal.ts, stop and open).        *)
THEOREM SocketsAgree == SocketSpec => []SocketInv
<1>1. SoundInv /\ TableInv => SocketInv
  BY DEF SoundInv, SocksSound, SocketInv, SocketTypeOK, TableInv
<1> QED BY <1>1, TerminalsSound, TableAgrees, PTL
=============================================================================
