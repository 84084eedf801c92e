------------------------ MODULE BrowserSessionProofs ------------------------
(***************************************************************************)
(* Proofs about BrowserSession, for any number of entries, sockets and     *)
(* shells and any number of faults: the tab reaches the host over one      *)
(* socket, which belongs to the entry it shows, and what that socket still *)
(* carries agrees with what the entry knows and waits for.                 *)
(***************************************************************************)
EXTENDS BrowserSession, FiniteSetTheorems, SequenceTheorems, TLAPS

\* The page may hold a socket, and shells are shells.
SomeSocket == Sockets # {}

-----------------------------------------------------------------------------
(* Types.                                                                  *)

Ids == Shells \cup {NoShell}

Entry == [id : Ids, state : States, socket : Sockets, pending : {"open", "attach"},
          replaying : BOOLEAN, timer : BOOLEAN]

Frames == [t : {"open", "attach", "ready", "history", "output", "exit", "error"}, id : Ids]

Socket ==
  {k \in [phase : {"connecting", "open", "dropped", "closing", "closed"},
          of : Entries \cup {NoEntry}, view : Ids, up : Seq(Frames), down : Seq(Frames)] :
     k.phase # "closed" => k.of \in Entries}

\* A shell that is no more: ended, or killed through the registry.
Gone == {"dead", "killed"}

TabTypes ==
  /\ current \in Entries \cup {NoEntry}
  /\ entry \in [Entries -> Entry]
  /\ sock \in [Sockets -> Socket]
  /\ shell \in [Shells -> {"unborn", "live"} \cup Gone]

-----------------------------------------------------------------------------
(* The inductive invariant.                                                *)

Holding == {"connecting", "open", "dropped"}

Held(s) == sock[s].phase \in Holding

\* A request on its way to the host is the one the entry waits for: an attach
\* if it knows a shell, and then it replays until the answer comes.  Until then
\* it is not live.
Waits(k, r) == k.up # <<>> =>
  /\ k.phase = "open" /\ k.view = NoShell /\ k.down = <<>>
  /\ k.up = <<Frame(r.pending, r.id)>> /\ r.state # "live"
  /\ IF r.pending = "open" THEN r.id = NoShell ELSE r.replaying

\* While the entry replays, its answer is on its way and comes first; only
\* then does a history come, and nothing before it.
Replays(k, r) ==
  /\ r.replaying /\ k.phase \in {"open", "dropped"} =>
       \/ k.phase = "open" /\ k.up # <<>>
       \/ k.phase = "dropped" /\ k.down = <<>>
       \/ k.down # <<>> /\ Head(k.down).t \in {"history", "ready", "error"}
  /\ \A i \in 1 .. Len(k.down) : k.down[i].t = "history" => i = 1 /\ r.replaying

\* A shell the host names is the one the socket shows unless it was killed, and
\* the one the entry asked for if it asked for one.
Names(k, r) == \A i \in 1 .. Len(k.down) : k.down[i].t = "ready" =>
  /\ k.down[i].id \in Shells /\ shell[k.down[i].id] # "unborn"
  /\ k.phase = "open" => k.down[i].id = k.view \/ shell[k.down[i].id] = "killed"
  /\ r.id # NoShell => k.down[i].id = r.id
  /\ \A j \in 1 .. Len(k.down) : k.down[j].t = "ready" => k.down[j].id = k.down[i].id

\* An error on an open socket is all it carries; on an attached one it says
\* that the shell is gone.
Errs(k, r) == \A i \in 1 .. Len(k.down) : k.down[i].t = "error" =>
  /\ k.phase = "open" => k.view = NoShell /\ Len(k.down) = 1 /\ r.state # "live"
  /\ r.pending = "attach" => shell[r.id] \in Gone

Views(k, r) == k.view # NoShell =>
  /\ k.phase = "open"
  /\ shell[k.view] # "unborn"
  /\ r.pending = "attach" => k.view = r.id

Lives(k, r) == r.state = "live" =>
  /\ k.phase # "connecting"
  /\ k.phase = "open" => (k.view = r.id \/ shell[r.id] = "killed") /\ r.id # NoShell

\* What a socket the tab holds and the entry it belongs to know of each other.
Linked(k, r) ==
  /\ k.phase = "connecting" => k.down = <<>>
  /\ r.state # "closed"
  /\ Waits(k, r) /\ Replays(k, r) /\ Names(k, r) /\ Errs(k, r) /\ Views(k, r) /\ Lives(k, r)

\* The only socket held is that of the entry shown.
SocketsAgree == \A s \in Sockets :
  IF Held(s)
  THEN /\ current # NoEntry /\ sock[s].of = current /\ entry[current].socket = s
       /\ Linked(sock[s], entry[current])
  ELSE /\ sock[s].view = NoShell /\ sock[s].up = <<>>
       /\ sock[s].phase = "closing" => sock[s].of # current

\* An entry that replays has asked for a shell it knows, which was there; only
\* the entry shown has a timer, and only while it has no socket.
EntryAgrees(e, r) ==
  /\ r.replaying => r.pending = "attach"
  /\ r.pending = "attach" => r.id # NoShell
  /\ r.id # NoShell => shell[r.id] # "unborn"
  /\ r.timer => e = current /\ r.state = "closed"

EntriesAgree == \A e \in Entries : EntryAgrees(e, entry[e])

LiveIsHeld == current # NoEntry /\ entry[current].state = "live" =>
  Held(entry[current].socket)

Agree == SocketsAgree /\ EntriesAgree /\ LiveIsHeld

-----------------------------------------------------------------------------
(* The socket held, and what it is linked to.                                *)

LEMMA HeldIs ==
  ASSUME TabTypes, Agree, NEW s \in Sockets, Held(s)
  PROVE  /\ current \in Entries /\ sock[s].of = current /\ entry[current].socket = s
         /\ sock[s] \in Socket /\ entry[current] \in Entry
         /\ Linked(sock[s], entry[current]) /\ EntryAgrees(current, entry[current])
BY DEF TabTypes, Agree, SocketsAgree, EntriesAgree

(* What is linked stays so while no shell changes.                           *)
LEMMA LinkedStays ==
  ASSUME NEW k, NEW r, Linked(k, r), shell' = shell
  PROVE  Linked(k, r)'
<1>1. Waits(k, r)' /\ Replays(k, r)' /\ Lives(k, r)'
  BY DEF Linked, Waits, Replays, Lives
<1>2. Names(k, r)'
  BY DEF Linked, Names
<1>3. Errs(k, r)' /\ Views(k, r)'
  BY DEF Linked, Errs, Views
<1> QED BY <1>1, <1>2, <1>3 DEF Linked

(* A step of the socket held and the entry shown, which leaves them linked.  *)
LEMMA HeldMoves ==
  ASSUME TabTypes, Agree, NEW s \in Sockets, Held(s), NEW k \in Socket, NEW r \in Entry,
         sock' = [sock EXCEPT ![s] = k],
         entry' = [entry EXCEPT ![current] = r],
         current' = current,
         shell' \in [Shells -> {"unborn", "live"} \cup Gone],
         \A sh \in Shells : shell[sh] # "unborn" => shell'[sh] # "unborn",
         k.phase \in Holding, k.of = current, r.socket = s,
         Linked(k, r)', EntryAgrees(current, r)'
  PROVE  TabTypes' /\ Agree'
<1>1. /\ current \in Entries /\ sock[s].of = current /\ entry[current].socket = s
  BY HeldIs
<1>2. /\ sock'[s] = k /\ entry'[current] = r
      /\ \A x \in Sockets \ {s} : sock'[x] = sock[x]
      /\ \A e \in Entries \ {current} : entry'[e] = entry[e]
  BY <1>1 DEF TabTypes
<1>3. TabTypes'
  BY <1>1 DEF TabTypes
<1>4. \A x \in Sockets \ {s} : ~Held(x)
  BY <1>1 DEF Agree, SocketsAgree
<1>5. SocketsAgree'
  <2> SUFFICES ASSUME NEW x \in Sockets
               PROVE  (IF Held(x)
                       THEN /\ current # NoEntry /\ sock[x].of = current
                            /\ entry[current].socket = x /\ Linked(sock[x], entry[current])
                       ELSE /\ sock[x].view = NoShell /\ sock[x].up = <<>>
                            /\ sock[x].phase = "closing" => sock[x].of # current)'
    BY DEF SocketsAgree
  <2>1. CASE x = s
    BY <1>1, <1>2, <2>1, EntryAssumption DEF Held
  <2>2. CASE x # s
    BY <1>2, <1>4, <2>2 DEF Held, Agree, SocketsAgree
  <2> QED BY <2>1, <2>2
<1>6. EntriesAgree'
  <2> SUFFICES ASSUME NEW e \in Entries
               PROVE  EntryAgrees(e, entry[e])'
    BY DEF EntriesAgree
  <2>1. CASE e = current
    BY <1>2, <2>1
  <2>2. CASE e # current
    BY <1>2, <2>2 DEF Agree, EntriesAgree, EntryAgrees, TabTypes, Entry, Ids
  <2> QED BY <2>1, <2>2
<1>7. LiveIsHeld'
  BY <1>1, <1>2 DEF LiveIsHeld, Held
<1> QED BY <1>3, <1>5, <1>6, <1>7 DEF Agree

(* The same of a step that changes no shell.                                 *)
LEMMA HeldMovesAlone ==
  ASSUME TabTypes, Agree, NEW s \in Sockets, Held(s), NEW k \in Socket, NEW r \in Entry,
         sock' = [sock EXCEPT ![s] = k],
         entry' = [entry EXCEPT ![current] = r],
         UNCHANGED <<current, shell>>,
         k.phase \in Holding, k.of = current, r.socket = s,
         Linked(k, r), EntryAgrees(current, r)
  PROVE  TabTypes' /\ Agree'
<1>1. Linked(k, r)' /\ EntryAgrees(current, r)'
  BY DEF Linked, EntryAgrees, Waits, Replays, Names, Errs, Views, Lives
<1> QED BY <1>1, HeldMoves DEF TabTypes

LEMMA OpenedKeeps ==
  ASSUME TabTypes, Agree, NEW s \in Sockets, Opened(s)
  PROVE  TabTypes' /\ Agree'
<1>1. Held(s) /\ sock[s].phase = "connecting"
  BY DEF Opened, Held, Holding
<1> PICK k0 : k0 = sock[s]
  OBVIOUS
<1> PICK r0 : r0 = entry[current]
  OBVIOUS
<1>2. /\ current \in Entries /\ k0.of = current /\ r0.socket = s /\ k0 \in Socket /\ r0 \in Entry
      /\ Linked(k0, r0) /\ EntryAgrees(current, r0)
  BY <1>1, HeldIs
<1> DEFINE p == OpensWith(r0)
           r == [r0 EXCEPT !.pending = p, !.replaying = (p = "attach")]
           k == [k0 EXCEPT !.phase = "open", !.up = <<Frame(p, r0.id)>>]
<1>3. p \in {"open", "attach"} /\ (p = "attach" <=> r0.id # NoShell)
  BY DEF OpensWith
<1>4. k0.up = <<>> /\ k0.down = <<>> /\ k0.view = NoShell /\ r0.state # "live"
  BY <1>1, <1>2 DEF Linked, Waits, Views, Lives
<1>5. r \in Entry /\ OpensWith(r) = p /\ r.id = r0.id /\ r.socket = s /\ r.state = r0.state
      /\ r.pending = p /\ r.replaying = (p = "attach") /\ r.timer = r0.timer
  BY <1>2, <1>3 DEF Entry, OpensWith
<1>6. Frame(p, r0.id) \in Frames
  BY <1>2, <1>3 DEF Frame, Frames, Entry
<1>7. /\ k \in Socket /\ k.phase = "open" /\ k.of = current /\ k.up = <<Frame(p, r0.id)>>
      /\ k.down = <<>> /\ k.view = NoShell
  <2>1. <<Frame(p, r0.id)>> \in Seq(Frames)
    BY <1>6
  <2> QED BY <1>2, <1>4, <2>1 DEF Socket
<1>8. /\ entry' = [entry EXCEPT ![current] = r]
      /\ sock' = Sent(r, Frame(p, r0.id), [sock EXCEPT ![s].phase = "open"])
      /\ UNCHANGED <<current, shell>>
  BY <1>2, <1>5 DEF Opened
<1>9. sock' = [sock EXCEPT ![s] = k]
  <2>1. sock' = [[sock EXCEPT ![s].phase = "open"] EXCEPT ![s].up = Append(@, Frame(p, r0.id))]
    BY <1>2, <1>5, <1>8 DEF Sent, TabTypes, Socket
  <2>2. Append(<<>>, Frame(p, r0.id)) = <<Frame(p, r0.id)>>
    OBVIOUS
  <2> QED BY <1>2, <1>4, <2>1, <2>2 DEF TabTypes, Socket
<1> HIDE DEF k, r, p
<1>10. Linked(k, r)
  <2>1. Waits(k, r)
    BY <1>3, <1>4, <1>5, <1>7 DEF Waits
  <2>2. Replays(k, r)
    BY <1>7 DEF Replays
  <2> QED BY <1>2, <1>4, <1>5, <1>7, <2>1, <2>2 DEF Linked, Names, Errs, Views, Lives
<1>11. EntryAgrees(current, r)
  BY <1>2, <1>3, <1>5 DEF EntryAgrees
<1> QED BY <1>1, <1>5, <1>7, <1>8, <1>9, <1>10, <1>11, HeldMovesAlone DEF Holding

(* What is left of the frames of a socket once it delivered the first.       *)
LEMMA TailIs ==
  ASSUME NEW d \in Seq(Frames), d # <<>>
  PROVE  /\ Tail(d) \in Seq(Frames) /\ Len(d) \in Nat \ {0} /\ 1 \in 1 .. Len(d) /\ Head(d) = d[1]
         /\ \A i \in 1 .. Len(Tail(d)) : /\ i \in Nat \ {0} /\ i + 1 \in 1 .. Len(d)
                                         /\ Tail(d)[i] = d[i + 1]
OBVIOUS

(* What a socket that delivers a frame was, and is.                          *)
LEMMA HearsIs ==
  ASSUME TabTypes, Agree, NEW s \in Sockets, NEW t, Hears(s, t)
  PROVE  /\ Held(s) /\ sock[s].phase \in {"open", "dropped"} /\ sock[s].down # <<>>
         /\ sock[s].up = <<>> /\ sock[s].down \in Seq(Frames)
         /\ sock[s].down[1].t = t
         /\ LET k == [sock[s] EXCEPT !.down = Tail(@)]
            IN  /\ k \in Socket /\ k.phase = sock[s].phase /\ k.of = sock[s].of
                /\ k.view = sock[s].view /\ k.up = <<>> /\ k.down = Tail(sock[s].down)
                /\ Heard(s) = [sock EXCEPT ![s] = k]
<1>1. Held(s) /\ sock[s].phase \in {"open", "dropped"} /\ sock[s].down # <<>>
  BY DEF Hears, Held, Holding
<1>2. sock[s] \in Socket /\ Linked(sock[s], entry[current])
  BY <1>1, HeldIs
<1>3. sock[s].up = <<>>
  BY <1>1, <1>2 DEF Linked, Waits
<1>4. sock[s].down \in Seq(Frames) /\ Tail(sock[s].down) \in Seq(Frames)
  BY <1>1, <1>2, TailIs DEF Socket
<1>5. sock[s].down[1].t = t
  BY <1>1, <1>4, TailIs DEF Hears
<1> QED BY <1>1, <1>2, <1>3, <1>4, <1>5 DEF Socket, Heard

(* A frame heard, its entry no longer replaying, leaves them linked.         *)
LEMMA HeardLinks ==
  ASSUME TabTypes, Agree, NEW s \in Sockets, NEW k \in Socket, NEW r \in Entry,
         Held(s), sock[s].phase \in {"open", "dropped"}, sock[s].down # <<>>, sock[s].up = <<>>,
         k.phase = sock[s].phase, k.view = sock[s].view, k.up = <<>>,
         k.down = Tail(sock[s].down),
         ~r.replaying, r.state # "closed", r.pending = entry[current].pending,
         \/ r.id = entry[current].id
         \/ sock[s].down[1].t = "ready" /\ r.id = sock[s].down[1].id,
         Lives(k, r)
  PROVE  Linked(k, r)
<1> PICK k0 : k0 = sock[s]
  OBVIOUS
<1> PICK r0 : r0 = entry[current]
  OBVIOUS
<1>1. Linked(k0, r0) /\ EntryAgrees(current, r0) /\ k0.down \in Seq(Frames)
  BY HeldIs DEF Socket
<1>2. /\ Len(k0.down) \in Nat \ {0} /\ 1 \in 1 .. Len(k0.down)
      /\ \A i \in 1 .. Len(k.down) : /\ i \in Nat \ {0} /\ i + 1 \in 1 .. Len(k0.down)
                                     /\ k.down[i] = k0.down[i + 1]
  BY <1>1, TailIs
<1>3. r.id # r0.id => /\ k0.down[1].t = "ready" /\ r.id = k0.down[1].id
                      /\ r0.id = NoShell /\ r0.pending # "attach"
  BY <1>1, <1>2 DEF Linked, Names, EntryAgrees
<1>4. Replays(k, r)
  BY <1>1, <1>2 DEF Linked, Replays
<1>5. Names(k, r)
  BY <1>1, <1>2, <1>3 DEF Linked, Names
<1>6. Errs(k, r) /\ Views(k, r) /\ Waits(k, r)
  BY <1>1, <1>2, <1>3 DEF Linked, Errs, Views, Waits
<1> QED BY <1>4, <1>5, <1>6 DEF Linked

(* Whatever comes after the answer finds the entry no longer replaying.      *)
LEMMA HistoryFirst ==
  ASSUME TabTypes, Agree, NEW s \in Sockets, NEW t, Hears(s, t), t \in {"output", "exit"}
  PROVE  ~entry[current].replaying
<1>1. /\ Linked(sock[s], entry[current]) /\ sock[s].phase \in {"open", "dropped"}
      /\ sock[s].up = <<>> /\ sock[s].down # <<>> /\ Head(sock[s].down).t = t
  BY HearsIs, HeldIs DEF Hears
<1> QED BY <1>1 DEF Linked, Replays

LEMMA BinaryKeeps ==
  ASSUME TabTypes, Agree, NEW s \in Sockets, Binary(s)
  PROVE  TabTypes' /\ Agree'
<1> PICK k : k = [sock[s] EXCEPT !.down = Tail(@)]
  OBVIOUS
<1> PICK r : r = [entry[current] EXCEPT !.replaying = FALSE]
  OBVIOUS
<1>1. PICK t : Hears(s, t)
  BY DEF Binary
<1>2. /\ Held(s) /\ current \in Entries /\ sock[s].of = current /\ entry[current].socket = s
      /\ entry[current] \in Entry /\ Linked(sock[s], entry[current])
      /\ EntryAgrees(current, entry[current])
  BY <1>1, HearsIs, HeldIs
<1>3. /\ r \in Entry /\ ~r.replaying /\ r.socket = s /\ r.id = entry[current].id
      /\ r.state = entry[current].state /\ r.pending = entry[current].pending
      /\ r.timer = entry[current].timer
  BY <1>2 DEF Entry
<1>4. /\ k \in Socket /\ k.phase = sock[s].phase /\ k.of = sock[s].of
      /\ k.view = sock[s].view /\ k.up = <<>> /\ k.down = Tail(sock[s].down)
      /\ Heard(s) = [sock EXCEPT ![s] = k]
  BY <1>1, HearsIs
<1>5. Linked(k, r)
  <2>1. Lives(k, r) /\ r.state # "closed"
    BY <1>2, <1>3, <1>4 DEF Linked, Lives
  <2>2. /\ sock[s].phase \in {"open", "dropped"} /\ sock[s].down # <<>> /\ sock[s].up = <<>>
    BY <1>1, HearsIs
  <2> QED BY <1>2, <1>3, <1>4, <2>1, <2>2, HeardLinks
<1>6. EntryAgrees(current, r)
  BY <1>2, <1>3 DEF EntryAgrees
<1>7. entry' = [entry EXCEPT ![current] = r] /\ sock' = [sock EXCEPT ![s] = k]
      /\ UNCHANGED <<current, shell>>
  BY <1>2, <1>4 DEF Binary, Unmuted, TabTypes
<1> QED BY <1>1, <1>2, <1>3, <1>4, <1>5, <1>6, <1>7, HeldMovesAlone, HearsIs DEF Held

LEMMA ReadyKeeps ==
  ASSUME TabTypes, Agree, NEW s \in Sockets, Ready(s)
  PROVE  TabTypes' /\ Agree'
<1> PICK k : k = [sock[s] EXCEPT !.down = Tail(@)]
  OBVIOUS
<1> PICK r : r = [entry[current] EXCEPT !.replaying = FALSE, !.id = sock[s].down[1].id,
                                        !.state = "live"]
  OBVIOUS
<1>1. Hears(s, "ready")
  BY DEF Ready
<1>2. /\ Held(s) /\ current \in Entries /\ sock[s].of = current /\ entry[current].socket = s
      /\ entry[current] \in Entry /\ Linked(sock[s], entry[current])
      /\ EntryAgrees(current, entry[current])
  BY <1>1, HearsIs, HeldIs
<1>3. /\ sock[s].down[1].t = "ready" /\ sock[s].down[1].id \in Shells
      /\ shell[sock[s].down[1].id] # "unborn"
      /\ sock[s].phase = "open" =>
           sock[s].down[1].id = sock[s].view \/ shell[sock[s].down[1].id] = "killed"
      /\ Head(sock[s].down) = sock[s].down[1]
  <2>1. /\ 1 \in 1 .. Len(sock[s].down) /\ sock[s].down[1].t = "ready"
        /\ Head(sock[s].down) = sock[s].down[1]
    BY <1>1, HearsIs, TailIs
  <2> QED BY <1>2, <2>1 DEF Linked, Names
<1>4. /\ r \in Entry /\ ~r.replaying /\ r.socket = s /\ r.id = sock[s].down[1].id
      /\ r.state = "live" /\ r.pending = entry[current].pending
      /\ r.timer = entry[current].timer
  BY <1>2, <1>3 DEF Entry, Ids, States
<1>5. /\ k \in Socket /\ k.phase = sock[s].phase /\ k.of = sock[s].of
      /\ k.view = sock[s].view /\ k.up = <<>> /\ k.down = Tail(sock[s].down)
      /\ Heard(s) = [sock EXCEPT ![s] = k]
  BY <1>1, HearsIs
<1>6. Linked(k, r)
  <2>1. Lives(k, r)
    BY <1>1, <1>3, <1>4, <1>5, HearsIs, ShellAssumption DEF Lives
  <2> QED BY <1>1, <1>3, <1>4, <1>5, <2>1, HearsIs, HeardLinks
<1>7. EntryAgrees(current, r)
  BY <1>2, <1>3, <1>4, ShellAssumption DEF EntryAgrees, Linked
<1>8. entry' = [entry EXCEPT ![current] = r] /\ sock' = [sock EXCEPT ![s] = k]
      /\ UNCHANGED <<current, shell>>
  <2>1. r = [Readied(entry[current], sock[s].down[1].id) EXCEPT !.state = "live"]
    BY <1>2 DEF Readied, Unmuted, Entry
  <2> QED BY <1>2, <1>3, <1>5, <2>1 DEF Ready, Emit
<1> QED BY <1>1, <1>2, <1>4, <1>5, <1>6, <1>7, <1>8, HeldMovesAlone, HearsIs DEF Held

(* The tab is told that its shell is no more, or that there is none.         *)
LEMMA ToldKeeps ==
  ASSUME TabTypes, Agree, NEW s \in Sockets, Exited(s) \/ Failed(s)
  PROVE  TabTypes' /\ Agree'
<1> PICK k : k = [sock[s] EXCEPT !.down = Tail(@)]
  OBVIOUS
<1>1. PICK t : Hears(s, t) /\ (t = "exit" \/ (t = "error" /\ entry[sock[s].of].pending = "open"))
  BY DEF Exited, Failed
<1>2. /\ Held(s) /\ current \in Entries /\ sock[s].of = current /\ entry[current].socket = s
      /\ entry[current] \in Entry /\ Linked(sock[s], entry[current])
      /\ EntryAgrees(current, entry[current])
  BY <1>1, HearsIs, HeldIs
<1>3. PICK state \in {"ended", "failed"} : entry' = [entry EXCEPT ![current] = [@ EXCEPT !.state = state]]
  BY <1>2 DEF Exited, Failed, Emit
<1> PICK r : r = [entry[current] EXCEPT !.state = state]
  OBVIOUS
<1>4. ~entry[current].replaying
  BY <1>1, <1>2, HistoryFirst DEF EntryAgrees
<1>5. /\ r \in Entry /\ ~r.replaying /\ r.socket = s /\ r.id = entry[current].id
      /\ r.state \in {"ended", "failed"} /\ r.pending = entry[current].pending
      /\ r.timer = entry[current].timer
  BY <1>2, <1>4 DEF Entry, States
<1>6. /\ k \in Socket /\ k.phase = sock[s].phase /\ k.of = sock[s].of
      /\ k.view = sock[s].view /\ k.up = <<>> /\ k.down = Tail(sock[s].down)
      /\ Heard(s) = [sock EXCEPT ![s] = k]
  BY <1>1, HearsIs
<1>7. Linked(k, r)
  <2>1. Lives(k, r)
    BY <1>5 DEF Lives
  <2>2. /\ Held(s) /\ sock[s].phase \in {"open", "dropped"}
        /\ sock[s].down # <<>> /\ sock[s].up = <<>>
    BY <1>1, HearsIs
  <2>3. r.state # "closed"
    BY <1>5
  <2> QED BY <1>5, <1>6, <2>1, <2>2, <2>3, HeardLinks
<1>8. EntryAgrees(current, r)
  BY <1>2, <1>5 DEF EntryAgrees, Linked
<1>9. entry' = [entry EXCEPT ![current] = r] /\ sock' = [sock EXCEPT ![s] = k]
      /\ UNCHANGED <<current, shell>>
  BY <1>2, <1>3, <1>6 DEF Exited, Failed, TabTypes
<1> QED BY <1>1, <1>2, <1>5, <1>6, <1>7, <1>8, <1>9, HeldMovesAlone, HearsIs DEF Held
(* The shell is gone: the tab asks for a fresh one on the same socket.       *)
LEMMA FallBackKeeps ==
  ASSUME TabTypes, Agree, NEW s \in Sockets, FallBack(s)
  PROVE  TabTypes' /\ Agree'
<1> PICK k0 : k0 = sock[s]
  OBVIOUS
<1> PICK r0 : r0 = entry[current]
  OBVIOUS
<1> PICK r : r = [r0 EXCEPT !.replaying = FALSE, !.id = NoShell, !.pending = "open"]
  OBVIOUS
<1> PICK up : up = IF k0.phase = "open" THEN <<Frame("open", NoShell)>> ELSE <<>>
  OBVIOUS
<1> PICK k : k = [k0 EXCEPT !.down = Tail(@), !.up = up]
  OBVIOUS
<1>1. Hears(s, "error")
  BY DEF FallBack
<1>2. /\ Held(s) /\ current \in Entries /\ k0.of = current /\ r0.socket = s
      /\ k0 \in Socket /\ r0 \in Entry /\ Linked(k0, r0) /\ EntryAgrees(current, r0)
  BY <1>1, HearsIs, HeldIs
<1>3. /\ k0.phase \in {"open", "dropped"} /\ k0.down # <<>> /\ k0.up = <<>>
      /\ k0.down \in Seq(Frames) /\ k0.down[1].t = "error" /\ r0.pending = "attach"
  BY <1>1, <1>2, HearsIs DEF FallBack
<1>4. /\ r \in Entry /\ r.socket = s /\ r.id = NoShell /\ ~r.replaying /\ r.pending = "open"
      /\ r.state = r0.state /\ r.timer = r0.timer
  BY <1>2 DEF Entry, Ids
<1>5. up \in Seq(Frames)
  <2>1. Frame("open", NoShell) \in Frames
    BY DEF Frame, Frames, Ids
  <2>2. <<Frame("open", NoShell)>> \in Seq(Frames) /\ <<>> \in Seq(Frames)
    BY <2>1
  <2> QED BY <2>2
<1>6. /\ k \in Socket /\ k.phase = k0.phase /\ k.of = current /\ k.view = k0.view
      /\ k.up = up /\ k.down = Tail(k0.down)
  BY <1>2, <1>3, <1>5, TailIs DEF Socket
<1>7. /\ Len(k0.down) \in Nat \ {0} /\ 1 \in 1 .. Len(k0.down)
      /\ Tail(k0.down) \in Seq(Frames)
      /\ \A i \in 1 .. Len(k.down) : /\ i \in Nat \ {0} /\ i + 1 \in 1 .. Len(k0.down)
                                     /\ k.down[i] = k0.down[i + 1]
  BY <1>3, <1>6, TailIs
<1>8. k0.phase = "open" => k0.view = NoShell /\ Len(k0.down) = 1 /\ r0.state # "live"
  BY <1>2, <1>3, <1>7 DEF Linked, Errs
<1>9. k.phase = "open" => k.down = <<>>
  <2>1. ASSUME Len(k0.down) = 1 PROVE Len(Tail(k0.down)) = 0
    BY <1>3, <2>1
  <2> QED BY <1>6, <1>7, <1>8, <2>1
<1>10. Linked(k, r)
  <2>1. Waits(k, r)
    BY <1>3, <1>4, <1>6, <1>8, <1>9 DEF Waits
  <2>2. Replays(k, r)
    BY <1>2, <1>4, <1>7 DEF Linked, Replays
  <2>3. Names(k, r)
    BY <1>2, <1>4, <1>6, <1>7 DEF Linked, Names
  <2>4. Errs(k, r)
    BY <1>4, <1>6, <1>8, <1>9 DEF Errs
  <2>5. Views(k, r) /\ Lives(k, r)
    BY <1>2, <1>3, <1>4, <1>6, <1>8 DEF Linked, Views, Lives
  <2> QED BY <1>2, <1>3, <1>4, <1>6, <2>1, <2>2, <2>3, <2>4, <2>5 DEF Linked
<1>11. EntryAgrees(current, r)
  BY <1>2, <1>4 DEF EntryAgrees, Linked
<1>12. entry' = [entry EXCEPT ![current] = r] /\ UNCHANGED <<current, shell>>
  BY <1>2, <1>4 DEF FallBack, Unmuted, Entry
<1>13. sock' = [sock EXCEPT ![s] = k]
  <2>1. sock' = Sent(r, Frame("open", NoShell), [sock EXCEPT ![s].down = Tail(@)])
    BY <1>2 DEF FallBack, Unmuted, Heard, Entry
  <2>2. [sock EXCEPT ![s].down = Tail(@)][s] = [k0 EXCEPT !.down = Tail(@)]
    BY DEF TabTypes
  <2>3. CASE k0.phase = "open"
    <3>1. [sock EXCEPT ![s].down = Tail(@)][r.socket].phase = "open"
      BY <1>2, <1>4, <2>2, <2>3 DEF Socket
    <3>2. sock' = [[sock EXCEPT ![s].down = Tail(@)]
                     EXCEPT ![s].up = Append(@, Frame("open", NoShell))]
      BY <1>4, <2>1, <3>1 DEF Sent
    <3>3. Append(<<>>, Frame("open", NoShell)) = <<Frame("open", NoShell)>>
      OBVIOUS
    <3> QED BY <1>2, <1>3, <2>2, <2>3, <3>2, <3>3 DEF TabTypes, Socket
  <2>4. CASE k0.phase # "open"
    <3>1. [sock EXCEPT ![s].down = Tail(@)][r.socket].phase # "open"
      BY <1>2, <1>4, <2>2, <2>4 DEF Socket
    <3>2. sock' = [sock EXCEPT ![s].down = Tail(@)]
      BY <2>1, <3>1 DEF Sent
    <3>3. k = [k0 EXCEPT !.down = Tail(@)]
      BY <1>2, <1>3, <2>4 DEF Socket
    <3> QED BY <3>2, <3>3
  <2> QED BY <2>3, <2>4
<1> QED BY <1>2, <1>4, <1>6, <1>10, <1>11, <1>12, <1>13, HeldMovesAlone DEF Held
-----------------------------------------------------------------------------
(* Sockets taken, and let go.                                                *)

\* A socket just wired to an entry.
IsWired(k, e) == /\ k.phase = "connecting" /\ k.of = e /\ k.view = NoShell
                 /\ k.up = <<>> /\ k.down = <<>>

LEMMA WiredIs ==
  ASSUME NEW socks \in [Sockets -> Socket], NEW e \in Entries, NEW s \in Sockets
  PROVE  /\ Wired(e, socks, s) \in [Sockets -> Socket]
         /\ IsWired(Wired(e, socks, s)[s], e)
         /\ \A x \in Sockets \ {s} : Wired(e, socks, s)[x] = socks[x]
<1> PICK k : k = [FreeSocket EXCEPT !.phase = "connecting", !.of = e]
  OBVIOUS
<1>1. FreeSocket \in Socket
  <2>1. <<>> \in Seq(Frames)
    OBVIOUS
  <2> QED BY <2>1 DEF FreeSocket, Socket, Ids
<1>2. FreeSocket.view = NoShell /\ FreeSocket.up = <<>> /\ FreeSocket.down = <<>>
  BY DEF FreeSocket
<1>3. k \in Socket /\ IsWired(k, e)
  BY <1>1, <1>2 DEF Socket, IsWired
<1> QED BY <1>3 DEF Wired

LEMMA DetachedIs ==
  ASSUME TabTypes, NEW s \in Sockets
  PROVE  /\ Detached(sock, s) \in [Sockets -> Socket]
         /\ \A x \in Sockets \ {s} : Detached(sock, s)[x] = sock[x]
         /\ Detached(sock, s)[s].of = sock[s].of
         /\ IF sock[s].phase = "closed" THEN Detached(sock, s)[s] = sock[s]
            ELSE /\ Detached(sock, s)[s].phase = "closing"
                 /\ Detached(sock, s)[s].view = NoShell /\ Detached(sock, s)[s].up = <<>>
<1> PICK k : k = [sock[s] EXCEPT !.phase = "closing", !.view = NoShell, !.up = <<>>, !.down = <<>>]
  OBVIOUS
<1>1. /\ k.phase = "closing" /\ k.view = NoShell /\ k.up = <<>>
      /\ sock[s].phase # "closed" => k \in Socket /\ k.of = sock[s].of
  <2>1. <<>> \in Seq(Frames) /\ sock[s] \in Socket
    BY DEF TabTypes
  <2> QED BY <2>1 DEF Socket, Ids
<1>2. CASE sock[s].phase = "closed"
  BY <1>2 DEF Detached, TabTypes
<1>3. CASE sock[s].phase # "closed"
  <2>1. Detached(sock, s) = [sock EXCEPT ![s] = k]
    BY <1>3 DEF Detached, TabTypes
  <2> QED BY <1>1, <1>3, <2>1 DEF TabTypes
<1> QED BY <1>2, <1>3

(* A socket that is not held has been let go of, and not by the entry shown. *)
LEMMA UnheldIs ==
  ASSUME TabTypes, Agree, NEW s \in Sockets, ~Held(s)
  PROVE  /\ sock[s].phase \in {"closing", "closed"}
         /\ sock[s].view = NoShell /\ sock[s].up = <<>>
         /\ sock[s].phase = "closing" => sock[s].of # current
BY DEF TabTypes, Agree, SocketsAgree, Held, Holding, Socket

(* A tab with no entry, or whose entry says its socket closed, holds none.   *)
LEMMA NoneHeld ==
  ASSUME TabTypes, Agree, current = NoEntry \/ entry[current].state = "closed",
         NEW s \in Sockets
  PROVE  ~Held(s)
BY DEF Agree, SocketsAgree, Linked

(* What a socket, as a step leaves it, is when the tab let go of it.         *)
LetGo(k, shown) == /\ k.phase \in {"closing", "closed"} /\ k.view = NoShell /\ k.up = <<>>
                   /\ k.phase = "closing" => k.of # shown

(* A step that wires a new socket to the entry shown, all others let go.     *)
LEMMA WiredKeeps ==
  ASSUME NEW e \in Entries, NEW s \in Sockets,
         current' = e, TabTypes',
         entry'[e].socket = s, entry'[e].state = "opening",
         IsWired(sock'[s], e),
         \A x \in Sockets \ {s} : LetGo(sock'[x], e),
         EntriesAgree'
  PROVE  Agree'
<1>1. SocketsAgree'
  <2> SUFFICES ASSUME NEW x \in Sockets
               PROVE  (IF Held(x)
                       THEN /\ current # NoEntry /\ sock[x].of = current
                            /\ entry[current].socket = x /\ Linked(sock[x], entry[current])
                       ELSE /\ sock[x].view = NoShell /\ sock[x].up = <<>>
                            /\ sock[x].phase = "closing" => sock[x].of # current)'
    BY DEF SocketsAgree
  <2>1. CASE x = s
    <3>1. /\ sock'[s].phase = "connecting" /\ sock'[s].of = e /\ sock'[s].view = NoShell
          /\ sock'[s].up = <<>> /\ sock'[s].down = <<>> /\ Len(sock'[s].down) = 0
      BY DEF IsWired
    <3>2. Linked(sock[s], entry[current])'
      BY <3>1 DEF Linked, Waits, Replays, Names, Errs, Views, Lives
    <3> QED BY <2>1, <3>1, <3>2, EntryAssumption DEF Held, Holding
  <2>2. CASE x # s
    BY <2>2 DEF LetGo, Held, Holding
  <2> QED BY <2>1, <2>2
<1>2. LiveIsHeld'
  BY DEF LiveIsHeld
<1> QED BY <1>1, <1>2 DEF Agree

(* A step after which the tab holds no socket.                               *)
LEMMA UnwiredKeeps ==
  ASSUME \A x \in Sockets : LetGo(sock'[x], current'),
         EntriesAgree',
         current' # NoEntry => entry'[current'].state # "live"
  PROVE  Agree'
BY DEF LetGo, Agree, SocketsAgree, LiveIsHeld, Held, Holding

LEMMA ReconnectKeeps ==
  ASSUME TabTypes, Agree, NEW e \in Entries, NEW s \in Sockets, Reconnect(e, s)
  PROVE  TabTypes' /\ Agree'
<1> PICK r : r = [entry[e] EXCEPT !.timer = FALSE, !.socket = s, !.state = "opening"]
  OBVIOUS
<1>1. e = current /\ entry[e].state = "closed" /\ entry[e] \in Entry
  BY DEF Reconnect, Agree, EntriesAgree, EntryAgrees, TabTypes
<1>2. /\ r \in Entry /\ r.socket = s /\ r.state = "opening" /\ ~r.timer
      /\ r.id = entry[e].id /\ r.pending = entry[e].pending /\ r.replaying = entry[e].replaying
  BY <1>1 DEF Entry, States
<1>3. /\ entry' = [entry EXCEPT ![e] = r] /\ sock' = Wired(e, sock, s)
      /\ UNCHANGED <<current, shell>>
  BY <1>1 DEF Reconnect, Emit, Entry
<1>4. /\ sock' \in [Sockets -> Socket]
      /\ IsWired(sock'[s], e)
      /\ \A x \in Sockets \ {s} : sock'[x] = sock[x]
  BY <1>1, <1>3, WiredIs DEF TabTypes
<1>5. TabTypes' /\ entry'[e] = r /\ current' = e
  BY <1>1, <1>2, <1>3, <1>4 DEF TabTypes
<1>6. EntriesAgree'
  BY <1>1, <1>2, <1>3 DEF EntriesAgree, EntryAgrees, Agree, TabTypes
<1>7. \A x \in Sockets \ {s} : LetGo(sock'[x], e)
  BY <1>1, <1>4, UnheldIs, NoneHeld DEF LetGo
<1> QED BY <1>1, <1>2, <1>4, <1>5, <1>6, <1>7, WiredKeeps

LEMMA ReattachKeeps ==
  ASSUME TabTypes, Agree, NEW s \in Sockets, Reattach(s)
  PROVE  TabTypes' /\ Agree'
<1> PICK e : e = current
  OBVIOUS
<1> PICK r : r = [entry[e] EXCEPT !.timer = FALSE, !.socket = s, !.state = "opening"]
  OBVIOUS
<1>1. e = current /\ e \in Entries /\ entry[e].state = "closed" /\ entry[e] \in Entry
  BY DEF Reattach, Reattachable, TabTypes
<1>2. /\ r \in Entry /\ r.socket = s /\ r.state = "opening" /\ ~r.timer
      /\ r.id = entry[e].id /\ r.pending = entry[e].pending /\ r.replaying = entry[e].replaying
  BY <1>1 DEF Entry, States
<1>3. /\ entry' = [entry EXCEPT ![e] = r] /\ sock' = Wired(e, sock, s)
      /\ UNCHANGED <<current, shell>>
  BY <1>1 DEF Reattach, Emit, Entry, Timerless, TabTypes
<1>4. /\ sock' \in [Sockets -> Socket]
      /\ IsWired(sock'[s], e)
      /\ \A x \in Sockets \ {s} : sock'[x] = sock[x]
  BY <1>1, <1>3, WiredIs DEF TabTypes
<1>5. TabTypes' /\ entry'[e] = r /\ current' = e
  BY <1>1, <1>2, <1>3, <1>4 DEF TabTypes
<1>6. EntriesAgree'
  BY <1>1, <1>2, <1>3 DEF EntriesAgree, EntryAgrees, Agree, TabTypes
<1>7. \A x \in Sockets \ {s} : LetGo(sock'[x], e)
  BY <1>1, <1>4, UnheldIs, NoneHeld DEF LetGo
<1> QED BY <1>1, <1>2, <1>4, <1>5, <1>6, <1>7, WiredKeeps

LEMMA NewEntryIs ==
  ASSUME NEW target \in Ids, NEW s \in Sockets
  PROVE  /\ NewEntry(target, s) \in Entry
         /\ NewEntry(target, s).id = target /\ NewEntry(target, s).socket = s
         /\ NewEntry(target, s).state = "opening" /\ NewEntry(target, s).pending = "open"
         /\ ~NewEntry(target, s).replaying /\ ~NewEntry(target, s).timer
BY DEF NewEntry, Entry, States

LEMMA ChooseKeeps ==
  ASSUME TabTypes, Agree, NEW target \in Ids, target # NoShell => shell[target] # "unborn",
         NEW e \in Entries, NEW s \in Sockets, Choose(target, e, s)
  PROVE  TabTypes' /\ Agree'
<1>1. CASE current # NoEntry
  <2>1. UNCHANGED <<current, entry, sock, shell>>
    BY <1>1 DEF Choose
  <2> QED BY <2>1 DEF TabTypes, Agree, SocketsAgree, EntriesAgree, LiveIsHeld, EntryAgrees,
                      Linked, Waits, Replays, Names, Errs, Views, Lives, Held
<1>2. CASE current = NoEntry
  <2> PICK r : r = NewEntry(target, s)
    OBVIOUS
  <2>1. /\ current' = e /\ shell' = shell
        /\ entry' = [entry EXCEPT ![e] = r] /\ sock' = Wired(e, sock, s)
        /\ \A x \in Sockets : sock[x].of = e => sock[x].phase = "closed"
    BY <1>2 DEF Choose, Spare
  <2>2. /\ r \in Entry /\ r.id = target /\ r.socket = s /\ r.state = "opening"
        /\ r.pending = "open" /\ ~r.replaying /\ ~r.timer
    BY NewEntryIs
  <2>3. /\ sock' \in [Sockets -> Socket]
        /\ IsWired(sock'[s], e)
        /\ \A x \in Sockets \ {s} : sock'[x] = sock[x]
    BY <2>1, WiredIs DEF TabTypes
  <2>4. TabTypes' /\ entry'[e] = r /\ \A d \in Entries \ {e} : entry'[d] = entry[d]
    BY <2>1, <2>2, <2>3 DEF TabTypes
  <2>5. EntriesAgree'
    BY <1>2, <2>1, <2>2, <2>4, EntryAssumption DEF EntriesAgree, EntryAgrees, Agree, TabTypes
  <2>6. \A x \in Sockets \ {s} : LetGo(sock'[x], e)
    BY <1>2, <2>1, <2>3, UnheldIs, NoneHeld DEF LetGo
  <2> QED BY <2>1, <2>2, <2>3, <2>4, <2>5, <2>6, WiredKeeps
<1> QED BY <1>1, <1>2
LEMMA TimerlessIs ==
  ASSUME TabTypes, current \in Entries
  PROVE  LET t == [entry[current] EXCEPT !.timer = FALSE]
         IN  /\ Timerless(current) = [entry EXCEPT ![current] = t]
             /\ t \in Entry /\ ~t.timer /\ t.id = entry[current].id
             /\ t.pending = entry[current].pending /\ t.replaying = entry[current].replaying
             /\ t.state = entry[current].state
<1>1. entry[current] \in Entry
  BY DEF TabTypes
<1> QED BY <1>1 DEF Timerless, TabTypes, Entry

(* Disposed of, an entry holds no socket and no timer.                       *)
LEMMA DisposedIs ==
  ASSUME TabTypes, Agree, current \in Entries
  PROVE  /\ Timerless(current) \in [Entries -> Entry]
         /\ \A e \in Entries : /\ ~Timerless(current)[e].timer
                               /\ Timerless(current)[e].id = entry[e].id
                               /\ Timerless(current)[e].pending = entry[e].pending
                               /\ Timerless(current)[e].replaying = entry[e].replaying
         /\ Detached(sock, entry[current].socket) \in [Sockets -> Socket]
         /\ \A x \in Sockets :
              LET k == Detached(sock, entry[current].socket)[x]
              IN  /\ k.phase \in {"closing", "closed"} /\ k.view = NoShell /\ k.up = <<>>
                  /\ k.of = sock[x].of /\ (sock[x].phase = "closed" => k.phase = "closed")
<1>1. entry[current].socket \in Sockets
  BY DEF TabTypes, Entry
<1>2. /\ Timerless(current) \in [Entries -> Entry]
      /\ \A e \in Entries : /\ ~Timerless(current)[e].timer
                            /\ Timerless(current)[e].id = entry[e].id
                            /\ Timerless(current)[e].pending = entry[e].pending
                            /\ Timerless(current)[e].replaying = entry[e].replaying
  <2> PICK t : t = [entry[current] EXCEPT !.timer = FALSE]
    OBVIOUS
  <2>1. /\ Timerless(current) = [entry EXCEPT ![current] = t]
        /\ t \in Entry /\ ~t.timer /\ t.id = entry[current].id
        /\ t.pending = entry[current].pending /\ t.replaying = entry[current].replaying
    BY TimerlessIs
  <2>2. \A e \in Entries \ {current} : ~entry[e].timer
    BY DEF Agree, EntriesAgree, EntryAgrees, TabTypes, Entry
  <2> QED BY <2>1, <2>2 DEF TabTypes
<1>3. \A x \in Sockets : x # entry[current].socket => ~Held(x)
  BY DEF Agree, SocketsAgree
<1>4. \A x \in Sockets \ {entry[current].socket} :
        /\ Detached(sock, entry[current].socket)[x] = sock[x]
        /\ sock[x].phase \in {"closing", "closed"} /\ sock[x].view = NoShell /\ sock[x].up = <<>>
  BY <1>1, <1>3, DetachedIs, UnheldIs
<1>5. LET k == Detached(sock, entry[current].socket)[entry[current].socket]
      IN  /\ k.phase \in {"closing", "closed"} /\ k.view = NoShell /\ k.up = <<>>
          /\ k.of = sock[entry[current].socket].of
          /\ sock[entry[current].socket].phase = "closed" => k.phase = "closed"
  <2>1. CASE sock[entry[current].socket].phase = "closed"
    BY <1>1, <2>1, DetachedIs, UnheldIs DEF Held, Holding
  <2>2. CASE sock[entry[current].socket].phase # "closed"
    BY <1>1, <2>2, DetachedIs
  <2> QED BY <2>1, <2>2
<1>6. Detached(sock, entry[current].socket) \in [Sockets -> Socket]
  BY <1>1, DetachedIs
<1> QED BY <1>2, <1>4, <1>5, <1>6

LEMMA ReplaceKeeps ==
  ASSUME TabTypes, Agree, NEW e \in Entries, NEW s \in Sockets, Replace(e, s)
  PROVE  TabTypes' /\ Agree'
<1> PICK T : T = Timerless(current)
  OBVIOUS
<1> PICK D : D = Detached(sock, entry[current].socket)
  OBVIOUS
<1> PICK r : r = NewEntry(NoShell, s)
  OBVIOUS
<1>1. /\ current \in Entries /\ e # current /\ current' = e /\ shell' = shell
      /\ entry' = [T EXCEPT ![e] = r] /\ sock' = Wired(e, D, s)
      /\ \A x \in Sockets : sock[x].of = e => sock[x].phase = "closed"
  BY DEF Replace, Spare, TabTypes
<1>2. /\ T \in [Entries -> Entry] /\ D \in [Sockets -> Socket]
      /\ \A d \in Entries : /\ ~T[d].timer /\ T[d].id = entry[d].id
                            /\ T[d].pending = entry[d].pending
                            /\ T[d].replaying = entry[d].replaying
      /\ \A x \in Sockets : LetGo(D[x], e)
  BY <1>1, DisposedIs DEF LetGo
<1>3. /\ r \in Entry /\ r.id = NoShell /\ r.socket = s /\ r.state = "opening"
      /\ r.pending = "open" /\ ~r.replaying /\ ~r.timer
  BY NewEntryIs DEF Ids
<1>4. /\ sock' \in [Sockets -> Socket] /\ IsWired(sock'[s], e)
      /\ \A x \in Sockets \ {s} : sock'[x] = D[x]
  BY <1>1, <1>2, WiredIs
<1>5. TabTypes' /\ entry'[e] = r /\ \A d \in Entries \ {e} : entry'[d] = T[d]
  BY <1>1, <1>2, <1>3, <1>4 DEF TabTypes
<1>6. EntriesAgree'
  BY <1>1, <1>2, <1>3, <1>5 DEF EntriesAgree, EntryAgrees, Agree
<1>7. \A x \in Sockets \ {s} : LetGo(sock'[x], e)
  BY <1>2, <1>4
<1> QED BY <1>1, <1>3, <1>4, <1>5, <1>6, <1>7, WiredKeeps

LEMMA CloseTabKeeps ==
  ASSUME TabTypes, Agree, CloseTab
  PROVE  TabTypes' /\ Agree'
<1>1. current' = NoEntry /\ shell' = shell
  BY DEF CloseTab
<1>2. CASE current = NoEntry
  <2>1. entry' = entry /\ sock' = sock
    BY <1>2 DEF CloseTab
  <2>2. TabTypes'
    BY <1>1, <2>1 DEF TabTypes
  <2>3. EntriesAgree'
    BY <1>1, <1>2, <2>1 DEF EntriesAgree, EntryAgrees, Agree
  <2>4. \A x \in Sockets : LetGo(sock'[x], NoEntry)
    BY <1>2, <2>1, UnheldIs, NoneHeld DEF LetGo
  <2> QED BY <1>1, <2>2, <2>3, <2>4, UnwiredKeeps
<1>3. CASE current # NoEntry
  <2> PICK T : T = Timerless(current)
    OBVIOUS
  <2> PICK D : D = Detached(sock, entry[current].socket)
    OBVIOUS
  <2>1. current \in Entries /\ entry' = T /\ sock' = D
    BY <1>3 DEF CloseTab, TabTypes
  <2>2. /\ T \in [Entries -> Entry] /\ D \in [Sockets -> Socket]
        /\ \A d \in Entries : /\ ~T[d].timer /\ T[d].id = entry[d].id
                              /\ T[d].pending = entry[d].pending
                              /\ T[d].replaying = entry[d].replaying
        /\ \A x \in Sockets : LetGo(D[x], NoEntry)
    <3>1. \A x \in Sockets : /\ D[x].phase \in {"closing", "closed"}
                             /\ D[x].view = NoShell /\ D[x].up = <<>>
      BY <2>1, DisposedIs
    <3>2. D \in [Sockets -> Socket]
      BY <2>1, DisposedIs
    <3>3. \A x \in Sockets : LetGo(D[x], NoEntry)
      BY <3>1, <3>2, EntryAssumption DEF LetGo, Socket
    <3> QED BY <2>1, <3>2, <3>3, DisposedIs
  <2>3. TabTypes'
    BY <1>1, <2>1, <2>2 DEF TabTypes
  <2>4. EntriesAgree'
    BY <1>1, <2>1, <2>2 DEF EntriesAgree, EntryAgrees, Agree
  <2> QED BY <1>1, <2>1, <2>2, <2>3, <2>4, UnwiredKeeps
<1> QED BY <1>2, <1>3

LEMMA FreeSocketIs ==
  /\ FreeSocket \in Socket /\ FreeSocket.phase = "closed"
  /\ FreeSocket.view = NoShell /\ FreeSocket.up = <<>>
<1>1. <<>> \in Seq(Frames)
  OBVIOUS
<1> QED BY <1>1 DEF FreeSocket, Socket, Ids

(* The close event of a socket the tab let go of changes nothing it shows;   *)
(* that of the one it holds leaves it with none.                             *)
LEMMA ClosedKeeps ==
  ASSUME TabTypes, Agree, NEW s \in Sockets, Closed(s)
  PROVE  TabTypes' /\ Agree'
<1> PICK e : e = sock[s].of
  OBVIOUS
<1> PICK timer : timer = (entry[e].timer \/ Schedules(e))
  OBVIOUS
<1> PICK r : r = IF entry[e].state \in {"ended", "failed"} THEN entry[e]
                 ELSE [entry[e] EXCEPT !.timer = timer, !.state = "closed"]
  OBVIOUS
<1>1. e \in Entries /\ entry[e] \in Entry
  BY DEF Closed, TabTypes, Socket
<1>2. timer \in BOOLEAN /\ (e # current => timer = entry[e].timer)
  BY <1>1 DEF Schedules, Entry
<1>3. /\ r \in Entry /\ r.id = entry[e].id /\ r.socket = entry[e].socket
      /\ r.pending = entry[e].pending /\ r.replaying = entry[e].replaying
      /\ r.state \in {"ended", "failed", "closed"}
      /\ (r.timer /\ ~entry[e].timer => e = current /\ r.state = "closed")
      /\ (entry[e].state = "closed" => r.state = "closed")
  BY <1>1, <1>2 DEF Entry, States
<1>4. /\ entry' = [entry EXCEPT ![e] = r] /\ sock' = [sock EXCEPT ![s] = FreeSocket]
      /\ UNCHANGED <<current, shell>>
  BY <1>1 DEF Closed, Emit, TabTypes, Entry
<1>5. /\ entry'[e] = r /\ \A d \in Entries \ {e} : entry'[d] = entry[d]
      /\ sock'[s] = FreeSocket /\ \A x \in Sockets \ {s} : sock'[x] = sock[x]
  BY <1>1, <1>4 DEF TabTypes
<1>6. TabTypes'
  BY <1>3, <1>4, FreeSocketIs DEF TabTypes
<1>7. EntriesAgree'
  <2>1. EntriesAgree
    BY DEF Agree
  <2>2. ASSUME NEW d \in Entries
        PROVE  EntryAgrees(d, entry[d])'
    <3>1. CASE d = e
      <4>1. EntryAgrees(e, entry[e]) /\ shell' = shell /\ current' = current
        BY <1>1, <1>4, <2>1 DEF EntriesAgree
      <4>2. EntryAgrees(e, r)'
        BY <1>1, <1>3, <4>1 DEF EntryAgrees
      <4> QED BY <1>5, <3>1, <4>2
    <3>2. CASE d # e
      BY <1>4, <1>5, <2>1, <3>2 DEF EntriesAgree, EntryAgrees
    <3> QED BY <3>1, <3>2
  <2> QED BY <2>2 DEF EntriesAgree
<1>8. CASE Held(s)
  <2>1. e = current /\ \A x \in Sockets \ {s} : ~Held(x)
    BY <1>8, HeldIs
  <2>2. \A x \in Sockets : LetGo(sock'[x], current')
    BY <1>4, <1>5, <2>1, UnheldIs, FreeSocketIs DEF LetGo
  <2>3. entry'[current'].state # "live"
    BY <1>3, <1>4, <1>5, <2>1
  <2> QED BY <1>6, <1>7, <2>2, <2>3, UnwiredKeeps
<1>9. CASE ~Held(s)
  <2>1. e # current
    BY <1>9, UnheldIs DEF Closed, Held, Holding
  <2>2. current \in Entries => entry'[current] = entry[current]
    BY <1>5, <2>1
  <2>3. SocketsAgree'
    <3> SUFFICES ASSUME NEW x \in Sockets
                 PROVE  (IF Held(x)
                         THEN /\ current # NoEntry /\ sock[x].of = current
                              /\ entry[current].socket = x /\ Linked(sock[x], entry[current])
                         ELSE /\ sock[x].view = NoShell /\ sock[x].up = <<>>
                              /\ sock[x].phase = "closing" => sock[x].of # current)'
      BY DEF SocketsAgree
    <3>1. CASE x = s
      BY <1>5, <3>1, FreeSocketIs DEF Held, Holding
    <3>2. CASE x # s /\ Held(x)
      <4> PICK k0 : k0 = sock[x]
        OBVIOUS
      <4> PICK r0 : r0 = entry[current]
        OBVIOUS
      <4>1. /\ current \in Entries /\ k0.of = current /\ r0.socket = x /\ Linked(k0, r0)
        BY <3>2, HeldIs
      <4>2. current' = current /\ sock'[x] = k0 /\ entry'[current'] = r0
        BY <1>4, <1>5, <2>2, <3>2, <4>1
      <4>3. shell' = shell
        BY <1>4
      <4>4. Linked(k0, r0)'
        BY <4>1, <4>3, LinkedStays
      <4> QED BY <3>2, <4>1, <4>2, <4>4, EntryAssumption DEF Held
    <3>3. CASE x # s /\ ~Held(x)
      BY <1>4, <1>5, <3>3, UnheldIs DEF Held
    <3> QED BY <3>1, <3>2, <3>3
  <2>4. LiveIsHeld'
    <3> SUFFICES ASSUME current # NoEntry, entry'[current].state = "live"
                 PROVE  Held(entry[current].socket)'
      BY <1>4 DEF LiveIsHeld
    <3>1. current \in Entries /\ entry'[current] = entry[current]
      BY <2>2 DEF TabTypes
    <3>2. Held(entry[current].socket) /\ entry[current].socket \in Sockets
      BY <3>1 DEF Agree, LiveIsHeld, TabTypes, Entry
    <3>3. entry[current].socket # s
      BY <1>9, <3>2
    <3>4. entry'[current'].socket = entry[current].socket
          /\ sock'[entry[current].socket] = sock[entry[current].socket]
      BY <1>4, <1>5, <3>1, <3>2, <3>3
    <3> QED BY <3>2, <3>4 DEF Held
  <2> QED BY <1>6, <1>7, <2>3, <2>4 DEF Agree
<1> QED BY <1>8, <1>9
-----------------------------------------------------------------------------
(* The host and the network.                                                 *)

\* A shell that was there stays there, and one that is gone stays gone.
ShellsGoOn ==
  /\ shell' \in [Shells -> {"unborn", "live"} \cup Gone]
  /\ \A sh \in Shells : /\ shell[sh] # "unborn" => shell'[sh] # "unborn"
                        /\ shell[sh] \in Gone => shell'[sh] = shell[sh]

LEMMA HostMoves ==
  ASSUME TabTypes, Agree, NEW s \in Sockets, Held(s), NEW k \in Socket,
         sock' = [sock EXCEPT ![s] = k], UNCHANGED <<current, entry>>, ShellsGoOn,
         k.phase \in Holding, k.of = current, Linked(k, entry[current])'
  PROVE  TabTypes' /\ Agree'
<1> PICK r : r = entry[current]
  OBVIOUS
<1>1. /\ current \in Entries /\ r \in Entry /\ r.socket = s /\ EntryAgrees(current, r)
  BY HeldIs
<1>2. entry' = [entry EXCEPT ![current] = r]
  BY DEF TabTypes
<1>3. Linked(k, r)'
  OBVIOUS
<1>4. EntryAgrees(current, r)'
  BY <1>1 DEF EntryAgrees, ShellsGoOn, Entry, Ids
<1> QED BY <1>1, <1>2, <1>3, <1>4, HeldMoves DEF ShellsGoOn

(* Only shells move.                                                         *)
LEMMA ShellsMove ==
  ASSUME TabTypes, Agree, UNCHANGED <<current, entry, sock>>, ShellsGoOn
  PROVE  TabTypes' /\ Agree'
<1>1. TabTypes'
  BY DEF TabTypes, ShellsGoOn
<1>2. EntriesAgree'
  BY DEF EntriesAgree, EntryAgrees, ShellsGoOn, Agree, TabTypes, Entry, Ids
<1>3. CASE \E s \in Sockets : Held(s)
  <2> PICK s \in Sockets : Held(s)
    BY <1>3
  <2> PICK k : k = sock[s]
    OBVIOUS
  <2> PICK r : r = entry[current]
    OBVIOUS
  <2>1. Linked(k, r) /\ k \in Socket /\ r \in Entry /\ k.of = current /\ EntryAgrees(current, r)
    BY HeldIs
  <2>2. Linked(k, r)'
    <3>1. Names(k, r)'
      BY <2>1 DEF Linked, Names, ShellsGoOn, Gone
    <3>2. Errs(k, r)'
      BY <2>1 DEF Linked, Errs, EntryAgrees, ShellsGoOn, Entry, Ids
    <3>3. Views(k, r)'
      BY <2>1 DEF Linked, Views, ShellsGoOn, Socket, Ids
    <3>4. Lives(k, r)'
      BY <2>1 DEF Linked, Lives, ShellsGoOn, Gone, Entry, Ids
    <3> QED BY <2>1, <3>1, <3>2, <3>3, <3>4 DEF Linked, Waits, Replays
  <2>3. sock' = [sock EXCEPT ![s] = k] /\ k.phase \in Holding
    BY DEF TabTypes, Held
  <2> QED BY <2>1, <2>2, <2>3, HostMoves
<1>4. CASE \A s \in Sockets : ~Held(s)
  <2>1. \A s \in Sockets : LetGo(sock'[s], current')
    BY <1>4, UnheldIs DEF LetGo
  <2>2. current' # NoEntry => entry'[current'].state # "live"
    BY <1>4 DEF Agree, LiveIsHeld, TabTypes, Entry
  <2> QED BY <1>1, <1>2, <2>1, <2>2, UnwiredKeeps
<1> QED BY <1>3, <1>4

(* A socket with a request on it, and what it is once the host answered.     *)
LEMMA AsksIs ==
  ASSUME TabTypes, Agree, NEW s \in Sockets, NEW t, Asks(s, t)
  PROVE  /\ Held(s) /\ current \in Entries /\ entry[current] \in Entry
         /\ sock[s] \in Socket /\ sock[s].of = current
         /\ sock[s].phase = "open" /\ sock[s].down = <<>> /\ sock[s].view = NoShell
         /\ entry[current].pending = t
         /\ Head(sock[s].up).id = entry[current].id /\ Tail(sock[s].up) = <<>>
         /\ t = "open" => entry[current].id = NoShell
         /\ Linked(sock[s], entry[current]) /\ EntryAgrees(current, entry[current])
<1>1. Held(s)
  BY DEF Asks, Held, Holding
<1>2. /\ current \in Entries /\ entry[current] \in Entry
      /\ sock[s] \in Socket /\ sock[s].of = current
      /\ Linked(sock[s], entry[current]) /\ EntryAgrees(current, entry[current])
  BY <1>1, HeldIs
<1>3. /\ sock[s].phase = "open" /\ sock[s].down = <<>> /\ sock[s].view = NoShell
      /\ sock[s].up = <<Frame(entry[current].pending, entry[current].id)>>
      /\ entry[current].pending = "open" => entry[current].id = NoShell
  BY <1>2 DEF Asks, Linked, Waits
<1>4. \A f : Head(<<f>>) = f /\ Tail(<<f>>) = <<>>
  OBVIOUS
<1> QED BY <1>1, <1>2, <1>3, <1>4 DEF Asks, Frame

LEMMA AnswerIs ==
  ASSUME TabTypes, NEW s \in Sockets, sock[s].down = <<>>, Tail(sock[s].up) = <<>>,
         NEW frames \in Seq(Frames), NEW sh \in Ids, Answer(s, frames, sh)
  PROVE  \E k \in Socket :
           /\ k.phase = sock[s].phase /\ k.of = sock[s].of /\ k.view = sh
           /\ k.up = <<>> /\ k.down = frames
           /\ sock' = [sock EXCEPT ![s] = k]
<1> PICK k : k = [sock[s] EXCEPT !.up = <<>>, !.down = frames, !.view = sh]
  OBVIOUS
<1>1. <<>> \in Seq(Frames) /\ <<>> \o frames = frames /\ sock[s] \in Socket
  BY DEF TabTypes
<1>2. /\ k \in Socket /\ k.phase = sock[s].phase /\ k.of = sock[s].of /\ k.view = sh
      /\ k.up = <<>> /\ k.down = frames
  BY <1>1 DEF Socket
<1>3. sock' = [sock EXCEPT ![s] = k]
  BY <1>1 DEF Answer, TabTypes
<1> QED BY <1>2, <1>3

LEMMA HostOpensKeeps ==
  ASSUME TabTypes, Agree, NEW s \in Sockets, NEW sh \in Shells, HostOpens(s, sh)
  PROVE  TabTypes' /\ Agree'
<1> PICK r : r = entry[current]
  OBVIOUS
<1> PICK f : f = Frame("ready", sh)
  OBVIOUS
<1> PICK fs : fs = <<f>>
  OBVIOUS
<1>1. Asks(s, "open") /\ Answer(s, fs, sh) /\ UNCHANGED <<current, entry>>
  BY DEF HostOpens, pageVars
<1>2. /\ Held(s) /\ r \in Entry /\ sock[s].of = current /\ sock[s].phase = "open"
      /\ sock[s].down = <<>> /\ Tail(sock[s].up) = <<>> /\ r.pending = "open"
      /\ r.id = NoShell /\ Linked(sock[s], r) /\ EntryAgrees(current, r)
  BY <1>1, AsksIs
<1>3. fs \in Seq(Frames) /\ sh \in Ids /\ f.t = "ready" /\ f.id = sh
      /\ Len(fs) = 1 /\ fs[1] = f /\ Head(fs) = f /\ fs # <<>>
  <2>1. f \in Frames /\ f.t = "ready" /\ f.id = sh
    BY DEF Frame, Frames, Ids
  <2> QED BY <2>1 DEF Ids
<1>4. PICK k \in Socket : /\ k.phase = "open" /\ k.of = current /\ k.view = sh
                          /\ k.up = <<>> /\ k.down = fs /\ sock' = [sock EXCEPT ![s] = k]
  <2>1. \E k \in Socket : /\ k.phase = sock[s].phase /\ k.of = sock[s].of /\ k.view = sh
                          /\ k.up = <<>> /\ k.down = fs /\ sock' = [sock EXCEPT ![s] = k]
    <3>1. TabTypes /\ s \in Sockets /\ sock[s].down = <<>> /\ Tail(sock[s].up) = <<>>
          /\ fs \in Seq(Frames) /\ sh \in Ids /\ Answer(s, fs, sh)
      BY <1>1, <1>2, <1>3
    <3> QED BY ONLY <3>1, AnswerIs
  <2> QED BY <1>2, <2>1
<1>5. ShellsGoOn /\ shell'[sh] = "live"
  BY DEF HostOpens, ShellsGoOn, TabTypes, Gone
<1>6. Linked(k, r)'
  <2>1. ~r.replaying /\ r.state # "live" /\ r.state # "closed"
    BY <1>1, <1>2 DEF EntryAgrees, Linked, Waits, Asks
  <2>2. Names(k, r)'
    BY <1>2, <1>3, <1>4, <1>5 DEF Names
  <2>3. Errs(k, r)'
    BY <1>3, <1>4 DEF Errs
  <2>4. Views(k, r)'
    BY <1>2, <1>4, <1>5 DEF Views
  <2>5. Waits(k, r)' /\ Replays(k, r)' /\ Lives(k, r)'
    BY <1>3, <1>4, <2>1 DEF Waits, Replays, Lives
  <2> QED BY <1>4, <2>1, <2>2, <2>3, <2>4, <2>5 DEF Linked
<1>7. Linked(k, entry[current])'
  BY <1>1, <1>6
<1> QED BY <1>1, <1>2, <1>4, <1>5, <1>7, HostMoves DEF Holding
(* An answer that says there is no shell.                                    *)
LEMMA RefusalKeeps ==
  ASSUME TabTypes, Agree, NEW s \in Sockets, NEW t, Asks(s, t),
         Answer(s, <<Frame("error", NoShell)>>, NoShell), UNCHANGED <<pageVars, shell>>,
         t = "attach" => shell[entry[current].id] \in Gone
  PROVE  TabTypes' /\ Agree'
<1> PICK r : r = entry[current]
  OBVIOUS
<1> PICK f : f = Frame("error", NoShell)
  OBVIOUS
<1> PICK fs : fs = <<f>>
  OBVIOUS
<1>1. Answer(s, fs, NoShell) /\ UNCHANGED <<current, entry>>
  BY DEF pageVars
<1>2. /\ Held(s) /\ r \in Entry /\ sock[s].of = current /\ sock[s].phase = "open"
      /\ sock[s].view = NoShell
      /\ sock[s].down = <<>> /\ Tail(sock[s].up) = <<>> /\ r.pending = t
      /\ Linked(sock[s], r) /\ EntryAgrees(current, r)
  BY AsksIs
<1>3. fs \in Seq(Frames) /\ NoShell \in Ids /\ f.t = "error"
      /\ Len(fs) = 1 /\ fs[1] = f /\ Head(fs) = f /\ fs # <<>>
  <2>1. f \in Frames /\ f.t = "error"
    BY DEF Frame, Frames, Ids
  <2> QED BY <2>1 DEF Ids
<1>4. PICK k \in Socket : /\ k.phase = "open" /\ k.of = current /\ k.view = NoShell
                          /\ k.up = <<>> /\ k.down = fs /\ sock' = [sock EXCEPT ![s] = k]
  <2>1. \E k \in Socket : /\ k.phase = sock[s].phase /\ k.of = sock[s].of /\ k.view = NoShell
                          /\ k.up = <<>> /\ k.down = fs /\ sock' = [sock EXCEPT ![s] = k]
    <3>1. TabTypes /\ s \in Sockets /\ sock[s].down = <<>> /\ Tail(sock[s].up) = <<>>
          /\ fs \in Seq(Frames) /\ NoShell \in Ids /\ Answer(s, fs, NoShell)
      BY <1>1, <1>2, <1>3
    <3> QED BY ONLY <3>1, AnswerIs
  <2> QED BY <1>2, <2>1
<1>5. ShellsGoOn
  BY DEF ShellsGoOn, TabTypes
<1>6. Linked(k, r)'
  <2>1. r.state # "live" /\ r.state # "closed"
    <3>1. Linked(sock[s], r) /\ sock[s].up # <<>>
      BY <1>2 DEF Asks
    <3> QED BY <3>1 DEF Linked, Waits
  <2>2. Errs(k, r)'
    BY <1>2, <1>3, <1>4, <2>1 DEF Errs
  <2>3. Waits(k, r)' /\ Names(k, r)' /\ Views(k, r)' /\ Lives(k, r)'
    BY <1>3, <1>4, <2>1 DEF Waits, Names, Views, Lives
  <2>4. Replays(k, r)'
    BY <1>3, <1>4 DEF Replays
  <2> QED BY <1>4, <2>1, <2>2, <2>3, <2>4 DEF Linked
<1>7. Linked(k, entry[current])'
  BY <1>1, <1>6
<1> QED BY <1>1, <1>2, <1>4, <1>5, <1>7, HostMoves DEF Holding

LEMMA HostAttachesKeeps ==
  ASSUME TabTypes, Agree, NEW s \in Sockets, HostAttaches(s)
  PROVE  TabTypes' /\ Agree'
<1> PICK r : r = entry[current]
  OBVIOUS
<1> PICK sh : sh = r.id
  OBVIOUS
<1> PICK f : f = Frame("ready", sh)
  OBVIOUS
<1> PICK h : h = Frame("history", sh)
  OBVIOUS
<1>1. Asks(s, "attach") /\ UNCHANGED <<current, entry, shell>>
  BY DEF HostAttaches, pageVars
<1>2. /\ Held(s) /\ r \in Entry /\ sock[s].of = current /\ sock[s].phase = "open"
      /\ sock[s].down = <<>> /\ Tail(sock[s].up) = <<>> /\ r.pending = "attach"
      /\ Head(sock[s].up).id = sh /\ Linked(sock[s], r) /\ EntryAgrees(current, r)
      /\ sock[s].view = NoShell
  BY <1>1, AsksIs
<1>3. sh \in Shells /\ sh # NoShell /\ shell[sh] # "unborn"
  BY <1>2 DEF EntryAgrees, Entry, Ids
<1>4. CASE shell[sh] # "live"
  <2>1. shell[sh] \in Gone
    BY <1>3, <1>4 DEF TabTypes
  <2>2. Answer(s, <<Frame("error", NoShell)>>, NoShell) /\ UNCHANGED <<pageVars, shell>>
    BY <1>2, <1>4 DEF HostAttaches
  <2> QED BY <1>1, <2>1, <2>2, RefusalKeeps
<1>5. CASE shell[sh] = "live"
  <2>1. PICK fs \in {<<h, f>>, <<f>>} : Answer(s, fs, sh)
    BY <1>2, <1>5 DEF HostAttaches
  <2>2. /\ f \in Frames /\ f.t = "ready" /\ f.id = sh
        /\ h \in Frames /\ h.t = "history" /\ sh \in Ids
    BY <1>3 DEF Frame, Frames, Ids
  <2>3. /\ fs \in Seq(Frames) /\ fs # <<>> /\ Len(fs) \in Nat /\ Head(fs) = fs[1]
        /\ \A i \in 1 .. Len(fs) : fs[i] = f \/ (i = 1 /\ fs[i] = h)
        /\ Head(fs) = f \/ Head(fs) = h
    <3>1. CASE fs = <<f>>
      BY <2>2, <3>1
    <3>2. CASE fs = <<h, f>>
      BY <2>2, <3>2
    <3> QED BY <2>1, <3>1, <3>2
  <2>4. PICK k \in Socket : /\ k.phase = "open" /\ k.of = current /\ k.view = sh
                            /\ k.up = <<>> /\ k.down = fs /\ sock' = [sock EXCEPT ![s] = k]
    <3>1. \E k \in Socket : /\ k.phase = sock[s].phase /\ k.of = sock[s].of /\ k.view = sh
                            /\ k.up = <<>> /\ k.down = fs /\ sock' = [sock EXCEPT ![s] = k]
      BY <1>2, <2>1, <2>2, <2>3, AnswerIs
    <3> QED BY <1>2, <3>1
  <2>5. ShellsGoOn
    BY <1>1 DEF ShellsGoOn, TabTypes
  <2>6. Linked(k, r)'
    <3>1. r.state # "live" /\ r.state # "closed"
      BY <1>1, <1>2 DEF Linked, Waits, Asks
    <3>2. Replays(k, r)'
      <4>1. r.replaying
        BY <1>1, <1>2 DEF Linked, Waits, Asks
      <4> QED BY <2>2, <2>3, <2>4, <4>1 DEF Replays
    <3>3. Names(k, r)'
      BY <1>1, <1>2, <1>3, <2>2, <2>3, <2>4 DEF Names
    <3>4. Errs(k, r)'
      BY <2>2, <2>3, <2>4 DEF Errs
    <3>5. Waits(k, r)' /\ Views(k, r)' /\ Lives(k, r)'
      BY <1>1, <1>3, <2>4, <3>1 DEF Waits, Views, Lives
    <3> QED BY <2>4, <3>1, <3>2, <3>3, <3>4, <3>5 DEF Linked
  <2>7. Linked(k, entry[current])'
    BY <1>1, <2>6
  <2> QED BY <1>1, <1>2, <2>4, <2>5, <2>7, HostMoves DEF Holding
<1> QED BY <1>4, <1>5

LEMMA HostRefusesKeeps ==
  ASSUME TabTypes, Agree, NEW s \in Sockets, HostRefuses(s)
  PROVE  TabTypes' /\ Agree'
BY RefusalKeeps DEF HostRefuses
LEMMA OutputKeeps ==
  ASSUME TabTypes, Agree, NEW s \in Sockets, Output(s)
  PROVE  TabTypes' /\ Agree'
<1> PICK k0 : k0 = sock[s]
  OBVIOUS
<1> PICK r : r = entry[current]
  OBVIOUS
<1> PICK f : f = Frame("output", k0.view)
  OBVIOUS
<1> PICK d : d = Append(k0.down, f)
  OBVIOUS
<1> PICK k : k = [k0 EXCEPT !.down = d]
  OBVIOUS
<1>1. Held(s) /\ k0.phase = "open" /\ k0.view # NoShell
  BY DEF Output, Held, Holding
<1>2. /\ k0 \in Socket /\ r \in Entry /\ k0.of = current
      /\ Linked(k0, r) /\ EntryAgrees(current, r)
  BY <1>1, HeldIs
<1>3. k0.down \in Seq(Frames) /\ k0.view \in Ids
  BY <1>2 DEF Socket
<1>4. f \in Frames /\ f.t = "output"
  BY <1>3 DEF Frame, Frames
<1>5. /\ d \in Seq(Frames) /\ d # <<>> /\ Len(k0.down) \in Nat /\ Len(d) = Len(k0.down) + 1
      /\ \A i \in 1 .. Len(d) : (i \in 1 .. Len(k0.down) /\ d[i] = k0.down[i]) \/ d[i] = f
      /\ k0.down # <<>> => Head(d) = Head(k0.down)
  BY <1>3, <1>4
<1>6. /\ k \in Socket /\ k.phase = "open" /\ k.of = current /\ k.view = k0.view
      /\ k.up = k0.up /\ k.down = d /\ k0.up = <<>>
  BY <1>1, <1>2, <1>5 DEF Socket, Linked, Waits
<1>7. sock' = [sock EXCEPT ![s] = k] /\ UNCHANGED <<current, entry, shell>>
  BY DEF Output, pageVars, TabTypes
<1>8. Linked(k, r)
  <2>1. Replays(k, r)
    BY <1>1, <1>2, <1>4, <1>5, <1>6 DEF Linked, Replays
  <2>2. Names(k, r)
    <3>1. Names(k0, r)
      BY <1>2 DEF Linked
    <3>2. \A i \in 1 .. Len(k.down) : k.down[i].t = "ready" =>
            i \in 1 .. Len(k0.down) /\ k.down[i] = k0.down[i]
      BY <1>4, <1>5, <1>6
    <3> QED BY <1>6, <3>1, <3>2 DEF Names
  <2>3. Errs(k, r)
    BY <1>1, <1>2, <1>4, <1>5, <1>6 DEF Linked, Errs
  <2>4. Waits(k, r) /\ Views(k, r) /\ Lives(k, r)
    BY <1>1, <1>2, <1>6 DEF Linked, Waits, Views, Lives
  <2> QED BY <1>2, <1>6, <2>1, <2>2, <2>3, <2>4 DEF Linked
<1>9. Linked(k, r)' /\ r = entry'[current']
  BY <1>7, <1>8, LinkedStays
<1> QED BY <1>1, <1>6, <1>7, <1>9, HostMoves DEF Holding, ShellsGoOn, TabTypes

(* A socket that loses its host: some of what was on its way still arrives,  *)
(* and after it perhaps the news that the shell is gone.                     *)
LEMMA DroppedLinks ==
  ASSUME TabTypes, Agree, NEW s \in Sockets, Held(s), NEW k \in Socket, ShellsGoOn,
         k.phase = "dropped", k.view = NoShell, k.up = <<>>,
         \A i \in 1 .. Len(k.down) :
           \/ i \in 1 .. Len(sock[s].down) /\ k.down[i] = sock[s].down[i]
           \/ /\ k.down[i].t \in {"exit", "error"}
              /\ entry[current].pending = "attach" => shell'[entry[current].id] \in Gone,
         k.down # <<>> =>
           \/ sock[s].down # <<>> /\ Head(k.down) = Head(sock[s].down)
           \/ ~entry[current].replaying,
         UNCHANGED <<current, entry>>
  PROVE  Linked(k, entry[current])'
<1> PICK k0 : k0 = sock[s]
  OBVIOUS
<1> PICK r : r = entry[current]
  OBVIOUS
<1>1. Linked(k0, r) /\ EntryAgrees(current, r) /\ r \in Entry /\ k0 \in Socket
  BY HeldIs
<1>2. /\ \A i \in 1 .. Len(k.down) :
           \/ i \in 1 .. Len(k0.down) /\ k.down[i] = k0.down[i]
           \/ k.down[i].t \in {"exit", "error"} /\ (r.pending = "attach" => shell'[r.id] \in Gone)
      /\ k.down # <<>> => (k0.down # <<>> /\ Head(k.down) = Head(k0.down)) \/ ~r.replaying
  OBVIOUS
<1>3. Replays(k, r)'
  <2>1. r.replaying /\ k.down # <<>> => Head(k.down).t \in {"history", "ready", "error"}
    BY <1>1, <1>2 DEF Linked, Replays, Held, Holding, Waits
  <2>2. \A i \in 1 .. Len(k.down) : k.down[i].t = "history" => i = 1 /\ r.replaying
    BY <1>1, <1>2 DEF Linked, Replays
  <2> QED BY <2>1, <2>2 DEF Replays
<1>4. Names(k, r)'
  <2> SUFFICES ASSUME NEW i \in 1 .. Len(k.down), k.down[i].t = "ready"
               PROVE  /\ k.down[i].id \in Shells /\ shell'[k.down[i].id] # "unborn"
                      /\ r.id # NoShell => k.down[i].id = r.id
                      /\ \A j \in 1 .. Len(k.down) :
                           k.down[j].t = "ready" => k.down[j].id = k.down[i].id
    BY DEF Names
  <2>1. \A j \in 1 .. Len(k.down) : k.down[j].t = "ready" =>
          j \in 1 .. Len(k0.down) /\ k.down[j] = k0.down[j]
    BY <1>2
  <2>2. /\ k0.down[i].id \in Shells /\ shell[k0.down[i].id] # "unborn"
        /\ r.id # NoShell => k0.down[i].id = r.id
        /\ \A j \in 1 .. Len(k0.down) : k0.down[j].t = "ready" => k0.down[j].id = k0.down[i].id
        /\ k.down[i] = k0.down[i]
    <3>1. Names(k0, r)
      BY <1>1 DEF Linked
    <3> QED BY <2>1, <3>1 DEF Names
  <2>3. \A j \in 1 .. Len(k.down) : k.down[j].t = "ready" => k.down[j].id = k.down[i].id
    BY <2>1, <2>2
  <2> QED BY <2>2, <2>3 DEF ShellsGoOn
<1>5. Errs(k, r)'
  <2>1. r.pending = "attach" => r.id \in Shells
    BY <1>1 DEF EntryAgrees, Entry, Ids
  <2> QED BY <1>1, <1>2, <2>1 DEF Linked, Errs, ShellsGoOn
<1>6. Waits(k, r)' /\ Views(k, r)' /\ Lives(k, r)' /\ r.state # "closed"
  BY <1>1 DEF Linked, Waits, Views, Lives
<1>7. Linked(k, r)'
  BY <1>3, <1>4, <1>5, <1>6 DEF Linked
<1> QED BY <1>7

LEMMA DropKeeps ==
  ASSUME TabTypes, Agree, NEW s \in Sockets, Drop(s)
  PROVE  TabTypes' /\ Agree'
<1> PICK k0 : k0 = sock[s]
  OBVIOUS
<1>1. Held(s) /\ UNCHANGED <<current, entry, shell>>
  BY DEF Drop, Held, Holding, pageVars
<1>2. PICK n \in 0 .. Len(k0.down) :
        sock' = [sock EXCEPT ![s].phase = "dropped", ![s].view = NoShell, ![s].up = <<>>,
                             ![s].down = SubSeq(@, 1, n)]
  BY DEF Drop
<1> PICK d : d = SubSeq(k0.down, 1, n)
  OBVIOUS
<1> PICK k : k = [k0 EXCEPT !.phase = "dropped", !.view = NoShell, !.up = <<>>, !.down = d]
  OBVIOUS
<1>3. k0 \in Socket /\ k0.of = current /\ k0.phase # "closed"
  BY <1>1, HeldIs DEF Held, Holding
<1>4. /\ d \in Seq(Frames)
      /\ \A i \in 1 .. Len(d) : i \in 1 .. Len(k0.down) /\ d[i] = k0.down[i]
      /\ d # <<>> => k0.down # <<>> /\ Head(d) = Head(k0.down)
  <2>1. k0.down \in Seq(Frames) /\ Len(k0.down) \in Nat /\ n \in Nat /\ n <= Len(k0.down)
    BY <1>3 DEF Socket
  <2> QED BY <2>1
<1>5. /\ k \in Socket /\ k.phase = "dropped" /\ k.of = current /\ k.view = NoShell
      /\ k.up = <<>> /\ k.down = d
  <2>1. <<>> \in Seq(Frames) /\ NoShell \in Ids
    BY DEF Ids
  <2> QED BY <1>3, <1>4, <2>1 DEF Socket
<1>6. sock' = [sock EXCEPT ![s] = k]
  BY <1>2 DEF TabTypes
<1>7. ShellsGoOn
  BY <1>1 DEF ShellsGoOn, TabTypes
<1>8. Linked(k, entry[current])'
  <2>1. /\ \A i \in 1 .. Len(k.down) : i \in 1 .. Len(sock[s].down) /\ k.down[i] = sock[s].down[i]
        /\ k.down # <<>> => sock[s].down # <<>> /\ Head(k.down) = Head(sock[s].down)
    BY <1>4, <1>5
  <2> QED BY <1>1, <1>5, <1>7, <2>1, DroppedLinks
<1> QED BY <1>1, <1>5, <1>6, <1>7, <1>8, HostMoves DEF Holding

LEMMA ShellEndsKeeps ==
  ASSUME TabTypes, Agree, NEW sh \in Shells, NEW last \in {"exit", "error"},
         ShellEnds(sh, last)
  PROVE  TabTypes' /\ Agree'
<1>1. ShellsGoOn /\ shell'[sh] = "dead" /\ UNCHANGED <<current, entry>>
  BY DEF ShellEnds, ShellsGoOn, TabTypes, pageVars, Gone
<1>2. CASE \A s \in Sockets : sock[s].view # sh
  <2>1. sock' = sock
    BY <1>2 DEF ShellEnds, TabTypes
  <2> QED BY <1>1, <2>1, ShellsMove
<1>3. CASE \E s \in Sockets : sock[s].view = sh
  <2> PICK s \in Sockets : sock[s].view = sh
    BY <1>3
  <2> PICK k0 : k0 = sock[s]
    OBVIOUS
  <2> PICK r : r = entry[current]
    OBVIOUS
  <2> PICK f : f = Frame(last, NoShell)
    OBVIOUS
  <2> PICK d : d = Append(k0.down, f)
    OBVIOUS
  <2> PICK k : k = [k0 EXCEPT !.phase = "dropped", !.view = NoShell, !.up = <<>>, !.down = d]
    OBVIOUS
  <2>1. Held(s) /\ k0.view = sh /\ sh # NoShell
    BY ShellAssumption, UnheldIs
  <2>2. /\ k0 \in Socket /\ r \in Entry /\ k0.of = current /\ k0.phase = "open"
        /\ Linked(k0, r) /\ EntryAgrees(current, r)
    BY <2>1, HeldIs DEF Linked, Views
  <2>3. \A x \in Sockets \ {s} : sock[x].view # sh
    BY <2>1, HeldIs, UnheldIs
  <2>4. f \in Frames /\ f.t = last /\ k0.down \in Seq(Frames)
    BY <2>2 DEF Frame, Frames, Ids, Socket
  <2>5. /\ d \in Seq(Frames) /\ Len(k0.down) \in Nat /\ Len(d) = Len(k0.down) + 1
        /\ \A i \in 1 .. Len(d) : (i \in 1 .. Len(k0.down) /\ d[i] = k0.down[i]) \/ d[i] = f
        /\ k0.down # <<>> => Head(d) = Head(k0.down)
    BY <2>4
  <2>6. /\ k \in Socket /\ k.phase = "dropped" /\ k.of = current /\ k.view = NoShell
        /\ k.up = <<>> /\ k.down = d
    <3>1. <<>> \in Seq(Frames) /\ NoShell \in Ids
      BY DEF Ids
    <3> QED BY <2>2, <2>5, <3>1 DEF Socket
  <2>7. sock' = [sock EXCEPT ![s] = k]
    <3>1. \A x \in Sockets : sock'[x] = IF x = s THEN k ELSE sock[x]
      BY <2>1, <2>3 DEF ShellEnds
    <3>2. sock' = [x \in Sockets |-> sock'[x]]
      BY DEF ShellEnds
    <3> QED BY <3>1, <3>2 DEF TabTypes
  <2>8. r.pending = "attach" => r.id = sh
    BY <2>1, <2>2 DEF Linked, Views
  <2>9. k0.down = <<>> => ~r.replaying
    BY <2>1, <2>2 DEF Linked, Replays, Waits
  <2>10. Linked(k, entry[current])'
    <3>1. \A i \in 1 .. Len(k.down) :
             \/ i \in 1 .. Len(sock[s].down) /\ k.down[i] = sock[s].down[i]
             \/ /\ k.down[i].t \in {"exit", "error"}
                /\ entry[current].pending = "attach" => shell'[entry[current].id] \in Gone
      BY <1>1, <2>4, <2>5, <2>6, <2>8 DEF Gone
    <3>2. \/ sock[s].down # <<>> /\ Head(k.down) = Head(sock[s].down)
          \/ ~entry[current].replaying
      BY <2>5, <2>6, <2>9
    <3> QED BY <1>1, <2>1, <2>6, <3>1, <3>2, DroppedLinks
  <2> QED BY <1>1, <2>1, <2>6, <2>7, <2>10, HostMoves DEF Holding
<1> QED BY <1>2, <1>3

(* Killed, a shell is forgotten by the sockets that show it, and no more.    *)
LEMMA ShellKilledKeeps ==
  ASSUME TabTypes, Agree, NEW sh \in Shells, ShellKilled(sh)
  PROVE  TabTypes' /\ Agree'
<1>1. ShellsGoOn /\ shell[sh] = "live" /\ shell'[sh] = "killed" /\ UNCHANGED <<current, entry>>
  BY DEF ShellKilled, ShellsGoOn, TabTypes, pageVars, Gone
<1>2. CASE \A s \in Sockets : sock[s].view # sh
  <2>1. sock' = sock
    BY <1>2 DEF ShellKilled, TabTypes
  <2> QED BY <1>1, <2>1, ShellsMove
<1>3. CASE \E s \in Sockets : sock[s].view = sh
  <2> PICK s \in Sockets : sock[s].view = sh
    BY <1>3
  <2> PICK k0 : k0 = sock[s]
    OBVIOUS
  <2> PICK r : r = entry[current]
    OBVIOUS
  <2> PICK k : k = [k0 EXCEPT !.view = NoShell]
    OBVIOUS
  <2>1. Held(s) /\ k0.view = sh /\ sh # NoShell
    BY ShellAssumption, UnheldIs
  <2>2. /\ k0 \in Socket /\ r \in Entry /\ k0.of = current /\ k0.phase = "open"
        /\ Linked(k0, r) /\ EntryAgrees(current, r)
    BY <2>1, HeldIs DEF Linked, Views
  <2>3. \A x \in Sockets \ {s} : sock[x].view # sh
    BY <2>1, HeldIs, UnheldIs
  <2>4. k0.up = <<>>
    BY <2>1, <2>2 DEF Linked, Waits
  <2>5. /\ k \in Socket /\ k.phase = "open" /\ k.of = current /\ k.view = NoShell
        /\ k.up = <<>> /\ k.down = k0.down
    <3>1. NoShell \in Ids
      BY DEF Ids
    <3> QED BY <2>2, <2>4, <3>1 DEF Socket
  <2>6. sock' = [sock EXCEPT ![s] = k]
    <3>1. \A x \in Sockets : sock'[x] = IF x = s THEN k ELSE sock[x]
      BY <2>1, <2>3 DEF ShellKilled
    <3>2. sock' = [x \in Sockets |-> sock'[x]]
      BY DEF ShellKilled
    <3> QED BY <3>1, <3>2 DEF TabTypes
  <2>7. Linked(k, r)'
    <3>1. Names(k, r)'
      BY <1>1, <2>1, <2>2, <2>5 DEF Linked, Names, ShellsGoOn, Gone
    <3>2. Errs(k, r)'
      BY <1>1, <2>1, <2>2, <2>5, ShellAssumption
         DEF Linked, Errs, ShellsGoOn, EntryAgrees, Entry, Ids
    <3>3. Lives(k, r)'
      BY <1>1, <2>1, <2>2, <2>5 DEF Linked, Lives, ShellsGoOn, Gone, Entry, Ids
    <3>4. Waits(k, r)' /\ Replays(k, r)' /\ Views(k, r)'
      BY <2>2, <2>4, <2>5 DEF Linked, Waits, Replays, Views
    <3> QED BY <2>2, <2>5, <3>1, <3>2, <3>3, <3>4 DEF Linked
  <2>8. Linked(k, entry[current])'
    BY <1>1, <2>7
  <2> QED BY <1>1, <2>1, <2>5, <2>6, <2>8, HostMoves DEF Holding
<1> QED BY <1>2, <1>3

LEMMA HostRestartsKeeps ==
  ASSUME TabTypes, Agree, HostRestarts
  PROVE  TabTypes' /\ Agree'
<1>1. ShellsGoOn /\ UNCHANGED <<current, entry>>
  BY DEF HostRestarts, ShellsGoOn, TabTypes, pageVars, Gone
<1>2. CASE \A s \in Sockets : sock[s].phase \notin {"connecting", "open"}
  <2>1. sock' = sock
    BY <1>2 DEF HostRestarts, TabTypes
  <2> QED BY <1>1, <2>1, ShellsMove
<1>3. CASE \E s \in Sockets : sock[s].phase \in {"connecting", "open"}
  <2> PICK s \in Sockets : sock[s].phase \in {"connecting", "open"}
    BY <1>3
  <2> PICK k0 : k0 = sock[s]
    OBVIOUS
  <2> PICK k : k = [k0 EXCEPT !.phase = "dropped", !.view = NoShell, !.up = <<>>]
    OBVIOUS
  <2>1. Held(s) /\ k0.phase \in {"connecting", "open"}
    BY DEF Held, Holding
  <2>2. k0 \in Socket /\ k0.of = current /\ k0.phase # "closed"
    BY <2>1, HeldIs
  <2>3. \A x \in Sockets \ {s} : sock[x].phase \notin {"connecting", "open"}
    BY <2>1, HeldIs DEF Held, Holding
  <2>4. /\ k \in Socket /\ k.phase = "dropped" /\ k.of = current /\ k.view = NoShell
        /\ k.up = <<>> /\ k.down = k0.down
    <3>1. <<>> \in Seq(Frames) /\ NoShell \in Ids
      BY DEF Ids
    <3> QED BY <2>2, <3>1 DEF Socket
  <2>5. sock' = [sock EXCEPT ![s] = k]
    <3>1. \A x \in Sockets : sock'[x] = IF x = s THEN k ELSE sock[x]
      BY <2>1, <2>3 DEF HostRestarts
    <3>2. sock' = [x \in Sockets |-> sock'[x]]
      BY DEF HostRestarts
    <3> QED BY <3>1, <3>2 DEF TabTypes
  <2>6. Linked(k, entry[current])'
    BY <1>1, <2>1, <2>4, DroppedLinks
  <2> QED BY <1>1, <2>1, <2>4, <2>5, <2>6, HostMoves DEF Holding
<1> QED BY <1>2, <1>3
-----------------------------------------------------------------------------
(* The invariant is inductive.                                               *)

LEMMA InitAgrees ==
  ASSUME SomeSocket, TabInit
  PROVE  TabTypes /\ Agree
<1> PICK s0 : s0 = CHOOSE s \in Sockets : TRUE
  OBVIOUS
<1> PICK n : n = NewEntry(NoShell, s0)
  OBVIOUS
<1> PICK r : r = [n EXCEPT !.state = "closed"]
  OBVIOUS
<1>1. s0 \in Sockets
  BY DEF SomeSocket
<1>2. n \in Entry /\ n.id = NoShell /\ n.pending = "open" /\ ~n.replaying /\ ~n.timer
  BY <1>1, NewEntryIs DEF Ids
<1>3. /\ r \in Entry /\ r.id = NoShell /\ r.pending = "open" /\ ~r.replaying /\ ~r.timer
  BY <1>2 DEF Entry, States
<1>4. /\ current = NoEntry
      /\ entry = [e \in Entries |-> r]
      /\ sock = [s \in Sockets |-> FreeSocket]
      /\ shell = [sh \in Shells |-> IF sh \in Kept THEN "live" ELSE "unborn"]
  BY DEF TabInit
<1>5. TabTypes
  BY <1>3, <1>4, FreeSocketIs DEF TabTypes
<1>6. EntriesAgree /\ LiveIsHeld
  BY <1>3, <1>4 DEF EntriesAgree, EntryAgrees, LiveIsHeld
<1>7. SocketsAgree
  BY <1>4, FreeSocketIs DEF SocketsAgree, Held, Holding
<1> QED BY <1>5, <1>6, <1>7 DEF Agree

LEMMA StutterAgrees ==
  ASSUME TabTypes, Agree, UNCHANGED tabVars
  PROVE  TabTypes' /\ Agree'
BY ShellsMove DEF tabVars, pageVars, ShellsGoOn, TabTypes

LEMMA StepAgrees ==
  ASSUME TabTypes, Agree, TabNext
  PROVE  TabTypes' /\ Agree'
<1>1. CASE Person
  <2>1. CASE \E e \in Entries, s \in Sockets : Choose(NoShell, e, s)
    BY <2>1, ChooseKeeps DEF Ids
  <2>2. CASE \E e \in Entries, s \in Sockets, sh \in Shells :
               shell[sh] # "unborn" /\ Choose(sh, e, s)
    BY <2>2, ChooseKeeps DEF Ids
  <2>3. CASE \E e \in Entries, s \in Sockets : Replace(e, s)
    BY <2>3, ReplaceKeeps
  <2>4. CASE \E s \in Sockets : Reattach(s)
    BY <2>4, ReattachKeeps
  <2>5. CASE Remount
    BY <2>5, ShellsMove DEF Remount, ShellsGoOn, TabTypes
  <2>6. CASE CloseTab
    BY <2>6, CloseTabKeeps
  <2> QED BY <1>1, <2>1, <2>2, <2>3, <2>4, <2>5, <2>6 DEF Person
<1>2. CASE \E s \in Sockets : Page(s)
  <2> PICK s \in Sockets : Page(s)
    BY <1>2
  <2> QED BY OpenedKeeps, BinaryKeeps, ReadyKeeps, ToldKeeps, FallBackKeeps, ClosedKeeps DEF Page
<1>3. CASE \E s \in Sockets : Host(s)
  <2> PICK s \in Sockets : Host(s)
    BY <1>3
  <2> QED BY HostOpensKeeps, HostRefusesKeeps, HostAttachesKeeps DEF Host
<1>4. CASE \E e \in Entries : Timer(e)
  BY <1>4, ReconnectKeeps DEF Timer
<1>5. CASE World
  BY <1>5, OutputKeeps, DropKeeps, ShellEndsKeeps, ShellKilledKeeps, HostRestartsKeeps DEF World
<1> QED BY <1>1, <1>2, <1>3, <1>4, <1>5 DEF TabNext

(* The tab, its entry and its socket agree in every state: the only socket   *)
(* held is that of the entry shown, and what it carries is an answer to what *)
(* that entry waits for, or nothing any more where the registry killed the   *)
(* shell and told nobody.                                                    *)
THEOREM SocketAndEntryAgree ==
  ASSUME SomeSocket
  PROVE  TabSpec => [](TabTypes /\ Agree)
<1>1. TabInit => TabTypes /\ Agree
  BY InitAgrees
<1>2. (TabTypes /\ Agree) /\ [TabNext]_tabVars => (TabTypes /\ Agree)'
  BY StepAgrees, StutterAgrees
<1> QED BY <1>1, <1>2, PTL DEF TabSpec

-----------------------------------------------------------------------------
(* What the tab promises.                                                    *)

LEMMA AtMostOne ==
  ASSUME TabTypes, Agree
  PROVE  OneSocketPerTab
<1> DEFINE S == {s \in Sockets : sock[s].phase \in {"connecting", "open", "dropped"}}
<1>1. \A x, y \in S : x = y
  BY HeldIs DEF Held, Holding
<1>2. CASE S = {}
  <2>1. Cardinality(S) = 0
    BY <1>2, FS_EmptySet
  <2> QED BY <2>1 DEF OneSocketPerTab
<1>3. CASE S # {}
  <2> PICK x \in S : TRUE
    BY <1>3
  <2>1. S = {x}
    BY <1>1
  <2>2. Cardinality(S) = 1
    BY <2>1, FS_Singleton
  <2> QED BY <2>2 DEF OneSocketPerTab
<1> QED BY <1>2, <1>3

LEMMA Muted ==
  ASSUME TabTypes, Agree
  PROVE  HistoryIsMuted
<1> SUFFICES ASSUME NEW s \in Sockets
             PROVE  /\ Hears(s, "history") => entry[sock[s].of].replaying
                    /\ Hears(s, "output") => ~entry[sock[s].of].replaying
  BY DEF HistoryIsMuted
<1>1. ASSUME Hears(s, "history") PROVE entry[sock[s].of].replaying
  <2>1. /\ Held(s) /\ sock[s].down \in Seq(Frames) /\ sock[s].down # <<>>
        /\ sock[s].down[1].t = "history"
    BY <1>1, HearsIs
  <2>2. 1 \in 1 .. Len(sock[s].down)
    BY <2>1, TailIs
  <2>3. sock[s].of = current /\ Linked(sock[s], entry[current])
    BY <2>1, HeldIs
  <2> QED BY <2>1, <2>2, <2>3 DEF Linked, Replays
<1>2. ASSUME Hears(s, "output") PROVE ~entry[sock[s].of].replaying
  BY <1>2, HearsIs, HeldIs, HistoryFirst
<1> QED BY <1>1, <1>2

LEMMA Attached ==
  ASSUME TabTypes, Agree
  PROVE  LiveIsAttached
<1> SUFFICES ASSUME current # NoEntry, entry[current].state = "live"
             PROVE  LET s == sock[entry[current].socket]
                    IN  /\ s.of = current
                        /\ s.phase = "open" =>
                             s.view = entry[current].id \/ shell[entry[current].id] = "killed"
                        /\ s.phase \in {"open", "dropped"}
  BY DEF LiveIsAttached, Shown
<1> PICK x : x = entry[current].socket
  OBVIOUS
<1>1. x \in Sockets /\ Held(x)
  BY DEF TabTypes, Entry, Agree, LiveIsHeld
<1>2. sock[x].of = current /\ Linked(sock[x], entry[current])
  BY <1>1, HeldIs
<1> QED BY <1>1, <1>2 DEF Linked, Lives, Held, Holding

(* A tab reaches the host over one socket at a time, parses a history muted  *)
(* and nothing after it, and is attached to the shell it says is live or is  *)
(* about to hear that it no longer is, unless the registry killed that shell *)
(* and so tells nobody: wire, scheduleReconnect and restartTerminal of       *)
(* session.ts.                                                               *)
THEOREM TabAgrees ==
  ASSUME SomeSocket
  PROVE  FairTabSpec => []TabInv
<1>1. TabTypes /\ Agree => TabInv
  BY AtMostOne, Muted, Attached DEF TabInv
<1> QED BY <1>1, SocketAndEntryAgree, PTL DEF FairTabSpec

\* What a step does to the shell an entry knows.
LetsGoRightly ==
  \A e \in Entries :
    current = e /\ current' = e /\ entry[e].id # NoShell
      /\ entry'[e].id # entry[e].id => shell[entry[e].id] # "live"

LEMMA ReadySameShell ==
  ASSUME TabTypes, Agree, NEW s \in Sockets, Ready(s)
  PROVE  LetsGoRightly
<1>1. Hears(s, "ready")
  BY DEF Ready
<1> PICK sh : sh = Head(sock[s].down).id
  OBVIOUS
<1> PICK r0 : r0 = entry[current]
  OBVIOUS
<1> PICK r : r = Readied(r0, sh)
  OBVIOUS
<1>2. /\ Held(s) /\ sock[s].of = current /\ current \in Entries /\ r0 \in Entry
      /\ Linked(sock[s], r0) /\ sock[s].down[1].t = "ready"
      /\ sock[s].down \in Seq(Frames) /\ sock[s].down # <<>>
  BY <1>1, HearsIs, HeldIs
<1>3. 1 \in 1 .. Len(sock[s].down) /\ sh = sock[s].down[1].id
  BY <1>2, TailIs
<1>4. r0.id # NoShell => sh = r0.id
  BY <1>2, <1>3 DEF Linked, Names
<1>5. r.id = sh /\ entry' = [entry EXCEPT ![current] = [r EXCEPT !.state = "live"]]
  BY <1>2 DEF Ready, Emit, Readied, Unmuted, Entry
<1>6. entry'[current].id = sh
  BY <1>2, <1>5 DEF TabTypes, Readied, Unmuted, Entry
<1> QED BY <1>4, <1>6 DEF LetsGoRightly

LEMMA FallBackGone ==
  ASSUME TabTypes, Agree, NEW s \in Sockets, FallBack(s)
  PROVE  LetsGoRightly
<1>1. Hears(s, "error")
  BY DEF FallBack
<1>2. /\ sock[s].of = current /\ current \in Entries
      /\ Linked(sock[s], entry[current]) /\ sock[s].down[1].t = "error"
      /\ sock[s].down \in Seq(Frames) /\ sock[s].down # <<>>
  BY <1>1, HearsIs, HeldIs
<1>3. 1 \in 1 .. Len(sock[s].down) /\ entry[current].pending = "attach"
  BY <1>2, TailIs DEF FallBack
<1>4. shell[entry[current].id] \in Gone
  BY <1>2, <1>3 DEF Linked, Errs
<1> QED BY <1>4 DEF LetsGoRightly, Gone

LEMMA OthersKeepIds ==
  ASSUME TabTypes, Agree, TabNext, ~ \E s \in Sockets : Ready(s) \/ FallBack(s)
  PROVE  LetsGoRightly
<1> SUFFICES ASSUME NEW e \in Entries, current = e, current' = e
             PROVE  entry'[e].id = entry[e].id
  BY DEF LetsGoRightly
<1>0. entry \in [Entries -> Entry] /\ entry[e] \in Entry /\ e # NoEntry
  BY EntryAssumption DEF TabTypes
<1>1. CASE Person
  <2>1. ASSUME NEW target, NEW d \in Entries, NEW s \in Sockets, Choose(target, d, s)
        PROVE  entry'[e].id = entry[e].id
    BY <1>0, <2>1 DEF Choose
  <2>2. ASSUME NEW s \in Sockets, Reattach(s)
        PROVE  entry'[e].id = entry[e].id
    BY <1>0, <2>2 DEF Reattach, Emit, Timerless, Entry
  <2>3. ~ \E d \in Entries, s \in Sockets : Replace(d, s)
    BY DEF Replace, Spare
  <2>4. ~ CloseTab
    BY <1>0 DEF CloseTab
  <2>5. CASE Remount
    BY <2>5 DEF Remount
  <2> QED BY <1>1, <2>1, <2>2, <2>3, <2>4, <2>5 DEF Person
<1>2. ASSUME NEW s \in Sockets, Page(s)
      PROVE  entry'[e].id = entry[e].id
  <2>0. sock[s].of \in Entries \cup {NoEntry}
    BY DEF TabTypes, Socket
  <2>1. CASE Opened(s)
    BY <1>0, <2>1 DEF Opened, Entry
  <2>2. CASE Binary(s)
    BY <1>0, <2>2 DEF Binary, Unmuted, Entry
  <2>3. CASE Exited(s) \/ Failed(s)
    BY <1>0, <2>3 DEF Exited, Failed, Emit, Entry
  <2>4. CASE Closed(s)
    <3> PICK timer : timer = (entry[sock[s].of].timer \/ Schedules(sock[s].of))
      OBVIOUS
    <3> PICK r : r = [entry[sock[s].of] EXCEPT !.timer = timer]
      OBVIOUS
    <3>1. \/ entry' = entry
          \/ entry' = [entry EXCEPT ![sock[s].of] = [r EXCEPT !.state = "closed"]]
      BY <2>4 DEF Closed, Emit
    <3>2. sock[s].of = e => [r EXCEPT !.state = "closed"].id = entry[e].id
      BY <1>0 DEF Entry
    <3> QED BY <1>0, <3>1, <3>2
  <2> QED BY <1>2, <2>1, <2>2, <2>3, <2>4 DEF Page
<1>3. CASE \E s \in Sockets : Host(s)
  BY <1>3 DEF Host, HostOpens, HostRefuses, HostAttaches, pageVars
<1>4. CASE \E d \in Entries : Timer(d)
  <2> PICK d \in Entries, s \in Sockets : Reconnect(d, s)
    BY <1>4 DEF Timer
  <2>1. d = e
    BY DEF Reconnect, Agree, EntriesAgree, EntryAgrees
  <2>2. entry' = [entry EXCEPT ![e] = [[entry[e] EXCEPT !.timer = FALSE, !.socket = s]
                                         EXCEPT !.state = "opening"]]
    BY <2>1 DEF Reconnect, Emit
  <2> QED BY <1>0, <2>2 DEF Entry
<1>5. CASE World
  BY <1>5 DEF World, Output, Drop, ShellEnds, ShellKilled, HostRestarts, pageVars
<1> QED BY <1>1, <1>2, <1>3, <1>4, <1>5 DEF TabNext

(* An entry lets go of the shell it knows only when that shell is gone: the  *)
(* error arm of onMessage, which opens a fresh shell after a failed attach,  *)
(* and never its ready arm.                                                  *)
THEOREM LetsGoOfTheDead ==
  ASSUME SomeSocket
  PROVE  FairTabSpec => KeepsItsShell
<1>1. TabTypes /\ Agree /\ [TabNext]_tabVars => [LetsGoRightly]_tabVars
  <2> SUFFICES ASSUME TabTypes, Agree, TabNext
               PROVE  LetsGoRightly
    OBVIOUS
  <2> QED BY ReadySameShell, FallBackGone, OthersKeepIds
<1>2. [LetsGoRightly]_tabVars <=>
        [\A e \in Entries :
           current = e /\ current' = e /\ entry[e].id # NoShell
             /\ entry'[e].id # entry[e].id => shell[entry[e].id] # "live"]_tabVars
  BY DEF LetsGoRightly
<1> QED BY <1>1, <1>2, SocketAndEntryAgree, PTL DEF FairTabSpec, TabSpec, KeepsItsShell
=============================================================================
