--------------------------- MODULE BrowserSession ---------------------------
(***************************************************************************)
(* One terminal tab of the page: plugin/client/terminal/session.ts and the *)
(* body that draws it, TerminalBody.tsx.                                   *)
(*                                                                         *)
(* The page keeps an entry per tab: the terminal drawn, the id of the      *)
(* shell it shows and the socket it reaches the host by.  A dropped socket *)
(* is replaced by a timer or by a restart; a restart may also replace the  *)
(* entry.  The body renders from React state: the choice as of its last    *)
(* render and the last state any of its entries published.  The host end   *)
(* of a socket is TerminalSockets' subject and is reduced to its answers.  *)
(***************************************************************************)
EXTENDS Sequences, Integers, FiniteSets

CONSTANTS
  Entries,    \* entries the page may hold for the tab at a time, disposed too
  Sockets,    \* sockets it may hold at a time; a closed one is used again
  Shells,     \* bound: shells of the Session
  Kept,       \* the shells the host already has when the tab opens
  MaxFaults,  \* bound: sockets lost, host restarts and refusals
  NoShell,
  NoEntry

ASSUME ShellAssumption == Kept \subseteq Shells /\ NoShell \notin Shells
ASSUME EntryAssumption == NoEntry \notin Entries

VARIABLES
  current,  \* entries.get(key)
  entry,    \* the entries
  choice,   \* targets.get(key)
  body,     \* what the body drew last
  seen,     \* the state its status line and its restart button go by
  sock,     \* the sockets
  shell,    \* the host's shells
  faults    \* bound: the faults so far

pageVars == <<current, entry, choice, body, seen>>
tabVars  == <<pageVars, sock, shell, faults>>

-----------------------------------------------------------------------------

States == {"opening", "live", "ended", "closed", "failed"}

FreeSocket == [phase |-> "closed", of |-> NoEntry, view |-> NoShell,
               up |-> <<>>, down |-> <<>>]

NewEntry(target, s) ==
  [id |-> target, state |-> "opening", socket |-> s, pending |-> "open",
   replaying |-> FALSE, timer |-> FALSE]

Frame(t, sh) == [t |-> t, id |-> sh]

\* An entry nothing refers to any more: its place may be used again.
Spare(e) == /\ e # current
            /\ ~entry[e].timer
            /\ \A s \in Sockets : sock[s].of = e => sock[s].phase = "closed"

Wired(e, socks, s) == [socks EXCEPT ![s] = [FreeSocket EXCEPT !.phase = "connecting", !.of = e]]

\* close(1000): the readyState is CLOSING, so no more messages are delivered.
\* The host sees its end close and detaches.
Detached(socks, s) ==
  IF socks[s].phase = "closed" THEN socks
  ELSE [socks EXCEPT ![s].phase = "closing", ![s].view = NoShell,
                     ![s].up = <<>>, ![s].down = <<>>]

\* A frame goes to the entry's socket of now, and nowhere unless it is open.
Sent(e, f, socks) ==
  IF socks[e.socket].phase = "open"
  THEN [socks EXCEPT ![e.socket].up = Append(@, f)] ELSE socks

\* Publishing a state renders the body, which reads the choice again.
Emit(e, r, kind) ==
  /\ entry' = [entry EXCEPT ![e] = [r EXCEPT !.state = kind]]
  /\ seen' = kind
  /\ body' = IF body = "closed" THEN "closed"
             ELSE IF choice = "none" THEN "chooser" ELSE "screen"

-----------------------------------------------------------------------------
\* The person at the tab.

\* chooseTerminal, and the drawing it leads to: an entry that exists is drawn
\* whatever was chosen.  The body is the one that asked, and goes on by the
\* state it last heard of.
Choose(target, e, s) ==
  /\ body = "chooser"
  /\ choice' = "chosen"
  /\ body' = "screen"
  /\ IF current # NoEntry
     THEN UNCHANGED <<current, entry, sock>>
     ELSE /\ Spare(e) /\ sock[s].phase = "closed"
          /\ current' = e
          /\ entry' = [entry EXCEPT ![e] = NewEntry(target, s)]
          /\ sock' = Wired(e, sock, s)
  /\ UNCHANGED <<seen, shell, faults>>

\* The body went, with the column or for another tab, and is mounted again: it
\* takes the choice and the state as they are.  What the entries published
\* while it was away it has not missed.
Remount ==
  /\ body # "closed"
  /\ body' = IF choice = "none" THEN "chooser" ELSE "screen"
  /\ seen' = IF current = NoEntry THEN "opening" ELSE entry[current].state
  /\ UNCHANGED <<current, entry, choice, sock, shell, faults>>

\* Mutant: a restart leaves the timer of the reconnect running.
TimerKept(e) == entry

\* What restartTerminal and dispose do to the socket and the timer.
Timerless(e) == [entry EXCEPT ![e].timer = FALSE]

Reattachable(r) == r.state = "closed" /\ r.id # NoShell

\* restartTerminal, of a shell the entry knows: a new socket for the entry.
Reattach(s) ==
  /\ body = "screen" /\ seen \in {"ended", "failed", "closed"}
  /\ current # NoEntry
  /\ sock[s].phase = "closed"
  /\ Reattachable(entry[current])
  /\ LET r == [Timerless(current)[current] EXCEPT !.socket = s] IN
       Emit(current, r, "opening")
  /\ sock' = Wired(current, sock, s)
  /\ UNCHANGED <<current, choice, shell, faults>>

\* restartTerminal otherwise: the entry is disposed of, the choice with it,
\* and a fresh one takes its place.  Nothing is published.
Replace(e, s) ==
  /\ body = "screen" /\ seen \in {"ended", "failed", "closed"}
  /\ current # NoEntry
  /\ ~Reattachable(entry[current])
  /\ Spare(e) /\ sock[s].phase = "closed"
  /\ choice' = "none"
  /\ current' = e
  /\ entry' = [Timerless(current) EXCEPT ![e] = NewEntry(NoShell, s)]
  /\ sock' = Wired(e, Detached(sock, entry[current].socket), s)
  /\ UNCHANGED <<body, seen, shell, faults>>

\* The tab record disappears: the signal aborts and the entry is disposed of.
CloseTab ==
  /\ body # "closed"
  /\ body' = "closed"
  /\ choice' = "none"
  /\ current' = NoEntry
  /\ IF current = NoEntry THEN UNCHANGED <<entry, sock>>
     ELSE /\ entry' = Timerless(current)
          /\ sock' = Detached(sock, entry[current].socket)
  /\ UNCHANGED <<seen, shell, faults>>

-----------------------------------------------------------------------------
\* wire: what a socket's events do to its entry.

\* Mutant: a new socket always asks for a fresh shell.
OpensAfresh(r) == "open"

OpensWith(r) == IF r.id = NoShell THEN "open" ELSE "attach"

Opened(s) ==
  LET e == sock[s].of
      r == [entry[e] EXCEPT !.pending = OpensWith(entry[e]),
                            !.replaying = OpensWith(entry[e]) = "attach"]
  IN /\ sock[s].phase = "connecting"
     /\ entry' = [entry EXCEPT ![e] = r]
     /\ sock' = Sent(r, Frame(OpensWith(r), r.id), [sock EXCEPT ![s].phase = "open"])
     /\ UNCHANGED <<current, choice, body, seen, shell, faults>>

\* A socket the browser still takes for open, and the next frame on it.
Hears(s, t) == /\ sock[s].phase \in {"open", "dropped"}
               /\ sock[s].down # <<>>
               /\ Head(sock[s].down).t = t

Heard(s) == [sock EXCEPT ![s].down = Tail(@)]

\* Mutant: only the history itself ends the replay.
UnmutedNever(r) == r

\* The host replays the history before it answers `ready`: the first binary
\* frame after an attach is parsed with the terminal's own replies off.
Unmuted(r) == [r EXCEPT !.replaying = FALSE]

Binary(s) ==
  /\ Hears(s, "history") \/ Hears(s, "output")
  /\ entry' = [entry EXCEPT ![sock[s].of] = Unmuted(@)]
  /\ sock' = Heard(s)
  /\ UNCHANGED <<current, choice, body, seen, shell, faults>>

\* Mutant: the answer of the host does not name the entry's shell.
ReadiedNameless(r, sh) == Unmuted(r)

Readied(r, sh) == [Unmuted(r) EXCEPT !.id = sh]

Ready(s) ==
  /\ Hears(s, "ready")
  /\ Emit(sock[s].of, Readied(entry[sock[s].of], Head(sock[s].down).id), "live")
  /\ sock' = Heard(s)
  /\ UNCHANGED <<current, choice, shell, faults>>

Exited(s) ==
  /\ Hears(s, "exit")
  /\ Emit(sock[s].of, entry[sock[s].of], "ended")
  /\ sock' = Heard(s)
  /\ UNCHANGED <<current, choice, shell, faults>>

\* An attach that fails opens a fresh shell on the same socket; `pending` is
\* never reset, so any later error of an attached socket is taken for that.
FallBack(s) ==
  LET e == sock[s].of
      r == [Unmuted(entry[e]) EXCEPT !.id = NoShell, !.pending = "open"]
  IN /\ Hears(s, "error")
     /\ entry[e].pending = "attach"
     /\ entry' = [entry EXCEPT ![e] = r]
     /\ sock' = Sent(r, Frame("open", NoShell), Heard(s))
     /\ UNCHANGED <<current, choice, body, seen, shell, faults>>

Failed(s) ==
  /\ Hears(s, "error")
  /\ entry[sock[s].of].pending = "open"
  /\ Emit(sock[s].of, entry[sock[s].of], "failed")
  /\ sock' = Heard(s)
  /\ UNCHANGED <<current, choice, shell, faults>>

\* Mutant: a socket that fails before its shell answered is not retried.
SchedulesLive(e) == e = current /\ ~entry[e].timer /\ entry[e].state = "live"

\* scheduleReconnect: only for an entry the page still holds, one at a time.
Schedules(e) == e = current /\ ~entry[e].timer

Closed(s) ==
  LET e == sock[s].of
      r == [entry[e] EXCEPT !.timer = @ \/ Schedules(e)]
  IN /\ \/ sock[s].phase = "closing"
        \/ sock[s].phase = "dropped" /\ sock[s].down = <<>>
     /\ sock' = [sock EXCEPT ![s] = FreeSocket]
     /\ IF entry[e].state \in {"ended", "failed"}
        THEN UNCHANGED <<entry, body, seen>>
        ELSE Emit(e, r, "closed")
     /\ UNCHANGED <<current, choice, shell, faults>>

\* The timer of scheduleReconnect fires.
Reconnect(e, s) ==
  /\ entry[e].timer
  /\ sock[s].phase = "closed"
  /\ IF e = current
     THEN /\ Emit(e, [entry[e] EXCEPT !.timer = FALSE, !.socket = s], "opening")
          /\ sock' = Wired(e, sock, s)
     ELSE /\ entry' = Timerless(e)
          /\ UNCHANGED <<body, seen, sock>>
  /\ UNCHANGED <<current, choice, shell, faults>>

-----------------------------------------------------------------------------
\* The host and the network, by their effect on the page.

Asks(s, t) == sock[s].phase = "open" /\ sock[s].up # <<>> /\ Head(sock[s].up).t = t

Answer(s, frames, sh) ==
  sock' = [sock EXCEPT ![s].up = Tail(@), ![s].down = @ \o frames, ![s].view = sh]

Fault == faults < MaxFaults /\ faults' = faults + 1

HostOpens(s, sh) ==
  /\ Asks(s, "open")
  /\ shell[sh] = "unborn"
  /\ shell' = [shell EXCEPT ![sh] = "live"]
  /\ Answer(s, <<Frame("ready", sh)>>, sh)
  /\ UNCHANGED <<pageVars, faults>>

HostRefuses(s) ==
  /\ Asks(s, "open")
  /\ \/ Fault
     \/ (\A sh \in Shells : shell[sh] # "unborn") /\ UNCHANGED faults
  /\ Answer(s, <<Frame("error", NoShell)>>, NoShell)
  /\ UNCHANGED <<pageVars, shell>>

HostAttaches(s) ==
  /\ Asks(s, "attach")
  /\ LET sh == Head(sock[s].up).id IN
       IF shell[sh] = "live"
       THEN \/ Answer(s, <<Frame("history", sh), Frame("ready", sh)>>, sh)
            \/ Answer(s, <<Frame("ready", sh)>>, sh)    \* nothing retained
       ELSE Answer(s, <<Frame("error", NoShell)>>, NoShell)
  /\ UNCHANGED <<pageVars, shell, faults>>

Output(s) ==
  /\ sock[s].phase = "open" /\ sock[s].view # NoShell
  /\ Len(sock[s].down) < 2
  /\ sock' = [sock EXCEPT ![s].down = Append(@, Frame("output", sock[s].view))]
  /\ UNCHANGED <<pageVars, shell, faults>>

\* The shell ends by itself or its stream fails: its viewers hear one last
\* frame and the host closes their sockets.
ShellEnds(sh, last) ==
  /\ shell[sh] = "live"
  /\ shell' = [shell EXCEPT ![sh] = "dead"]
  /\ sock' = [s \in Sockets |->
       IF sock[s].view = sh
       THEN [sock[s] EXCEPT !.phase = "dropped", !.view = NoShell, !.up = <<>>,
                            !.down = Append(@, Frame(last, NoShell))]
       ELSE sock[s]]
  /\ UNCHANGED <<pageVars, faults>>

\* registry.kill, from the chooser of any tab or with the Session: who looks at
\* the shell is forgotten first, so its viewers hear nothing and their sockets
\* stay open.
ShellKilled(sh) ==
  /\ shell[sh] = "live"
  /\ shell' = [shell EXCEPT ![sh] = "killed"]
  /\ sock' = [s \in Sockets |->
       IF sock[s].view = sh THEN [sock[s] EXCEPT !.view = NoShell] ELSE sock[s]]
  /\ UNCHANGED <<pageVars, faults>>

\* The connection goes, with the frames that had not arrived.
Drop(s) ==
  /\ sock[s].phase \in {"connecting", "open"}
  /\ Fault
  /\ \E n \in 0 .. Len(sock[s].down) :
       sock' = [sock EXCEPT ![s].phase = "dropped", ![s].view = NoShell, ![s].up = <<>>,
                            ![s].down = SubSeq(@, 1, n)]
  /\ UNCHANGED <<pageVars, shell>>

HostRestarts ==
  /\ Fault
  /\ shell' = [sh \in Shells |-> IF shell[sh] = "live" THEN "dead" ELSE shell[sh]]
  /\ sock' = [s \in Sockets |->
       IF sock[s].phase \in {"connecting", "open"}
       THEN [sock[s] EXCEPT !.phase = "dropped", !.view = NoShell, !.up = <<>>]
       ELSE sock[s]]
  /\ UNCHANGED pageVars

-----------------------------------------------------------------------------

TabInit ==
  /\ current = NoEntry
  /\ entry = [e \in Entries |-> [NewEntry(NoShell, CHOOSE s \in Sockets : TRUE)
                                   EXCEPT !.state = "closed"]]
  /\ choice = "none"
  /\ body = "chooser"
  /\ seen = "opening"
  /\ sock = [s \in Sockets |-> FreeSocket]
  /\ shell = [sh \in Shells |-> IF sh \in Kept THEN "live" ELSE "unborn"]
  /\ faults = 0

Person ==
  \/ \E e \in Entries, s \in Sockets :
       \/ Choose(NoShell, e, s)
       \/ \E sh \in Shells : shell[sh] # "unborn" /\ Choose(sh, e, s)
       \/ Replace(e, s)
  \/ \E s \in Sockets : Reattach(s)
  \/ Remount
  \/ CloseTab

Page(s) ==
  \/ Opened(s) \/ Binary(s) \/ Ready(s) \/ Exited(s)
  \/ FallBack(s) \/ Failed(s) \/ Closed(s)

Timer(e) == \E s \in Sockets : Reconnect(e, s)

Host(s) ==
  \/ \E sh \in Shells : HostOpens(s, sh)
  \/ HostRefuses(s) \/ HostAttaches(s)

World ==
  \/ \E s \in Sockets : Output(s) \/ Drop(s)
  \/ \E sh \in Shells, last \in {"exit", "error"} : ShellEnds(sh, last)
  \/ \E sh \in Shells : ShellKilled(sh)
  \/ HostRestarts

TabNext ==
  \/ Person
  \/ \E s \in Sockets : Page(s) \/ Host(s)
  \/ \E e \in Entries : Timer(e)
  \/ World

TabSpec == TabInit /\ [][TabNext]_tabVars

\* The browser delivers events and runs timers, and the host answers.  The
\* person and the world owe nothing.
FairTabSpec ==
  /\ TabSpec
  /\ \A s \in Sockets : WF_tabVars(Page(s)) /\ WF_tabVars(Host(s))
  /\ \A e \in Entries : WF_tabVars(Timer(e))

-----------------------------------------------------------------------------

Shown == current # NoEntry

\* The tab reaches the host over one socket: a timer and a restart, or an
\* entry disposed of and its successor, never both hold one.
OneSocketPerTab ==
  Cardinality({s \in Sockets : sock[s].phase \in {"connecting", "open", "dropped"}}) <= 1

\* The history a reattach replays is parsed with the terminal's replies off,
\* and what the shell prints afterwards never is.
HistoryIsMuted ==
  \A s \in Sockets :
    /\ Hears(s, "history") => entry[sock[s].of].replaying
    /\ Hears(s, "output")  => ~entry[sock[s].of].replaying

\* A tab that says its shell is live is attached to that shell, or the news
\* that it no longer is is on its way.  Of a shell killed through the registry
\* there is no news: the tab goes on saying it is live.
LiveIsAttached ==
  Shown /\ entry[current].state = "live" =>
    LET s == sock[entry[current].socket] IN
      /\ s.of = current
      /\ s.phase = "open" =>
           s.view = entry[current].id \/ shell[entry[current].id] = "killed"
      /\ s.phase \in {"open", "dropped"}

\* The tab's one socket, its history and its state agree.
TabInv == OneSocketPerTab /\ HistoryIsMuted /\ LiveIsAttached

\* An entry lets go of the shell it knows only when that shell is gone.
KeepsItsShell ==
  [][\A e \in Entries :
       current = e /\ current' = e /\ entry[e].id # NoShell
         /\ entry'[e].id # entry[e].id => shell[entry[e].id] # "live"]_tabVars

\* A tab whose socket dropped gets an answer again: its shell, a fresh one, or
\* the news that there is none, unless the person closes it or restarts it into
\* another entry first, which then gets its own.  A body that draws a stale
\* state lets them restart again and again.
Reattaches ==
  \A e \in Entries :
    current = e /\ entry[e].state \in {"closed", "opening"}
      ~> current # e \/ entry[e].state \in {"live", "ended", "failed"}

\* session.ts of `targets`: "Each tab's chosen shell, until that tab closes":
\* a tab that holds a terminal does not ask which one it should show.
NeverAsksAgain == body = "chooser" => ~Shown

=============================================================================
