-------------------------- MODULE TerminalSockets --------------------------
(***************************************************************************)
(* The browser sockets of src/src/terminal/host/terminal.ts composed with  *)
(* the terminal table they share.  A socket views at most one terminal: it *)
(* opens a fresh one (resolving the workspace, then spawning) or attaches  *)
(* to one by id; closing it detaches.  Frames, closes and the answers to   *)
(* what a socket awaits come in any order.                                 *)
(***************************************************************************)
EXTENDS TerminalRegistry

CONSTANT MaxTyped   \* MAX_PENDING_INPUT

ASSUME SocketsAssumption == MaxTyped \in Nat /\ Sizes # {}

VARIABLES
  sock    \* the sockets; a socket is the sink it hands to the registry

socketVars == <<registryVars, sock>>

Sock == [state     : {"open", "closing", "closed"},
         opening   : {"no", "resolving", "spawning", "spawned"},
         session   : Sessions \cup {None},    \* whose shell is being opened
         asked     : Sizes \cup {None},       \* the size handed to the spawn
         spawned   : Terminals \cup {None},   \* what registry.open answered
         entryId   : Terminals \cup {None},
         requested : Sizes,
         applied   : Sizes \cup {None},
         typed     : 0 .. MaxTyped]

DefaultSize == CHOOSE size \in Sizes : TRUE

NewSock == [state |-> "open", opening |-> "no", session |-> None,
            asked |-> None, spawned |-> None, entryId |-> None,
            requested |-> DefaultSize, applied |-> None, typed |-> 0]

\* Nothing reads the fields of a closed socket that awaits nothing.
Gone == [NewSock EXCEPT !.state = "closed"]

\* claim: whether the socket may take on a terminal now.
Claims(k) == sock[k].entryId = None /\ sock[k].opening = "no"

Set(k, x) == sock' = [sock EXCEPT ![k] = x]

SocketInit ==
  /\ RegistryInit
  /\ sock = [k \in Sinks |-> NewSock]

-----------------------------------------------------------------------------

\* What was being opened is over.
Idle(x) == IF x.state = "closed" THEN Gone
           ELSE [x EXCEPT !.opening = "no", !.session = None, !.asked = None,
                          !.spawned = None]

\* An open frame: the workspace is being resolved.
OpenFrame(k, s, size) ==
  /\ sock[k].state # "closed"
  /\ Claims(k)
  /\ Set(k, [sock[k] EXCEPT !.opening = "resolving", !.session = s,
                            !.requested = size])
  /\ UNCHANGED registryVars

\* resolveWorkspace answered: the shell is spawned at the size now requested.
Spawns(k) ==
  /\ sock[k].opening = "resolving"
  /\ Set(k, [sock[k] EXCEPT !.opening = "spawning", !.asked = sock[k].requested])
  /\ UNCHANGED registryVars

\* The workspace is unknown or the spawn refused: an error frame.
OpenFails(k) ==
  /\ sock[k].opening \in {"resolving", "spawning"}
  /\ Set(k, Idle(sock[k]))
  /\ UNCHANGED registryVars

\* The spawn answered: registry.open puts the terminal in the table.
SpawnAnswers(k) ==
  /\ sock[k].opening = "spawning"
  /\ Open(sock[k].session, sock[k].asked)
  /\ Set(k, [sock[k] EXCEPT !.opening = "spawned", !.spawned = nextOrdinal + 1])

\* The socket's half of taking terminal t on; what was typed goes to it.
Bound(x, t) == [Idle(x) EXCEPT !.entryId = t, !.applied = x.requested,
                               !.typed = 0]

OpenedAlways(k) ==  \* mutant: a socket that went away meanwhile is not seen
  LET t == sock[k].spawned
  IN  /\ sock[k].opening = "spawned"
      /\ IF sock[k].state = "closed"
           THEN /\ Set(k, Idle(sock[k]))
                /\ UNCHANGED registryVars
           ELSE /\ Attach(t, k)
                /\ Set(k, Bound(sock[k], t))

\* registry.open returned to the socket: a socket that went away meanwhile has
\* the shell killed; else it attaches, unless the shell is gone already.
Opened(k) ==
  LET t == sock[k].spawned
  IN  /\ sock[k].opening = "spawned"
      /\ \/ /\ sock[k].state = "closed"
            /\ Set(k, Idle(sock[k]))
            /\ IF term[t].table THEN Close(t) ELSE UNCHANGED registryVars
         \/ /\ sock[k].state # "closed"
            /\ Attach(t, k)
            /\ Set(k, Bound(sock[k], t))
         \/ /\ sock[k].state # "closed"
            /\ ~Attachable(t)
            /\ Set(k, [Idle(sock[k]) EXCEPT !.entryId = t,
                                            !.applied = sock[k].requested])
            /\ UNCHANGED registryVars

\* A terminal its opener has not attached to yet: nothing but promise
\* callbacks runs until it has.
Unclaimed(t) == \E k \in Sinks : sock[k].spawned = t

ResizeTo(t, size) ==
  IF size = term[t].size
    THEN UNCHANGED resizing
    ELSE \E c \in Resizes : AskResize(c, t, size)

\* An attach frame: the terminal must be the Session's and live; the size the
\* browser measures is applied if it is another one.
AttachFrame(k, s, t, size) ==
  /\ sock[k].state # "closed"
  /\ Claims(k)
  /\ ~Unclaimed(t)
  /\ term[t].owner = s
  /\ Watched(t, k)
  /\ ResizeTo(t, size)
  /\ Set(k, [sock[k] EXCEPT !.entryId = t, !.applied = size, !.typed = 0,
                            !.requested = size])
  /\ UNCHANGED <<nextOrdinal, wait>>

\* A resize frame (applySize): remembered, and forwarded once there is a
\* terminal, unless that size was forwarded already.
ResizeFrame(k, size) ==
  /\ sock[k].state # "closed"
  /\ size # sock[k].requested \/ (sock[k].entryId # None /\ size # sock[k].applied)
  /\ LET t == sock[k].entryId
     IN  IF t = None \/ size = sock[k].applied
           THEN /\ Set(k, [sock[k] EXCEPT !.requested = size])
                /\ UNCHANGED registryVars
           ELSE /\ Set(k, [sock[k] EXCEPT !.requested = size, !.applied = size])
                /\ IF term[t].table
                     THEN \E c \in Resizes : AskResize(c, t, size)
                     ELSE UNCHANGED resizing
                /\ UNCHANGED <<term, nextOrdinal, heard, wait>>

\* An input frame before there is a terminal is kept, up to the bound; later
\* ones go to the terminal and change nothing here.
InputFrame(k) ==
  /\ sock[k].state # "closed"
  /\ sock[k].entryId = None
  /\ sock[k].typed < MaxTyped
  /\ Set(k, [sock[k] EXCEPT !.typed = @ + 1])
  /\ UNCHANGED registryVars

\* stop: the socket closed or failed; the terminal it viewed is detached.
Goes(k) ==
  /\ sock[k].state # "closed"
  /\ Set(k, IF sock[k].opening = "no" THEN Gone
            ELSE [sock[k] EXCEPT !.state = "closed", !.entryId = None])
  /\ LET t == sock[k].entryId
     IN  IF t = None THEN UNCHANGED registryVars ELSE Detach(t, k)

\* A browser connects again: another socket, with nothing of the first left.
Connects(k) ==
  /\ sock[k].state = "closed"
  /\ sock[k].opening = "no"
  /\ Fresh(k)
  /\ Set(k, NewSock)
  /\ UNCHANGED registryVars

\* What the sinks of a terminal do when it exits: say so, and close.
ClosedBy(t) ==
  [k \in Sinks |-> IF k \in term[t].attaches /\ sock[k].state = "open"
                     THEN [sock[k] EXCEPT !.state = "closing"]
                     ELSE sock[k]]

-----------------------------------------------------------------------------

SocketStep(k) ==
  \/ \E s \in Sessions, size \in Sizes : OpenFrame(k, s, size)
  \/ Spawns(k)
  \/ OpenFails(k)
  \/ SpawnAnswers(k)
  \/ Opened(k)
  \/ \E s \in Sessions, t \in Terminals, size \in Sizes : AttachFrame(k, s, t, size)
  \/ \E size \in Sizes : ResizeFrame(k, size)
  \/ InputFrame(k)
  \/ Goes(k)
  \/ Connects(k)

\* The table's own steps, which no socket takes part in but as a sink.
TableStep ==
  \/ \E t \in Terminals : Exit(t) /\ sock' = ClosedBy(t)
  \/ /\ \/ \E t \in Terminals : /\ ~Unclaimed(t)
                                /\ \/ \E n \in 1 .. MaxBytes : Data(t, n)
                                   \/ ValveExpires(t)
                                   \/ Close(t)
        \/ \E t \in Terminals, k \in Sinks : Taken(t, k)
        \/ \E s \in Sessions : ReleaseSession(s)
        \/ DisposeAll
        \/ \E c \in Resizes : ResizeStep(c)
        \/ \E w \in Waits : ToolStep(w)
     /\ UNCHANGED sock

SocketNext == TableStep \/ \E k \in Sinks : SocketStep(k)

SocketSpec == SocketInit /\ [][SocketNext]_socketVars

-----------------------------------------------------------------------------
(* Safety *)

(* The sockets have their declared shape; in particular no socket keeps more *)
(* typed input than MAX_PENDING_INPUT while its shell is being opened.       *)
SocketTypeOK == RegistryTypeOK /\ sock \in [Sinks -> Sock]

(* A socket and the table agree on what it views: it names a live terminal   *)
(* exactly when it is one of that terminal's sinks, and a socket that went   *)
(* away is nobody's sink, whatever was in flight when it went.               *)
ViewsAgree ==
  \A k \in Sinks, t \in Terminals :
    /\ k \in term[t].attaches => sock[k].entryId = t /\ sock[k].state # "closed"
    /\ sock[k].entryId = t /\ term[t].table => k \in term[t].attaches

(* No shell runs watched by nobody and reading as watched: a socket that     *)
(* goes away while its shell is being allocated leaves none behind ("a       *)
(* registered terminal owns its own lifetime and must be released here").    *)
NoOrphanShell ==
  \A t \in Terminals :
    term[t].table /\ term[t].state = "running" /\ term[t].attaches = {} =>
      Unclaimed(t)

(* A terminal that exited is told to every socket still viewing it, and only *)
(* waits in the table for them to close.                                     *)
ExitedIsTold ==
  \A t \in Terminals : term[t].table /\ term[t].state = "exited" =>
    \A k \in term[t].attaches : heard[k].told /\ sock[k].state = "closing"

(* Sockets and table agree: on who views what, on what was typed, on which   *)
(* viewers have been told of an exit, and that no shell is left to nobody.   *)
SocketInv == SocketTypeOK /\ ViewsAgree /\ NoOrphanShell /\ ExitedIsTold

(* "The size the browser last asked for; the spawn uses it even if it        *)
(* changed mid-allocation": the shell a socket opened has, when the socket   *)
(* takes it on, the size the socket last asked for.                          *)
SizeReachesShell ==
  [][\A k \in Sinks :
       sock[k].opening = "spawned" /\ sock'[k].entryId # None =>
         term'[sock'[k].entryId].pty = sock'[k].requested]_socketVars

-----------------------------------------------------------------------------
(* Liveness *)

(* A socket that is being closed gets its close event: nothing else is asked *)
(* of the browsers, of the provider or of the shells.                        *)
SocketFairness ==
  \A k \in Sinks : WF_socketVars(sock[k].state = "closing" /\ Goes(k))

FairSocketSpec == SocketSpec /\ SocketFairness

(* An exited terminal is released in the end: its viewers' sockets close and *)
(* the last one takes the entry with it.                                     *)
ExitedIsReleased ==
  \A t \in Terminals :
    (term[t].table /\ term[t].state = "exited") ~> ~term[t].table

=============================================================================
