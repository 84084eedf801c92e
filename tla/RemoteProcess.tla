---------------------------- MODULE RemoteProcess ----------------------------
(***************************************************************************)
(* A remote subprocess: the handle of src/src/plugin/routing/subprocess.ts *)
(* over one connection to the daemon, and the managed process of           *)
(* src/agent/src/subprocess.rs behind it.                                  *)
(*                                                                         *)
(* The handle runs its requests one after the other, but a terminate goes  *)
(* out beside them, and the daemon serves each request in a task of its    *)
(* own; answers and pushed frames share one bounded queue back.  The       *)
(* connection has one handler for frames, the last one registered.  Each   *)
(* process has one stream, pushed or collected, and a child that outlives  *)
(* it, holds its pipe open and may not heed SIGTERM.                       *)
(***************************************************************************)
EXTENDS Naturals, FiniteSets, Sequences, SequencesExt

CONSTANTS
  Handles,   \* spawns over the connection
  Chunks,    \* bound: chunks a process prints
  Window,    \* chunks a collected stream retains
  Backlog,   \* frames the daemon queues for its client
  None

ASSUME HandlesAssumption == None \notin Handles
ASSUME SizesAssumption == Chunks \in Nat /\ Window \in Nat /\ Backlog \in Nat \ {0}

VARIABLES
  proc,      \* the daemon's managed processes
  serving,   \* the requests the daemon's tasks have in hand, or have to answer
  outbound,  \* the queue to the client
  closed,    \* the daemon has closed the connection's processes
  link,      \* the client's connection is not disposed
  handle,    \* the client's handles
  slot       \* the handle whose handler takes pushed frames

processVars == <<proc, serving, outbound, closed, link, handle, slot>>

Unborn ==
  [leader |-> "none", child |-> "none", deaf |-> {}, printed |-> 0,
   captured |-> 0, inHand |-> FALSE, left |-> FALSE, facts |-> FALSE,
   settled |-> FALSE, cut |-> FALSE, terminating |-> FALSE, ladder |-> FALSE,
   abandoned |-> FALSE, disposed |-> FALSE]

NoHandle ==
  [stage |-> "new", piped |-> FALSE, known |-> FALSE, terminated |-> FALSE, buffered |-> <<>>,
   heard |-> <<>>, from |-> 0, upTo |-> 0]

Piped == {h \in Handles : handle[h].piped}

Alive(p) == p.leader = "running" \/ p.child = "running"

Pending == {"spawn", "terminateFirst", "wait", "read", "outcome"}

Task(request) == [what |-> request, served |-> FALSE, ok |-> TRUE, at |-> 0]

Message(h, what, ok, at) == [of |-> h, what |-> what, ok |-> ok, at |-> at]

-----------------------------------------------------------------------------
(* The daemon.                                                             *)

Kill(p, heeds) ==
  [p EXCEPT !.leader = IF @ = "running" /\ heeds["leader"] THEN "gone" ELSE @,
            !.child = IF @ = "running" /\ heeds["child"] THEN "gone" ELSE @]

Killed(p) == Kill(p, [m \in {"leader", "child"} |-> TRUE])

\* SIGTERM to the group, once, and a timer for SIGKILL.
Terminated(p) ==
  IF p.terminating \/ p.settled THEN p
  ELSE [Kill(p, [m \in {"leader", "child"} |-> m \notin p.deaf])
          EXCEPT !.terminating = TRUE, !.ladder = TRUE]

Disposed(p) ==
  IF p.disposed THEN p
  ELSE [(IF p.settled THEN p ELSE Killed(p))
          EXCEPT !.disposed = TRUE, !.settled = TRUE]

\* mutant: a process that lands after the close is kept
LandedAlways(p) == p

\* Under the table's lock: drained by the close, or ended here.
Landed(p) == IF closed THEN Disposed(p) ELSE p

\* A task has done its work; its answer waits for room in the queue.
Serving(h, what) == \E t \in serving[h] : t.what = what /\ ~t.served

Served(h, what, ok, at) ==
  serving' = [serving EXCEPT ![h] =
                {IF t.what = what THEN [t EXCEPT !.served = TRUE, !.ok = ok, !.at = at]
                 ELSE t : t \in @}]

ServeSpawn(h) ==
  /\ Serving(h, "spawn")
  /\ \/ Served(h, "spawn", FALSE, 0) /\ UNCHANGED proc
     \/ /\ Served(h, "spawn", TRUE, 0)
        /\ \E deaf \in SUBSET {"leader", "child"} :
             proc' = [proc EXCEPT ![h] =
                        Landed([Unborn EXCEPT !.leader = "running", !.deaf = deaf])]
  /\ UNCHANGED <<outbound, closed, link, handle, slot>>

ServeTerminate(h) == \E request \in {"terminate", "terminateFirst"} :
  /\ Serving(h, request)
  /\ Served(h, request, TRUE, 0)
  /\ proc' = [proc EXCEPT ![h] = Terminated(@)]
  /\ UNCHANGED <<outbound, closed, link, handle, slot>>

\* mutant: the wait answers when the leader is gone
GroupGoneLeader(p) == p.settled /\ p.leader # "running"

\* Settled facts first, then the whole group's end.
GroupGone(p) == p.settled /\ ~Alive(p)

ServeWait(h) ==
  /\ Serving(h, "wait")
  /\ GroupGone(proc[h])
  /\ Served(h, "wait", TRUE, 0)
  /\ UNCHANGED <<proc, outbound, closed, link, handle, slot>>

ServeFacts(h) == \E request \in {"read", "outcome"} :
  /\ Serving(h, request)
  /\ Served(h, request, TRUE, proc[h].captured)
  /\ UNCHANGED <<proc, outbound, closed, link, handle, slot>>

\* mutant: the queue is not bounded
HasRoomAlways == TRUE

HasRoom == Len(outbound) < Backlog

\* mutant: an answer that finds the queue full is dropped
RespondOrDrop(h) == \E t \in serving[h] :
  /\ t.served
  /\ outbound' = IF link /\ HasRoom THEN Append(outbound, Message(h, t.what, t.ok, t.at))
                 ELSE outbound
  /\ serving' = [serving EXCEPT ![h] = @ \ {t}]
  /\ UNCHANGED <<proc, closed, link, handle, slot>>

Respond(h) == \E t \in serving[h] :
  /\ t.served
  /\ HasRoom
  /\ outbound' = IF link THEN Append(outbound, Message(h, t.what, t.ok, t.at))
                 ELSE outbound
  /\ serving' = [serving EXCEPT ![h] = @ \ {t}]
  /\ UNCHANGED <<proc, closed, link, handle, slot>>

\* The grace period of a terminate ends.
Escalate(h) ==
  /\ proc[h].ladder
  /\ proc' = [proc EXCEPT ![h] =
                [(IF @.disposed \/ @.settled THEN @ ELSE Killed(@))
                   EXCEPT !.ladder = FALSE]]
  /\ UNCHANGED <<serving, outbound, closed, link, handle, slot>>

\* The reader takes a chunk: into the window, or past the check of a push.
Capture(h) ==
  /\ ~proc[h].left /\ ~proc[h].inHand
  /\ proc[h].captured < proc[h].printed
  /\ proc' = [proc EXCEPT ![h].captured = @ + 1,
                ![h].inHand = /\ h \in Piped
                              /\ ~(@ \/ proc[h].disposed \/ proc[h].abandoned
                                     \/ proc[h].settled)]
  /\ UNCHANGED <<serving, outbound, closed, link, handle, slot>>

\* A client that does not keep up loses the stream, and its process.
Pushed(p, room) ==
  IF room THEN [p EXCEPT !.inHand = FALSE]
  ELSE Terminated([p EXCEPT !.inHand = FALSE, !.abandoned = TRUE])

Push(h) ==
  /\ proc[h].inHand
  /\ outbound' = IF HasRoom /\ link
                 THEN Append(outbound, Message(h, "frame", TRUE, proc[h].captured))
                 ELSE outbound
  /\ proc' = [proc EXCEPT ![h] = Pushed(@, HasRoom)]
  /\ UNCHANGED <<serving, closed, link, handle, slot>>

ReaderEnds(h) ==
  /\ proc[h].leader = "gone" /\ proc[h].child # "running"
  /\ ~proc[h].left /\ ~proc[h].inHand /\ proc[h].captured = proc[h].printed
  /\ proc' = [proc EXCEPT ![h].left = TRUE]
  /\ UNCHANGED <<serving, outbound, closed, link, handle, slot>>

Reap(h) ==
  /\ proc[h].leader = "gone" /\ ~proc[h].facts
  /\ proc' = [proc EXCEPT ![h].facts = TRUE]
  /\ UNCHANGED <<serving, outbound, closed, link, handle, slot>>

\* mutant: the facts settle without waiting for the readers
MaySettleAtOnce(p) == p.facts

\* The readers are done; or, as a survivor holds the pipe, the grace period is.
MaySettle(p) == p.facts /\ (p.left \/ p.child = "running")

\* The grace period is long beside a reader that has only to drain a pipe.
Settle(h) ==
  /\ MaySettle(proc[h])
  /\ ~proc[h].settled
  /\ proc' = [proc EXCEPT ![h].settled = TRUE, ![h].cut = ~proc[h].left /\ proc[h].child = "running"]
  /\ UNCHANGED <<serving, outbound, closed, link, handle, slot>>

\* The daemon's read of the socket ends.
CloseProcesses ==
  /\ ~link /\ ~closed
  /\ closed' = TRUE
  /\ proc' = [h \in Handles |-> IF proc[h].leader = "none" THEN proc[h]
                                ELSE Disposed(proc[h])]
  /\ UNCHANGED <<serving, outbound, link, handle, slot>>

\* The process: it prints, forks a child, and ends.
Prints(h) ==
  /\ Alive(proc[h]) /\ proc[h].printed < Chunks
  /\ proc' = [proc EXCEPT ![h].printed = @ + 1]
  /\ UNCHANGED <<serving, outbound, closed, link, handle, slot>>

Fork(h) ==
  /\ proc[h].leader = "running" /\ proc[h].child = "none"
  /\ proc' = [proc EXCEPT ![h].child = "running"]
  /\ UNCHANGED <<serving, outbound, closed, link, handle, slot>>

Exit(h) ==
  /\ \/ /\ proc[h].leader = "running"
        /\ proc' = [proc EXCEPT ![h].leader = "gone"]
     \/ /\ proc[h].child = "running"
        /\ proc' = [proc EXCEPT ![h].child = "gone"]
  /\ UNCHANGED <<serving, outbound, closed, link, handle, slot>>

-----------------------------------------------------------------------------
(* The handle.                                                             *)

Ask(h, request) == serving' = [serving EXCEPT ![h] = @ \cup {Task(request)}]

\* Registering takes the connection's one frame handler.
Spawn(h) ==
  /\ handle[h].stage = "new"
  /\ link
  /\ \E piped \in BOOLEAN :
       /\ handle' = [handle EXCEPT ![h].stage = "spawn", ![h].piped = piped]
       /\ slot' = IF piped THEN h ELSE slot
  /\ Ask(h, "spawn")
  /\ UNCHANGED <<proc, outbound, closed, link>>

Terminating(h) == [handle[h] EXCEPT !.terminated = TRUE]

Terminate(h) ==
  /\ handle[h].stage \in Pending
  /\ ~handle[h].terminated
  /\ handle' = [handle EXCEPT ![h] = Terminating(h)]
  /\ IF handle[h].known /\ link THEN Ask(h, "terminate") ELSE UNCHANGED serving
  /\ UNCHANGED <<proc, outbound, closed, link, slot>>

\* Ending the pipes replaces the connection's handler, whoever's it is.
PipesClosed(h) == IF h \in Piped THEN None ELSE slot

\* mutant: a terminate asked for before the answer is forgotten
NextRequestForgets(h) ==
  CASE handle[h].stage = "spawn" -> "wait"
    [] handle[h].stage = "wait" -> IF h \in Piped THEN "outcome" ELSE "read"
    [] handle[h].stage = "read" -> "outcome"

\* What run asks for next: a terminate that waited for the id goes first.
NextRequest(h) ==
  CASE handle[h].stage = "spawn" /\ handle[h].terminated -> "terminateFirst"
    [] handle[h].stage \in {"spawn", "terminateFirst"} -> "wait"
    [] handle[h].stage = "wait" -> IF h \in Piped THEN "outcome" ELSE "read"
    [] handle[h].stage = "read" -> "outcome"

\* mutant: the frames that raced the spawn's answer are dropped
FlushedNone(t) == [t EXCEPT !.buffered = <<>>, !.known = TRUE]

\* The id is known: what was held is delivered.
Flushed(t) == [t EXCEPT !.heard = @ \o t.buffered, !.buffered = <<>>, !.known = TRUE]

\* One read answers with the window whole: the mirror's cap is the daemon's.
Mirrored(t, captured) ==
  [t EXCEPT !.from = IF captured > Window THEN captured - Window ELSE 0,
            !.upTo = captured]

TakeAnswer(h, m) ==
  LET t == CASE m.what = "spawn" -> Flushed(handle[h])
             [] m.what = "read" -> Mirrored(handle[h], m.at)
             [] OTHER -> handle[h]
  IN  IF m.what = "terminate" THEN UNCHANGED <<handle, slot, serving>>
      ELSE IF ~m.ok
      THEN /\ handle' = [handle EXCEPT ![h].stage = "failed"]
           /\ slot' = PipesClosed(h)
           /\ UNCHANGED serving
      ELSE IF handle[h].stage = "outcome"
      THEN /\ handle' = [handle EXCEPT ![h].stage = "done"]
           /\ slot' = PipesClosed(h)
           /\ UNCHANGED serving
      ELSE /\ handle' = [handle EXCEPT ![h] = [t EXCEPT !.stage = NextRequest(h)]]
           /\ Ask(h, NextRequest(h))
           /\ UNCHANGED slot

TakeFrame(h, m) ==
  /\ handle' = CASE slot = None -> handle
                 [] slot # None /\ ~handle[slot].known ->
                      [handle EXCEPT ![slot].buffered =
                         IF h = slot THEN Append(@, m.at) ELSE @]
                 [] OTHER ->
                      [handle EXCEPT ![slot].heard =
                         IF h = slot THEN Append(@, m.at) ELSE @]
  /\ UNCHANGED <<slot, serving>>

Receive ==
  /\ link /\ outbound # <<>>
  /\ LET m == Head(outbound)
     IN  IF m.what = "frame" THEN TakeFrame(m.of, m) ELSE TakeAnswer(m.of, m)
  /\ outbound' = Tail(outbound)
  /\ UNCHANGED <<proc, closed, link>>

\* The connection is disposed: every request in flight rejects.
LinkDrops ==
  /\ link
  /\ link' = FALSE
  /\ outbound' = <<>>
  /\ handle' = [h \in Handles |-> IF handle[h].stage \in Pending
                                  THEN [handle[h] EXCEPT !.stage = "failed"]
                                  ELSE handle[h]]
  /\ slot' = None
  /\ UNCHANGED <<proc, serving, closed>>

-----------------------------------------------------------------------------
ProcessInit ==
  /\ proc = [h \in Handles |-> Unborn]
  /\ serving = [h \in Handles |-> {}]
  /\ outbound = <<>> /\ closed = FALSE /\ link = TRUE /\ slot = None
  /\ handle = [h \in Handles |-> NoHandle]

Serve(h) ==
  ServeSpawn(h) \/ ServeTerminate(h) \/ ServeWait(h) \/ ServeFacts(h) \/ Respond(h)

Manage(h) == Capture(h) \/ Push(h) \/ ReaderEnds(h) \/ Reap(h) \/ Settle(h)

World(h) == Prints(h) \/ Fork(h) \/ Exit(h) \/ Spawn(h) \/ Terminate(h)

ProcessNext ==
  \/ Receive \/ LinkDrops \/ CloseProcesses
  \/ \E h \in Handles : Serve(h) \/ Manage(h) \/ Escalate(h) \/ World(h)

\* Tasks, timers and the socket go on; a process need not, nor a person act.
ProcessFairness ==
  /\ WF_processVars(Receive) /\ WF_processVars(CloseProcesses)
  /\ \A h \in Handles :
       /\ WF_processVars(Manage(h)) /\ WF_processVars(Escalate(h))
       /\ WF_processVars(ServeSpawn(h)) /\ WF_processVars(ServeTerminate(h))
       /\ WF_processVars(ServeWait(h)) /\ WF_processVars(ServeFacts(h))
       /\ WF_processVars(Respond(h))

ProcessSpec == ProcessInit /\ [][ProcessNext]_processVars

FairProcessSpec == ProcessSpec /\ ProcessFairness

-----------------------------------------------------------------------------
(* Properties.                                                             *)

Upto(n) == [i \in 1..n |-> i]

ProcessTypeOK ==
  /\ proc \in [Handles ->
       [leader : {"none", "running", "gone"}, child : {"none", "running", "gone"},
        deaf : SUBSET {"leader", "child"}, printed : 0..Chunks,
        captured : 0..Chunks, inHand : BOOLEAN, left : BOOLEAN, facts : BOOLEAN,
        settled : BOOLEAN, cut : BOOLEAN, terminating : BOOLEAN,
        ladder : BOOLEAN, abandoned : BOOLEAN, disposed : BOOLEAN]]
  /\ Len(outbound) <= Backlog
  /\ slot \in Handles \cup {None}
  /\ link \in BOOLEAN /\ closed \in BOOLEAN

\* A pushed stream is what the process printed, in order and without a gap, up
\* to where it was abandoned; and all of it once the handle settles, frames
\* that raced the spawn's answer included (subprocess.ts 225-228, capture in
\* subprocess.rs 545-553).
PipeIsThePrint == \A h \in Piped :
  LET t == handle[h]
  IN  /\ IsPrefix(t.heard \o t.buffered, Upto(Chunks))
      /\ t.stage = "done" /\ ~proc[h].cut /\ ~proc[h].abandoned
           => t.heard = Upto(proc[h].printed)

\* Collected output is fetched once, completely, before done settles: the
\* newest of it up to the window (subprocess.ts 14-19).
MirrorIsComplete == \A h \in Handles \ Piped :
  handle[h].stage = "done" /\ ~proc[h].cut =>
    /\ handle[h].upTo = proc[h].printed
    /\ handle[h].upTo - handle[h].from
         = IF proc[h].printed > Window THEN Window ELSE proc[h].printed

\* done resolves only when no member of the process group is left.
DoneIsGone == \A h \in Handles : handle[h].stage = "done" => ~Alive(proc[h])

\* Once the daemon has closed a connection, no process it started runs, but
\* for the survivor of one that had settled before.
ClosedRangesEnd == closed => \A h \in Handles :
  proc[h].leader # "running" /\ (proc[h].child = "running" => proc[h].facts)

\* What the plugin's handle says of the daemon's process is so: done means gone
\* and fetched, a closed connection has nothing running, and no more frames
\* wait than the channel holds.
ProcessInv ==
  /\ ProcessTypeOK
  /\ MirrorIsComplete
  /\ DoneIsGone
  /\ ClosedRangesEnd

\* A terminate, even one asked for before the daemon has answered the spawn,
\* ends the process that was asked for.
TerminateEndsLeader == \A h \in Handles :
  handle[h].terminated ~> proc[h].leader # "running" /\ handle[h].stage # "spawn"

\* A handle settles once the group is gone, or the connection.
HandleSettles == \A h \in Handles :
  (handle[h].stage \in Pending /\ (~link \/ (handle[h].known /\ ~Alive(proc[h]))))
    ~> handle[h].stage \in {"done", "failed"}

\* Termination addresses the whole managed range (subprocess.rs 3-6, 371).
TerminatedRangeEnds == \A h \in Handles :
  (handle[h].terminated /\ handle[h].known) ~> ~Alive(proc[h])

\* A chunk pushed by the daemon has a handler to receive it (subprocess.ts 225).
NoChunkUnheard == \A h \in Piped :
  handle[h].stage \in {"wait", "outcome"} => slot = h
=============================================================================
