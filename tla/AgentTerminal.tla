--------------------------- MODULE AgentTerminal ---------------------------
(***************************************************************************)
(* One terminal of the node daemon: agent/src/terminal.rs, with the output *)
(* window of agent/src/execution.rs.                                       *)
(*                                                                         *)
(* A terminal is a session on a PTY, a thread that reads its output into a *)
(* bounded window, a thread that reaps its leader, the reads that wait for *)
(* output, and the teardown ladder.  Requests run in tasks of their own    *)
(* and the threads run beside them.  Terminals of a connection share only  *)
(* the table and its closed flag, so one terminal is modelled.  The        *)
(* session's processes are external.  Output is counted in units.          *)
(***************************************************************************)
EXTENDS Integers

CONSTANTS
  Reads,      \* read requests outstanding at a time
  MaxBytes,   \* bound: units of output the session produces
  Window,     \* TERMINAL_WINDOW_BYTES
  Children    \* the leader may start other members of its process group

ASSUME WindowAssumption == MaxBytes \in Nat /\ Window \in Nat \ {0}
ASSUME ChildrenAssumption == Children \in BOOLEAN

VARIABLES
  leader,    \* the top-level process
  members,   \* other members of its process group are alive
  killed,    \* history: the group was sent SIGKILL
  printed,   \* units the session has written to the PTY
  total,     \* units the reader thread has pushed: the window's end
  dropped,   \* units that have slid out of the window
  reader,    \* the reader thread, which owns the master descriptor
  outcome,   \* the exit facts are recorded
  table,     \* the terminal's place in the connection's table
  closed,    \* the closed flag of the table
  drained,   \* close() has emptied the table
  ladder,    \* the teardown
  read       \* the read requests

sessionVars == <<leader, members, killed, printed>>
windowVars  == <<total, dropped, reader, outcome>>
tableVars   == <<table, closed, drained>>
agentVars   == <<sessionVars, windowVars, tableVars, ladder, read>>

-----------------------------------------------------------------------------

\* One read: what its last look at the window found, whether a notification
\* came since, and whether its answer carries the exit facts.
Read == [phase : {"none", "begun", "looked", "asleep", "answered", "refused"},
         from  : 0 .. MaxBytes,
         first : 0 .. MaxBytes,    \* the window's begin when it looked
         upto  : 0 .. MaxBytes,    \* and its end
         woken : BOOLEAN,
         late  : BOOLEAN,          \* its budget has run out
         ended : BOOLEAN]

NoRead == [phase |-> "none", from |-> 0, first |-> 0, upto |-> 0,
           woken |-> FALSE, late |-> FALSE, ended |-> FALSE]

Larger(m, n) == IF m > n THEN m ELSE n

\* group_alive: an unreaped leader still is a member of its group.
GroupAlive == leader \in {"running", "zombie"} \/ members

Lossy(r)  == read[r].from < read[r].first
Empty(r)  == Larger(read[r].from, read[r].first) >= read[r].upto

\* notify_waiters: every read registered since its last look is woken.
Wake == read' = [r \in Reads |->
                   IF read[r].phase \in {"looked", "asleep"}
                     THEN [read[r] EXCEPT !.woken = TRUE] ELSE read[r]]

AgentInit ==
  /\ leader = "none"
  /\ members = FALSE
  /\ killed = FALSE
  /\ printed = 0
  /\ total = 0
  /\ dropped = 0
  /\ reader = "off"
  /\ outcome = FALSE
  /\ table = "none"
  /\ closed = FALSE
  /\ drained = FALSE
  /\ ladder = "none"
  /\ read = [r \in Reads |-> NoRead]

-----------------------------------------------------------------------------
(* The session *)

\* spawn: the session is forked and its two threads start.
Forks ==
  /\ table = "none"
  /\ table' = "forked"
  /\ leader' = "running"
  /\ reader' = "running"
  /\ UNCHANGED <<members, killed, printed, total, dropped, outcome, closed,
                 drained, ladder, read>>

LandsUnchecked ==  \* mutant: the closed flag is not looked at
  /\ table = "forked"
  /\ table' = "in"
  /\ UNCHANGED <<sessionVars, windowVars, closed, drained, ladder, read>>

\* Under the table's lock it is inserted, or ended when the table has closed.
Lands ==
  /\ table = "forked"
  /\ table' = IF closed THEN "gone" ELSE "in"
  /\ killed' = (killed \/ closed)
  /\ UNCHANGED <<leader, members, printed, windowVars, closed, drained, ladder,
                 read>>

Prints ==
  /\ leader = "running" \/ members
  /\ printed < MaxBytes
  /\ printed' = printed + 1
  /\ UNCHANGED <<leader, members, killed, windowVars, tableVars, ladder, read>>

ChildStarts ==
  /\ Children
  /\ leader = "running"
  /\ ~killed
  /\ ~members
  /\ members' = TRUE
  /\ UNCHANGED <<leader, killed, printed, windowVars, tableVars, ladder, read>>

ChildrenEnd ==
  /\ members
  /\ members' = FALSE
  /\ UNCHANGED <<leader, killed, printed, windowVars, tableVars, ladder, read>>

LeaderEnds ==
  /\ leader = "running"
  /\ leader' = "zombie"
  /\ UNCHANGED <<members, killed, printed, windowVars, tableVars, ladder, read>>

-----------------------------------------------------------------------------
(* The threads *)

\* StreamBuffer.push: the window keeps the newest Window units.
Push(n) ==
  /\ total' = total + n
  /\ dropped' = Larger(dropped, total + n - Window)

\* The reader thread pushes what it read from the master.
ReaderPushes(n) ==
  /\ reader = "running"
  /\ total + n <= printed
  /\ Push(n)
  /\ Wake
  /\ UNCHANGED <<sessionVars, reader, outcome, tableVars, ladder>>

\* With nobody left on the terminal and nothing left to read, the reader closes
\* the master and ends.
ReaderEnds ==
  /\ reader = "running"
  /\ leader # "running" /\ ~members
  /\ total = printed
  /\ reader' = "ended"
  /\ UNCHANGED <<sessionVars, total, dropped, outcome, tableVars, ladder, read>>

\* The reaper thread: waitpid, then the facts are recorded and reads woken.
Reaps ==
  /\ leader = "zombie"
  /\ leader' = "reaped"
  /\ UNCHANGED <<members, killed, printed, windowVars, tableVars, ladder, read>>

RecordsQuietly ==  \* mutant: the facts wake nobody
  /\ leader = "reaped"
  /\ ~outcome
  /\ outcome' = TRUE
  /\ UNCHANGED <<sessionVars, total, dropped, reader, tableVars, ladder, read>>

Records ==
  /\ leader = "reaped"
  /\ ~outcome
  /\ outcome' = TRUE
  /\ Wake
  /\ UNCHANGED <<sessionVars, total, dropped, reader, tableVars, ladder>>

-----------------------------------------------------------------------------
(* Requests *)

RestOfAgent == UNCHANGED <<sessionVars, windowVars, tableVars, ladder>>

\* A read request: refused for a terminal the table does not have.
Begun(from) ==
  [NoRead EXCEPT !.phase = IF table = "in" THEN "begun" ELSE "refused",
                 !.from = from]

ReadAsks(r) ==
  /\ table \in {"in", "gone"}
  /\ read[r].phase = "none"
  /\ \E from \in 0 .. total : read' = [read EXCEPT ![r] = Begun(from)]
  /\ RestOfAgent

\* It registers for notifications, then looks at the window.
ReadLooks(r) ==
  /\ read[r].phase = "begun"
  /\ read' = [read EXCEPT ![r].phase = "looked",
                          ![r].first = dropped, ![r].upto = total]
  /\ RestOfAgent

\* Its budget runs out, whatever it is doing.
ReadExpires(r) ==
  /\ read[r].phase \in {"begun", "looked", "asleep"}
  /\ ~read[r].late
  /\ read' = [read EXCEPT ![r].late = TRUE]
  /\ RestOfAgent

\* Whether the read has something to say, or has waited long enough.
Answers(r) == ~Empty(r) \/ Lossy(r) \/ outcome \/ read[r].late

Answer(r) == [read[r] EXCEPT !.phase = "answered", !.ended = outcome,
                             !.woken = FALSE, !.late = FALSE]

ReadDecidesUnarmed(r) ==  \* mutant: it registers only when it goes to sleep
  /\ read[r].phase = "looked"
  /\ read' = [read EXCEPT ![r] =
       IF Answers(r) THEN Answer(r)
                     ELSE [read[r] EXCEPT !.phase = "asleep", !.woken = FALSE]]
  /\ RestOfAgent

\* Once it has looked at the window it looks at the facts, and answers or sleeps.
ReadDecides(r) ==
  /\ read[r].phase = "looked"
  /\ read' = [read EXCEPT ![r] =
       IF Answers(r) THEN Answer(r) ELSE [read[r] EXCEPT !.phase = "asleep"]]
  /\ RestOfAgent

\* A notification, or the end of its budget, sends it round again.
ReadWakes(r) ==
  /\ read[r].phase = "asleep"
  /\ read[r].woken \/ read[r].late
  /\ read' = [read EXCEPT ![r] = [NoRead EXCEPT !.phase = "begun",
                                                !.from  = read[r].from,
                                                !.late  = read[r].late]]
  /\ RestOfAgent

ReadEnds(r) ==
  /\ read[r].phase \in {"answered", "refused"}
  /\ read' = [read EXCEPT ![r] = NoRead]
  /\ RestOfAgent

\* terminate: SIGTERM, a grace, SIGKILL, a grace, a refusal.
TerminateAsks ==
  /\ table \in {"in", "gone"}
  /\ ladder = "none"
  /\ ladder' = IF table = "in" THEN "term" ELSE "refused"
  /\ UNCHANGED <<sessionVars, windowVars, tableVars, read>>

LadderGone ==
  /\ ladder \in {"term", "kill"}
  /\ ~GroupAlive
  /\ ladder' = "gone"
  /\ UNCHANGED <<sessionVars, windowVars, tableVars, read>>

LadderEscalates ==
  /\ ladder \in {"term", "kill"}
  /\ GroupAlive
  /\ ladder' = IF ladder = "term" THEN "kill" ELSE "refused"
  /\ killed' = TRUE
  /\ UNCHANGED <<leader, members, printed, windowVars, tableVars, read>>

\* close: the connection's socket is gone; the flag, then the table.
CloseFlags ==
  /\ ~closed
  /\ closed' = TRUE
  /\ UNCHANGED <<sessionVars, windowVars, table, drained, ladder, read>>

CloseDrains ==
  /\ closed
  /\ ~drained
  /\ drained' = TRUE
  /\ table' = IF table = "in" THEN "gone" ELSE table
  /\ killed' = (killed \/ table = "in")
  /\ UNCHANGED <<leader, members, printed, windowVars, closed, ladder, read>>

-----------------------------------------------------------------------------

SessionStep == Prints \/ ChildStarts \/ ChildrenEnd \/ LeaderEnds
ReaderStep == (\E n \in 1 .. MaxBytes : ReaderPushes(n)) \/ ReaderEnds
ReaperStep == Reaps \/ Records
ReadStep(r) == ReadLooks(r) \/ ReadDecides(r) \/ ReadWakes(r) \/ ReadExpires(r)
LadderStep == LadderGone \/ LadderEscalates

\* What the daemon does of its own once requests are there.
DaemonStep ==
  \/ Lands
  \/ ReaderStep
  \/ ReaperStep
  \/ \E r \in Reads : ReadStep(r)
  \/ LadderStep
  \/ CloseDrains

AgentNext ==
  \/ Forks
  \/ SessionStep
  \/ DaemonStep
  \/ CloseFlags
  \/ TerminateAsks
  \/ \E r \in Reads : ReadAsks(r) \/ ReadEnds(r)

AgentSpec == AgentInit /\ [][AgentNext]_agentVars

-----------------------------------------------------------------------------
(* Safety *)

(* The window holds exactly the newest output up to its cap, never ahead of  *)
(* the session, and everything else has its declared shape (StreamBuffer).   *)
AgentTypeOK ==
  /\ leader \in {"none", "running", "zombie", "reaped"}
  /\ members \in BOOLEAN /\ killed \in BOOLEAN /\ outcome \in BOOLEAN
  /\ printed \in 0 .. MaxBytes
  /\ total \in 0 .. printed
  /\ dropped = Larger(0, total - Window)
  /\ reader \in {"off", "running", "ended"}
  /\ table \in {"none", "forked", "in", "gone"}
  /\ closed \in BOOLEAN /\ drained \in BOOLEAN
  /\ ladder \in {"none", "term", "kill", "gone", "refused"}
  /\ read \in [Reads -> Read]

(* "A byte that lands between the two wakes this read instead of waiting out *)
(* the timeout" (read): a sleeping read nobody woke has seen all the output  *)
(* there is, and there are no exit facts it does not know of.                *)
NoReadOversleeps ==
  \A r \in Reads : read[r].phase = "asleep" /\ ~read[r].woken =>
    read[r].upto = total /\ ~outcome

(* "Once its socket is gone they are killed" (serve_connection): however the *)
(* allocation and the close interleave, a session that landed is not in a    *)
(* table nobody will drain, and one that left the table was killed.          *)
NoSurvivor ==
  /\ drained => table # "in"
  /\ table = "gone" => killed

-----------------------------------------------------------------------------
(* Liveness *)

(* The daemon's tasks and threads run, and a killed process ends.  Nothing   *)
(* is assumed of the reads' budgets: an answer must not depend on them.      *)
AgentFairness ==
  /\ WF_agentVars(Lands) /\ WF_agentVars(CloseDrains)
  /\ WF_agentVars(ReaderStep) /\ WF_agentVars(ReaperStep)
  /\ WF_agentVars(LadderStep)
  /\ \A r \in Reads : /\ WF_agentVars(ReadLooks(r))
                      /\ WF_agentVars(ReadDecides(r))
                      /\ WF_agentVars(ReadWakes(r))
  /\ WF_agentVars(killed /\ (LeaderEnds \/ ChildrenEnd))

FairAgentSpec == AgentSpec /\ AgentFairness

(* A connection that closes takes its session with it: whatever the order of *)
(* its allocation and the close, the group ends and its leader is reaped.    *)
ClosedSessionEnds == closed ~> (table = "none" \/ (~GroupAlive /\ outcome))

(* A read of a terminal that has output for it, or whose exit facts are      *)
(* recorded, is answered without waiting out its budget (read).              *)
Unanswered(r) == read[r].phase \in {"begun", "looked", "asleep"}

OutputAnswersRead ==
  \A r \in Reads :
    (Unanswered(r) /\ (outcome \/ total > read[r].from)) ~> ~Unanswered(r)

(* The daemon neither keeps a session of a closed connection nor leaves a    *)
(* read that can be answered asleep.                                         *)
DaemonAnswers == ClosedSessionEnds /\ OutputAnswersRead

=============================================================================
