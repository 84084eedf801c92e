----------------------------- MODULE RemoteTty -----------------------------
(***************************************************************************)
(* The terminal proxy of src/src/remote/tty.ts over one terminal of the    *)
(* daemon (AgentTerminal).                                                 *)
(*                                                                         *)
(* The follow loop pulls the daemon's window into a local stream, one read *)
(* at a time; terminate asks the daemon to end the session, pulls a last   *)
(* time and asks for the exit facts; a dropped transport rejects whatever  *)
(* is asked.  A write to the stream may have to wait for a drain, which    *)
(* comes only while the consumer reads and not after the stream has ended. *)
(***************************************************************************)
EXTENDS AgentTerminal, Sequences

ASSUME PullsAssumption == Reads = {"follow", "last"}

VARIABLES
  link,       \* the transport carries requests
  offset,     \* the whole-stream offset to read from next
  stream,     \* what was written to the local stream: units and notes
  flowing,    \* the consumer is reading the stream
  settled,    \* how `done` settled; "no" stands for ~finished
  releasing,  \* a teardown has begun
  pull,       \* the two uses of pull(): the loop's and the teardown's
  stop        \* the teardown

proxyVars == <<link, offset, stream, flowing, settled, releasing, pull, stop>>
ttyVars   == <<agentVars, proxyVars>>

-----------------------------------------------------------------------------

Note == 0     \* "[output lost: n bytes]"; units are numbered from one

Pull == [phase   : {"idle", "asked", "noted", "published", "over"},
         blocked : BOOLEAN]       \* its write waits for a drain
Idle == [phase |-> "idle", blocked |-> FALSE]

Stop == {"no", "terminating", "pulling", "asking", "over", "failed"}

Finished == settled # "no"

TtyInit ==
  /\ AgentInit
  /\ link = TRUE
  /\ offset = 0
  /\ stream = <<>>
  /\ flowing = TRUE
  /\ settled = "no"
  /\ releasing = FALSE
  /\ pull = [p \in Reads |-> Idle]
  /\ stop = "no"

\* The units of an answered read: what the window held from its offset on.
Units(r) ==
  LET begin == Larger(read[r].from, read[r].first)
  IN  [i \in 1 .. Larger(0, read[r].upto - begin) |-> begin + i]

-----------------------------------------------------------------------------
(* The transport *)

\* A request goes to the daemon, or is rejected by a transport that is gone.
Asks(p) ==
  /\ pull' = [pull EXCEPT ![p] = [phase |-> "asked", blocked |-> FALSE]]
  /\ read' = [read EXCEPT ![p] =
       IF link THEN Begun(offset) ELSE [NoRead EXCEPT !.phase = "refused"]]

\* A transport that drops rejects every answer it still owed, once the manager
\* has closed the connection; the daemon sees its end close on its own time.
LinkDrops ==
  /\ link
  /\ link' = FALSE
  /\ read' = [r \in Reads |-> IF pull[r].phase = "asked"
                                THEN [NoRead EXCEPT !.phase = "refused"]
                                ELSE read[r]]
  /\ UNCHANGED <<sessionVars, windowVars, tableVars, ladder, offset, stream,
                 flowing, settled, releasing, pull, stop>>

-----------------------------------------------------------------------------
(* The stream *)

\* finish: `done` settles once and the stream ends.
Finish(how) == settled' = IF Finished THEN settled ELSE how

PublishAnyway(p, units, phase) ==  \* mutant: an ended stream is written to
  /\ stream' = stream \o units
  /\ \E full \in BOOLEAN :
       pull' = [pull EXCEPT ![p] = [phase   |-> phase,
                                    blocked |-> full /\ units # <<>>]]

\* publish: nothing is written to an ended stream; a full one is waited for.
Publish(p, units, phase) ==
  LET written == IF Finished THEN <<>> ELSE units
  IN  /\ stream' = stream \o written
      /\ \E full \in BOOLEAN :
           pull' = [pull EXCEPT ![p] = [phase   |-> phase,
                                        blocked |-> full /\ written # <<>>]]

DrainsForLoop ==  \* mutant: one waiter is remembered, the first
  /\ flowing
  /\ ~Finished
  /\ pull["follow"].blocked
  /\ pull' = [pull EXCEPT !["follow"].blocked = FALSE]
  /\ UNCHANGED <<agentVars, link, offset, stream, flowing, settled, releasing,
                 stop>>

\* The stream drains for whoever waits on it.
Drains ==
  /\ flowing
  /\ ~Finished
  /\ \E p \in Reads : pull[p].blocked
  /\ pull' = [p \in Reads |-> [pull[p] EXCEPT !.blocked = FALSE]]
  /\ UNCHANGED <<agentVars, link, offset, stream, flowing, settled, releasing,
                 stop>>

\* The registry pauses and resumes the stream.
Paces ==
  /\ flowing' = ~flowing
  /\ UNCHANGED <<agentVars, link, offset, stream, settled, releasing, pull,
                 stop>>

-----------------------------------------------------------------------------
(* pull() *)

RestOfDaemon == UNCHANGED <<sessionVars, windowVars, tableVars, ladder>>
RestOfProxy  == UNCHANGED <<link, flowing, settled, releasing, stop>>

\* The answer arrives; an offset that had slid out of the window is noted.
Answered(p) ==
  /\ pull[p].phase = "asked"
  /\ read[p].phase = "answered"
  /\ Publish(p, IF Lossy(p) THEN <<Note>> ELSE <<>>, "noted")
  /\ UNCHANGED <<agentVars, offset>>
  /\ RestOfProxy

TakesNoOffset(p) ==  \* mutant: the offset is not moved on
  /\ pull[p].phase = "noted"
  /\ ~pull[p].blocked
  /\ Publish(p, Units(p), "published")
  /\ UNCHANGED <<agentVars, offset>>
  /\ RestOfProxy

\* Then the offset moves on and the bytes are published.
Takes(p) ==
  /\ pull[p].phase = "noted"
  /\ ~pull[p].blocked
  /\ offset' = read[p].upto
  /\ Publish(p, Units(p), "published")
  /\ UNCHANGED agentVars
  /\ RestOfProxy

Back(p) == pull[p].phase = "published" /\ ~pull[p].blocked

\* pull() of the follow loop returns: round again, stop, or settle.
FollowGoesOn ==
  /\ Back("follow")
  /\ ~Finished /\ ~releasing
  /\ ~read["follow"].ended
  /\ Asks("follow")
  /\ UNCHANGED offset /\ UNCHANGED stream
  /\ RestOfDaemon /\ RestOfProxy

FollowEnds ==
  /\ Back("follow")
  /\ Finished \/ releasing \/ read["follow"].ended
  /\ IF Finished \/ releasing THEN UNCHANGED settled ELSE Finish("facts")
  /\ pull' = [pull EXCEPT !["follow"].phase = "over"]
  /\ read' = [read EXCEPT !["follow"] = NoRead]
  /\ RestOfDaemon
  /\ UNCHANGED <<link, offset, stream, flowing, releasing, stop>>

FollowIgnoresReject ==  \* mutant: a rejected read does not settle the handle
  /\ pull["follow"].phase = "asked"
  /\ read["follow"].phase = "refused"
  /\ pull' = [pull EXCEPT !["follow"].phase = "over"]
  /\ read' = [read EXCEPT !["follow"] = NoRead]
  /\ RestOfDaemon
  /\ UNCHANGED <<link, offset, stream, flowing, settled, releasing, stop>>

\* The read is rejected: the handle settles without facts.
FollowRejected ==
  /\ pull["follow"].phase = "asked"
  /\ read["follow"].phase = "refused"
  /\ Finish("none")
  /\ pull' = [pull EXCEPT !["follow"].phase = "over"]
  /\ read' = [read EXCEPT !["follow"] = NoRead]
  /\ RestOfDaemon
  /\ UNCHANGED <<link, offset, stream, flowing, releasing, stop>>

-----------------------------------------------------------------------------
(* createRemoteTty and terminate *)

\* The spawn is answered: the handle exists and the follow loop begins.
Started ==
  /\ link
  /\ table \in {"in", "gone"}
  /\ pull["follow"].phase = "idle"
  /\ Asks("follow")
  /\ UNCHANGED offset /\ UNCHANGED stream
  /\ RestOfDaemon /\ RestOfProxy

\* terminate: nothing for a settled handle, else the daemon is asked.
Terminate ==
  /\ stop = "no"
  /\ pull["follow"].phase # "idle"
  /\ IF Finished
       THEN stop' = "over" /\ UNCHANGED <<agentVars, releasing>>
       ELSE /\ stop' = "terminating"
            /\ releasing' = TRUE
            /\ IF link THEN TerminateAsks ELSE UNCHANGED agentVars
  /\ UNCHANGED <<link, offset, stream, flowing, settled, pull>>

\* The daemon's ladder is done: one last pull.
TerminateAnswered ==
  /\ stop = "terminating"
  /\ link
  /\ ladder = "gone"
  /\ stop' = "pulling"
  /\ Asks("last")
  /\ RestOfDaemon
  /\ UNCHANGED <<link, offset, stream, flowing, settled, releasing>>

\* The daemon refuses, or the transport is gone: terminate rejects.
TerminateRejected ==
  /\ stop = "terminating"
  /\ ~link \/ ladder = "refused"
  /\ stop' = "failed"
  /\ UNCHANGED <<agentVars, link, offset, stream, flowing, settled, releasing,
                 pull>>

\* The last pull returns with the facts, or without them, or is rejected.
LastEnds ==
  /\ Back("last") \/ (pull["last"].phase = "asked" /\ read["last"].phase = "refused")
  /\ IF read["last"].phase = "answered" /\ read["last"].ended
       THEN Finish("facts") /\ stop' = "over"
       ELSE UNCHANGED settled /\ stop' = "asking"
  /\ pull' = [pull EXCEPT !["last"].phase = "over"]
  /\ read' = [read EXCEPT !["last"] = NoRead]
  /\ RestOfDaemon
  /\ UNCHANGED <<link, offset, stream, flowing, releasing>>

\* The facts the daemon kept, if it can be asked and has them.
OutcomeAnswered ==
  /\ stop = "asking"
  /\ stop' = "over"
  /\ Finish(IF link /\ table = "in" /\ outcome THEN "facts" ELSE "none")
  /\ UNCHANGED <<agentVars, link, offset, stream, flowing, releasing, pull>>

-----------------------------------------------------------------------------

PullStep(p) == Answered(p) \/ Takes(p)
FollowStep == Started \/ PullStep("follow") \/ FollowGoesOn \/ FollowEnds
                \/ FollowRejected
StopStep == \/ TerminateAnswered \/ TerminateRejected
            \/ PullStep("last") \/ LastEnds
            \/ OutcomeAnswered

\* The daemon goes on; it closes once the transport is gone.
DaemonGoesOn ==
  /\ Forks \/ SessionStep \/ DaemonStep \/ (~link /\ CloseFlags)
  /\ UNCHANGED proxyVars

TtyNext == \/ DaemonGoesOn
           \/ LinkDrops
           \/ Terminate
           \/ Drains
           \/ Paces
           \/ FollowStep
           \/ StopStep

TtySpec == TtyInit /\ [][TtyNext]_ttyVars

-----------------------------------------------------------------------------
(* Safety *)

(* The proxy has the shape the code gives it, and its offset never runs      *)
(* ahead of what the daemon has read.                                        *)
TtyTypeOK ==
  /\ AgentTypeOK
  /\ link \in BOOLEAN /\ flowing \in BOOLEAN /\ releasing \in BOOLEAN
  /\ offset \in 0 .. total
  /\ stream \in Seq(0 .. MaxBytes)
  /\ settled \in {"no", "facts", "none"}
  /\ pull \in [Reads -> Pull]
  /\ stop \in Stop

(* Nothing is published twice: the teardown's last pull does not fetch what  *)
(* the loop's read, still in flight, brings as well ("instead of racing the  *)
(* teardown for the same terminal", tty.ts).                                 *)
NothingTwice ==
  \A i, j \in 1 .. Len(stream) : i < j /\ stream[i] # Note => stream[i] # stream[j]

(* Output is published once, in order and without a silent gap: a unit       *)
(* follows the one before it, unless a note of lost output stands between    *)
(* them ("the difference between a gap and a splice", pull).  Of the follow  *)
(* loop alone: once a teardown pulls beside it nothing is claimed of the     *)
(* stream's order (the two publish the same bytes twice, NothingTwice).      *)
Follows(s) ==
  \A i \in 1 .. Len(s) : s[i] # Note =>
    \/ i = 1 /\ s[i] = 1
    \/ i > 1 /\ (s[i - 1] = Note \/ s[i] = s[i - 1] + 1)

NoSilentGap == ~releasing => Follows(stream) /\ NothingTwice

(* The proxy's offset and its stream fit the daemon's window.                *)
TtyInv == TtyTypeOK /\ NoSilentGap

(* "Writing to an ended stream would crash the loop" (publish): whatever was *)
(* in flight when the handle settled, nothing is written to the stream.      *)
NothingAfterEnd == [][Finished => stream' = stream]_ttyVars

-----------------------------------------------------------------------------
(* Liveness *)

(* Answers arrive, reads run out of budget, promises go on, and the consumer *)
(* keeps coming back to read.                                                *)
TtyFairness ==
  /\ WF_ttyVars(FollowStep) /\ WF_ttyVars(StopStep)
  /\ WF_ttyVars(Paces) /\ SF_ttyVars(Drains)
  /\ WF_ttyVars(~link /\ CloseFlags /\ UNCHANGED proxyVars)
  /\ WF_ttyVars((Lands \/ CloseDrains) /\ UNCHANGED proxyVars)
  /\ WF_ttyVars(ReaderStep /\ UNCHANGED proxyVars)
  /\ WF_ttyVars(ReaperStep /\ UNCHANGED proxyVars)
  /\ WF_ttyVars(LadderStep /\ UNCHANGED proxyVars)
  /\ \A r \in Reads : WF_ttyVars(ReadStep(r) /\ UNCHANGED proxyVars)
  /\ WF_ttyVars(killed /\ (LeaderEnds \/ ChildrenEnd) /\ UNCHANGED proxyVars)

FairTtySpec == TtySpec /\ TtyFairness

(* The loop returned because a teardown had begun, and the teardown was then *)
(* rejected: nobody is left who would settle the handle.                     *)
Stranded == stop = "failed" /\ pull["follow"].phase = "over" /\ ~Finished

(* "The handle settles once, with the facts it has" (createRemoteTty): one   *)
(* whose process exited, whose transport dropped or that is being released   *)
(* settles, unless it is stranded, which is the one way the code leaves it   *)
(* open (terminate has no catch).  A rejected teardown excuses nothing while *)
(* the loop still reads: the loop must settle the handle then.               *)
HandleSettles ==
  (pull["follow"].phase # "idle" /\ (outcome \/ ~link \/ releasing))
    ~> (Finished \/ Stranded)

(* The same sentence without the exception: a released terminal settles.     *)
ReleasedSettles == releasing ~> Finished

(* While the transport carries requests, terminate returns, so that kill and *)
(* releaseSession, which await it, do: the last pull is not left waiting for *)
(* a drain that only the follow loop hears of.                               *)
TeardownReturns ==
  stop = "terminating" ~> (stop \in {"over", "failed"} \/ ~link)

=============================================================================
