------------------------ MODULE RemoteProcessProofs ------------------------
(***************************************************************************)
(* Proofs about RemoteProcess, for any number of processes of a connection,*)
(* any output and any size of the window and of the queue.                 *)
(*                                                                         *)
(* The argument goes in three layers: what the fields of one process say   *)
(* of each other; which request of a handle is under way, and what its     *)
(* answer may be relied on for; and where the frames of a pushed stream    *)
(* are. That a stream is heard to its end needs one thing more, that its   *)
(* handle keeps the connection's one handler.                              *)
(***************************************************************************)
EXTENDS RemoteProcess, SequenceTheorems, TLAPS

-----------------------------------------------------------------------------
(* One process *)

Proc ==
  [leader : {"none", "running", "gone"}, child : {"none", "running", "gone"},
   deaf : SUBSET {"leader", "child"}, printed : 0..Chunks,
   captured : 0..Chunks, inHand : BOOLEAN, left : BOOLEAN, facts : BOOLEAN,
   settled : BOOLEAN, cut : BOOLEAN, terminating : BOOLEAN,
   ladder : BOOLEAN, abandoned : BOOLEAN, disposed : BOOLEAN]

\* The reader has left a drained pipe; only a close, or a survivor that makes
\* it a cut, settles without that; and what a close has taken does not run.
ProcSound(p) ==
  /\ p \in Proc
  /\ p.leader = "none" => p = Unborn
  /\ p.facts => p.leader = "gone"
  /\ p.captured =< p.printed
  /\ p.inHand => p.captured > 0
  /\ p.cut => p.settled
  /\ p.left => /\ p.leader = "gone" /\ p.child # "running"
               /\ ~p.inHand /\ p.captured = p.printed
  /\ p.settled /\ ~p.disposed => p.facts /\ (p.cut \/ p.left)
  /\ p.disposed => /\ p.settled /\ p.leader # "running"
                   /\ p.child = "running" => p.facts

\* What no step takes back from a process that has been started.
Advances(p, q) ==
  /\ q.leader # "none"
  /\ ~Alive(p) => ~Alive(q) /\ q.printed = p.printed
  /\ p.left => q.left
  /\ p.settled => q.settled /\ q.cut = p.cut
  /\ p.abandoned => q.abandoned
  /\ p.disposed => q.disposed

\* What was pushed of its stream; and how far a step may take that: a stream
\* that has not been given up is pushed as far as it is captured.
PushedOf(p) == p.captured - (IF p.inHand THEN 1 ELSE 0)
InFull(p)   == p.inHand \/ (~p.abandoned /\ ~p.cut)

KeepsPace(p, q) ==
  /\ PushedOf(p) =< PushedOf(q)
  /\ InFull(q) => InFull(p) /\ PushedOf(q) = PushedOf(p)

-----------------------------------------------------------------------------
(* The requests of a handle *)

Request == Pending \cup {"terminate"}

TaskShape == [what : Request, served : BOOLEAN, ok : BOOLEAN, at : 0..Chunks]

MessageShape == [of : Handles, what : Request \cup {"frame"}, ok : BOOLEAN,
                 at : 0..Chunks]

HandleShape ==
  [stage : Pending \cup {"new", "done", "failed"}, piped : BOOLEAN,
   known : BOOLEAN, terminated : BOOLEAN, buffered : Seq(0..Chunks),
   heard : Seq(0..Chunks), from : 0..Chunks, upTo : 0..Chunks]

ShapesOK ==
  /\ \A h \in Handles : ProcSound(proc[h])
  /\ proc \in [Handles -> Proc]
  /\ serving \in [Handles -> SUBSET TaskShape]
  /\ outbound \in Seq(MessageShape) /\ Len(outbound) =< Backlog
  /\ handle \in [Handles -> HandleShape]
  /\ slot \in Handles \cup {None}
  /\ link \in BOOLEAN /\ closed \in BOOLEAN

\* The answer to a request of run, and a frame, of handle h at place i.
Answer(h, i) == outbound[i].of = h /\ outbound[i].what \in Pending
Frame(h, i)  == outbound[i].of = h /\ outbound[i].what = "frame"

\* The handle has one request under way at a time, the one of its stage.
OneRequest ==
  \A h \in Handles :
    /\ \A t \in serving[h] : link /\ t.what \in Pending => t.what = handle[h].stage
    /\ \A i \in 1 .. Len(outbound) : Answer(h, i) => outbound[i].what = handle[h].stage
    /\ \A t, u \in serving[h] : t.what \in Pending /\ u.what \in Pending => t = u
    /\ \A i, j \in 1 .. Len(outbound) : Answer(h, i) /\ Answer(h, j) => i = j
    /\ \A t \in serving[h], i \in 1 .. Len(outbound) :
         ~(t.what \in Pending /\ Answer(h, i))

\* A process is there once its spawn was answered, and nothing before.
Births ==
  \A h \in Handles :
    /\ handle[h].stage = "new" =>
         /\ serving[h] = {} /\ handle[h] = NoHandle
         /\ proc[h].leader = "none"
         /\ \A i \in 1 .. Len(outbound) : outbound[i].of # h
    /\ \A t \in serving[h] :
         IF t.what = "spawn" THEN proc[h].leader # "none" <=> t.served /\ t.ok
                             ELSE proc[h].leader # "none" /\ t.ok
    /\ \A i \in 1 .. Len(outbound) : outbound[i].of = h =>
         /\ proc[h].leader = "none" => outbound[i].what = "spawn" /\ ~outbound[i].ok
         /\ ~outbound[i].ok => outbound[i].what = "spawn" /\ proc[h].leader = "none"
    /\ handle[h].stage \in {"terminateFirst", "wait", "read", "outcome", "done"} =>
         handle[h].known
    /\ handle[h].known => proc[h].leader # "none" /\ handle[h].buffered = <<>>

\* A connection that is gone carries nothing and has no handle waiting; only
\* its close disposes of processes, and of all of them.
Closing ==
  /\ closed => ~link
  /\ ~link => /\ outbound = <<>> /\ slot = None
              /\ \A h \in Handles : handle[h].stage \notin Pending
  /\ \A h \in Handles :
       /\ proc[h].disposed => closed
       /\ closed => proc[h].leader = "none" \/ proc[h].disposed

-----------------------------------------------------------------------------
(* What an answer is relied on for *)

\* The wait of this handle has been answered, or will be with what is known.
Waited(h) ==
  \/ handle[h].stage \in {"read", "outcome", "done"}
  \/ \E i \in 1 .. Len(outbound) : outbound[i].of = h /\ outbound[i].what = "wait"
  \/ link /\ \E t \in serving[h] : t.what = "wait" /\ t.served

WaitsHold ==
  \A h \in Handles : Waited(h) =>
    proc[h].settled /\ ~Alive(proc[h]) /\ (proc[h].cut \/ proc[h].left)

\* And what is read after it is all there is.
Newest(n) == IF n > Window THEN n - Window ELSE 0

ReadsHold ==
  \A h \in Handles : ~proc[h].cut =>
    /\ \A t \in serving[h] : link /\ t.what = "read" /\ t.served =>
         t.at = proc[h].printed
    /\ \A i \in 1 .. Len(outbound) : outbound[i].of = h /\ outbound[i].what = "read" =>
         outbound[i].at = proc[h].printed
    /\ ~handle[h].piped /\ handle[h].stage \in {"outcome", "done"} =>
         /\ handle[h].upTo = proc[h].printed
         /\ handle[h].from = Newest(proc[h].printed)

-----------------------------------------------------------------------------
(* A pushed stream *)

\* What the handle has had of its stream.
Had(h) == handle[h].heard \o handle[h].buffered

Underway(h, v) ==
  \E i \in 1 .. Len(outbound) : Frame(h, i) /\ outbound[i].at = v

HadInOrder ==
  \A h \in Handles : Len(Had(h)) =< Chunks /\ Had(h) = Upto(Len(Had(h)))

SlotHolds == slot # None => handle[slot].piped /\ handle[slot].stage \in Pending

\* While the handler is its own, the frames under way follow on what it has
\* had, and unless the stream was given up they reach what was pushed.
FramesFollow ==
  slot # None =>
    /\ Len(Had(slot)) =< PushedOf(proc[slot])
    /\ \A i, j \in 1 .. Len(outbound) :
         Frame(slot, i) /\ Frame(slot, j) /\ i < j => outbound[i].at < outbound[j].at
    /\ \A i \in 1 .. Len(outbound) : Frame(slot, i) =>
         /\ Len(Had(slot)) < outbound[i].at /\ outbound[i].at =< PushedOf(proc[slot])
         /\ \A v \in Len(Had(slot)) + 1 .. outbound[i].at : Underway(slot, v)
    /\ InFull(proc[slot]) =>
         \A v \in Len(Had(slot)) + 1 .. PushedOf(proc[slot]) : Underway(slot, v)

\* The answer to the wait comes behind the last frame.
FramesBeforeEnd ==
  \A h \in Handles : ~proc[h].cut =>
    /\ \A i, j \in 1 .. Len(outbound) :
         outbound[i].of = h /\ outbound[i].what = "wait" /\ Frame(h, j) => j < i
    /\ handle[h].stage \in {"read", "outcome", "done"} =>
         \A i \in 1 .. Len(outbound) : ~Frame(h, i)

ProcessesSound ==
  /\ ShapesOK /\ OneRequest /\ Births /\ Closing
  /\ WaitsHold /\ ReadsHold
  /\ HadInOrder /\ SlotHolds /\ FramesFollow /\ FramesBeforeEnd

-----------------------------------------------------------------------------
(* The steps of one process *)

(* A process that has not been started is sound.                             *)
LEMMA UnbornSound == ProcSound(Unborn) /\ Unborn.leader = "none"
<1>1. 0 \in 0 .. Chunks
  BY SizesAssumption
<1> QED BY <1>1 DEF ProcSound, Unborn, Proc

\* A process that was sent a signal differs in who is left of it.
Signalled(p, q) ==
  /\ q \in Proc
  /\ q.leader = p.leader \/ (p.leader = "running" /\ q.leader = "gone")
  /\ q.child = p.child \/ (p.child = "running" /\ q.child = "gone")
  /\ q.printed = p.printed /\ q.captured = p.captured /\ q.inHand = p.inHand
  /\ q.left = p.left /\ q.facts = p.facts /\ q.settled = p.settled
  /\ q.cut = p.cut /\ q.abandoned = p.abandoned /\ q.disposed = p.disposed

\* Nothing differs but what its timers keep.
Alike(p, q) ==
  /\ q \in Proc
  /\ q.leader = p.leader /\ q.child = p.child
  /\ q.printed = p.printed /\ q.captured = p.captured /\ q.inHand = p.inHand
  /\ q.left = p.left /\ q.facts = p.facts /\ q.settled = p.settled
  /\ q.cut = p.cut /\ q.abandoned = p.abandoned /\ q.disposed = p.disposed

\* What a step of one process may leave of it.
Step(p, q) ==
  ProcSound(q) /\ Advances(p, q) /\ q.disposed = p.disposed

(* The signals end who heeds them and tell nothing else.                     *)
LEMMA KillSignals ==
  ASSUME NEW p \in Proc, NEW heeds
  PROVE  Signalled(p, Kill(p, heeds))
BY DEF Signalled, Kill, Proc

(* So does a terminate, which is asked for once (start_terminate).           *)
LEMMA TerminatedSignals ==
  ASSUME NEW p \in Proc
  PROVE  Signalled(p, Terminated(p))
<1>1. CASE p.terminating \/ p.settled
  BY <1>1 DEF Terminated, Signalled
<1>2. CASE ~(p.terminating \/ p.settled)
  <2> DEFINE k == Kill(p, [m \in {"leader", "child"} |-> m \notin p.deaf])
  <2>1. Signalled(p, k)
    BY KillSignals
  <2> DEFINE q == [k EXCEPT !.terminating = TRUE, !.ladder = TRUE]
  <2>2. Terminated(p) = q
    BY <1>2 DEF Terminated
  <2> HIDE DEF k
  <2>3. k \in Proc
    BY <2>1 DEF Signalled
  <2>4. Alike(k, q)
    BY <2>3 DEF Alike, Proc
  <2> HIDE DEF q
  <2>5. Signalled(p, q)
    BY <2>1, <2>4 DEF Signalled, Alike
  <2> QED BY <2>2, <2>5
<1> QED BY <1>1, <1>2

(* A signalled process is as sound as before.                                *)
LEMMA SignalledStep ==
  ASSUME NEW p, ProcSound(p), p.leader # "none", NEW q, Signalled(p, q)
  PROVE  Step(p, q) /\ KeepsPace(p, q)
<1>1. ProcSound(q)
  BY DEF ProcSound, Signalled
<1>2. Advances(p, q)
  BY DEF ProcSound, Proc, Signalled, Advances, Alive
<1>3. KeepsPace(p, q)
  <2>1. PushedOf(p) \in Int /\ PushedOf(q) = PushedOf(p)
    BY SizesAssumption DEF Signalled, PushedOf, ProcSound, Proc
  <2> QED BY <2>1 DEF Signalled, KeepsPace, InFull
<1> QED BY <1>1, <1>2, <1>3 DEF Signalled, Step

\* A step of a process that has been started, which leaves its stream in step
\* with the handler that takes it.
Steps(h) ==
  /\ proc[h].leader # "none"
  /\ Step(proc[h], proc'[h])
  /\ slot = h /\ h \in Piped /\ ~proc[h].disposed => KeepsPace(proc[h], proc'[h])

(* The reader, the reaper, the timers and the process itself.                *)
LEMMA ManagedSteps ==
  ASSUME NEW h \in Handles, proc \in [Handles -> Proc], ProcSound(proc[h]),
         \/ Capture(h) \/ ReaderEnds(h) \/ Reap(h) \/ Settle(h) \/ Escalate(h)
         \/ Prints(h) \/ Fork(h) \/ Exit(h)
  PROVE  /\ Steps(h)
         /\ proc' \in [Handles -> Proc]
         /\ \A g \in Handles : g # h => proc'[g] = proc[g]
<1> DEFINE p == proc[h]
<1>1. p \in Proc /\ p.captured \in Nat /\ p.printed \in Nat
  BY SizesAssumption DEF ProcSound, Proc
<1>2. ASSUME NEW q, proc' = [proc EXCEPT ![h] = q],
             p.leader # "none", Step(p, q), h \in Piped /\ ~p.disposed => KeepsPace(p, q)
      PROVE  /\ Steps(h)
             /\ proc' \in [Handles -> Proc]
             /\ \A g \in Handles : g # h => proc'[g] = proc[g]
  <2>1. q \in Proc
    BY <1>2 DEF Step, ProcSound
  <2>2. proc'[h] = q
    BY <1>2
  <2> QED BY <1>2, <2>1, <2>2 DEF Steps
<1>3. CASE Capture(h)
  <2> DEFINE hand == /\ h \in Piped
                     /\ ~(p.inHand \/ p.disposed \/ p.abandoned \/ p.settled)
             q == [p EXCEPT !.captured = @ + 1, !.inHand = hand]
  <2>1. proc' = [proc EXCEPT ![h] = q]
    BY <1>3 DEF Capture
  <2>2. ~p.left /\ ~p.inHand /\ p.captured < p.printed
    BY <1>3 DEF Capture
  <2>3. p.leader # "none"
    BY <1>1, <2>2 DEF ProcSound, Unborn
  <2>4. hand \in BOOLEAN
    OBVIOUS
  <2> HIDE DEF hand
  <2>5. /\ q \in Proc /\ q.captured = p.captured + 1 /\ q.inHand = hand
        /\ q.leader = p.leader /\ q.child = p.child /\ q.printed = p.printed
        /\ q.left = p.left /\ q.facts = p.facts /\ q.settled = p.settled
        /\ q.cut = p.cut /\ q.abandoned = p.abandoned /\ q.disposed = p.disposed
    <3>1. p.captured + 1 \in 0 .. Chunks
      BY <1>1, <2>2, SizesAssumption DEF Proc
    <3> QED BY <1>1, <2>4, <3>1 DEF Proc
  <2> HIDE DEF q
  <2>6. Step(p, q)
    BY <1>1, <2>2, <2>3, <2>5 DEF ProcSound, Advances, Alive, Step
  <2>7. h \in Piped /\ ~p.disposed => KeepsPace(p, q)
    <3>1. PushedOf(p) = p.captured
      BY <1>1, <2>2 DEF PushedOf
    <3>2. PushedOf(q) = IF hand THEN p.captured ELSE p.captured + 1
      BY <1>1, <2>5 DEF PushedOf
    <3>3. hand => InFull(p)
      BY DEF ProcSound, InFull, hand
    <3>4. h \in Piped /\ ~p.disposed /\ InFull(q) => hand
      BY <2>2, <2>5 DEF ProcSound, InFull, hand
    <3> QED BY <1>1, <3>1, <3>2, <3>3, <3>4 DEF KeepsPace
  <2> QED BY <1>2, <2>1, <2>3, <2>6, <2>7
<1>4. CASE ReaderEnds(h)
  <2> DEFINE q == [p EXCEPT !.left = TRUE]
  <2>1. proc' = [proc EXCEPT ![h] = q]
    BY <1>4 DEF ReaderEnds
  <2>2. /\ p.leader = "gone" /\ p.child # "running"
        /\ ~p.left /\ ~p.inHand /\ p.captured = p.printed
    BY <1>4 DEF ReaderEnds
  <2>3. /\ q \in Proc /\ q.left = TRUE
        /\ q.leader = p.leader /\ q.child = p.child
        /\ q.printed = p.printed /\ q.captured = p.captured /\ q.inHand = p.inHand
        /\ q.facts = p.facts /\ q.settled = p.settled /\ q.cut = p.cut
        /\ q.abandoned = p.abandoned /\ q.disposed = p.disposed
    BY <1>1 DEF Proc
  <2> HIDE DEF q
  <2>4. Step(p, q)
    BY <1>1, <2>2, <2>3 DEF Step, ProcSound, Advances, Alive
  <2>5. KeepsPace(p, q)
    BY <1>1, <2>3 DEF KeepsPace, PushedOf, InFull
  <2> QED BY <1>2, <2>1, <2>2, <2>4, <2>5
<1>5. CASE Reap(h)
  <2> DEFINE q == [p EXCEPT !.facts = TRUE]
  <2>1. proc' = [proc EXCEPT ![h] = q] /\ p.leader = "gone"
    BY <1>5 DEF Reap
  <2>2. /\ q \in Proc /\ q.facts = TRUE
        /\ q.leader = p.leader /\ q.child = p.child
        /\ q.printed = p.printed /\ q.captured = p.captured /\ q.inHand = p.inHand
        /\ q.left = p.left /\ q.settled = p.settled /\ q.cut = p.cut
        /\ q.abandoned = p.abandoned /\ q.disposed = p.disposed
    BY <1>1 DEF Proc
  <2> HIDE DEF q
  <2>3. Step(p, q)
    BY <1>1, <2>1, <2>2 DEF Step, ProcSound, Advances, Alive
  <2>4. KeepsPace(p, q)
    BY <1>1, <2>2 DEF KeepsPace, PushedOf, InFull
  <2> QED BY <1>2, <2>1, <2>3, <2>4
<1>6. CASE Settle(h)
  <2> DEFINE q == [p EXCEPT !.settled = TRUE, !.cut = ~p.left /\ p.child = "running"]
  <2>1. proc' = [proc EXCEPT ![h] = q]
    BY <1>6 DEF Settle
  <2>2. p.facts /\ (p.left \/ p.child = "running") /\ ~p.settled /\ p.leader = "gone"
    BY <1>6 DEF Settle, MaySettle, ProcSound
  <2>3. /\ q \in Proc /\ q.settled = TRUE
        /\ q.cut = (~p.left /\ p.child = "running")
        /\ q.leader = p.leader /\ q.child = p.child
        /\ q.printed = p.printed /\ q.captured = p.captured /\ q.inHand = p.inHand
        /\ q.left = p.left /\ q.facts = p.facts
        /\ q.abandoned = p.abandoned /\ q.disposed = p.disposed
    BY <1>1 DEF Proc
  <2> HIDE DEF q
  <2>4. Step(p, q)
    BY <1>1, <2>2, <2>3 DEF Step, ProcSound, Advances, Alive
  <2>5. KeepsPace(p, q)
    <3>1. ~p.cut
      BY <2>2 DEF ProcSound
    <3> QED BY <1>1, <2>3, <3>1 DEF KeepsPace, PushedOf, InFull
  <2> QED BY <1>2, <2>1, <2>2, <2>4, <2>5
<1>7. CASE Escalate(h)
  <2> DEFINE k == IF p.disposed \/ p.settled THEN p ELSE Killed(p)
             q == [k EXCEPT !.ladder = FALSE]
  <2>1. proc' = [proc EXCEPT ![h] = q] /\ p.ladder
    BY <1>7 DEF Escalate
  <2>2. p.leader # "none"
    BY <2>1 DEF ProcSound, Unborn
  <2>3. Signalled(p, k)
    BY <1>1, KillSignals DEF Killed, Signalled
  <2> HIDE DEF k
  <2>4. Signalled(p, q)
    BY <2>3 DEF Signalled, Proc
  <2> QED BY <1>2, <2>1, <2>2, <2>4, SignalledStep
<1>8. CASE Prints(h)
  <2> DEFINE q == [p EXCEPT !.printed = @ + 1]
  <2>1. proc' = [proc EXCEPT ![h] = q] /\ Alive(p) /\ p.printed < Chunks
    BY <1>8 DEF Prints
  <2>2. p.leader # "none" /\ ~p.left
    BY <2>1 DEF ProcSound, Unborn, Alive
  <2>3. /\ q \in Proc /\ q.printed = p.printed + 1 /\ q.captured = p.captured
        /\ q.inHand = p.inHand
        /\ q.leader = p.leader /\ q.child = p.child
        /\ q.left = p.left /\ q.facts = p.facts /\ q.settled = p.settled
        /\ q.cut = p.cut /\ q.abandoned = p.abandoned /\ q.disposed = p.disposed
    BY <1>1, <2>1, SizesAssumption DEF Proc
  <2> HIDE DEF q
  <2>4. Step(p, q) /\ KeepsPace(p, q)
    BY <1>1, <2>1, <2>2, <2>3 DEF Step, ProcSound, Advances, KeepsPace, PushedOf, InFull
  <2> QED BY <1>2, <2>1, <2>2, <2>4
<1>9. CASE Fork(h)
  <2> DEFINE q == [p EXCEPT !.child = "running"]
  <2>1. proc' = [proc EXCEPT ![h] = q] /\ p.leader = "running"
    BY <1>9 DEF Fork
  <2>2. /\ q \in Proc /\ q.child = "running"
        /\ q.leader = p.leader
        /\ q.printed = p.printed /\ q.captured = p.captured /\ q.inHand = p.inHand
        /\ q.left = p.left /\ q.facts = p.facts /\ q.settled = p.settled
        /\ q.cut = p.cut /\ q.abandoned = p.abandoned /\ q.disposed = p.disposed
    BY <1>1 DEF Proc
  <2> HIDE DEF q
  <2>3. Step(p, q)
    BY <1>1, <2>1, <2>2 DEF Step, ProcSound, Advances, Alive
  <2>4. KeepsPace(p, q)
    BY <1>1, <2>2 DEF KeepsPace, PushedOf, InFull
  <2> QED BY <1>2, <2>1, <2>3, <2>4
<1>10. CASE Exit(h)
  <2>1. PICK q \in {[p EXCEPT !.leader = "gone"], [p EXCEPT !.child = "gone"]} :
          /\ proc' = [proc EXCEPT ![h] = q]
          /\ Signalled(p, q)
    BY <1>1, <1>10 DEF Exit, Signalled, Proc
  <2>2. p.leader # "none"
    BY <1>10 DEF Exit, ProcSound, Unborn
  <2> QED BY <1>2, <2>1, <2>2, SignalledStep
<1> QED BY <1>3, <1>4, <1>5, <1>6, <1>7, <1>8, <1>9, <1>10

-----------------------------------------------------------------------------
(* What the daemon does with its tasks                                     *)

\* Tasks of a handle, and what one that has been served tells.
TasksGo(h) ==
  /\ serving' \in [Handles -> SUBSET TaskShape]
  /\ \A g \in Handles : g # h => serving'[g] = serving[g]
  /\ \A t \in serving'[h] : \E u \in serving[h] :
       /\ t.what = u.what
       /\ t = u \/ /\ t.what # "spawn" /\ t.served /\ t.ok
                   /\ link /\ t.what = "wait" =>
                        /\ proc[h].settled /\ ~Alive(proc[h])
                        /\ proc[h].cut \/ proc[h].left
                   /\ t.what = "read" => t.at = proc[h].captured
  /\ \A t, u \in serving'[h] : t.what \in Pending /\ u.what \in Pending => t = u

(* Nothing waited for is taken back by what the process does next.           *)
LEMMA WaitedStays ==
  ASSUME ProcessesSound, NEW h \in Handles, Waited(h), Steps(h)
  PROVE  /\ proc[h].settled /\ ~Alive(proc[h]) /\ (proc[h].cut \/ proc[h].left)
         /\ proc'[h].settled /\ ~Alive(proc'[h]) /\ (proc'[h].cut \/ proc'[h].left)
         /\ proc'[h].cut = proc[h].cut /\ proc'[h].printed = proc[h].printed
<1>1. proc[h].settled /\ ~Alive(proc[h]) /\ (proc[h].cut \/ proc[h].left)
  BY DEF ProcessesSound, WaitsHold
<1>2. Advances(proc[h], proc'[h])
  BY DEF Steps, Step
<1> QED BY <1>1, <1>2 DEF Advances

(* What was pushed is a number, and what was had a sequence.                 *)
LEMMA PushedIsNumber ==
  ASSUME NEW p \in Proc
  PROVE  PushedOf(p) \in Int /\ (p.inHand => PushedOf(p) = p.captured - 1)
         /\ (~p.inHand => PushedOf(p) = p.captured)
<1>1. p.captured \in Int
  BY SizesAssumption DEF Proc
<1> QED BY <1>1 DEF PushedOf

LEMMA HadIsSeq ==
  ASSUME ShapesOK, NEW h \in Handles
  PROVE  /\ handle[h] \in HandleShape
         /\ handle[h].heard \in Seq(0 .. Chunks) /\ handle[h].buffered \in Seq(0 .. Chunks)
         /\ Had(h) \in Seq(0 .. Chunks) /\ Len(Had(h)) \in Nat
<1>1. handle[h].heard \in Seq(0 .. Chunks) /\ handle[h].buffered \in Seq(0 .. Chunks)
  BY DEF ShapesOK, HandleShape
<1>2. Had(h) \in Seq(0 .. Chunks)
  BY <1>1 DEF Had
<1>3. Len(Had(h)) \in Nat
  BY <1>2
<1> QED BY <1>1, <1>2, <1>3 DEF ShapesOK

(* What waits for the client are messages.                                   *)
LEMMA QueueIsSeq ==
  ASSUME ShapesOK
  PROVE  /\ outbound \in Seq(MessageShape) /\ Len(outbound) \in Nat
         /\ \A i \in 1 .. Len(outbound) :
              /\ outbound[i] \in MessageShape
              /\ outbound[i].at \in 0 .. Chunks /\ outbound[i].at \in Int
<1>1. outbound \in Seq(MessageShape) /\ Len(outbound) \in Nat
  BY DEF ShapesOK
<1>2. ASSUME NEW i \in 1 .. Len(outbound)
      PROVE  outbound[i] \in MessageShape
  BY <1>1, ElementOfSeq
<1>3. \A m \in MessageShape : m.at \in 0 .. Chunks /\ m.at \in Int
  BY SizesAssumption DEF MessageShape
<1> QED BY <1>1, <1>2, <1>3

(* A process that moves, and requests that are served meanwhile, keep all    *)
(* that is relied on.                                                        *)
LEMMA MovesKeep ==
  ASSUME ProcessesSound, NEW h \in Handles, Steps(h), TasksGo(h),
         proc' \in [Handles -> Proc],
         \A g \in Handles : g # h => proc'[g] = proc[g],
         UNCHANGED <<outbound, closed, link, handle, slot>>
  PROVE  ProcessesSound'
<1> USE DEF ProcessesSound
<1>1. ShapesOK'
  <2>1. ASSUME NEW g \in Handles PROVE ProcSound(proc'[g])
    BY <2>1 DEF ShapesOK, Steps, Step
  <2> QED BY <2>1 DEF ShapesOK, TasksGo
<1>2. OneRequest'
  <2>1. \A g \in Handles : \A t \in serving'[g] : \E u \in serving[g] : t.what = u.what
    BY DEF TasksGo
  <2>2. \A g \in Handles : \A t, u \in serving'[g] :
          t.what \in Pending /\ u.what \in Pending => t = u
    BY DEF TasksGo, OneRequest
  <2> QED BY <2>1, <2>2 DEF OneRequest, Answer
<1>3. Births'
  <2>1. proc[h].leader # "none" /\ proc'[h].leader # "none"
    BY DEF Steps, Step, Advances
  <2>2. \A g \in Handles : proc'[g].leader = "none" <=> proc[g].leader = "none"
    BY <2>1
  <2>3. \A g \in Handles : serving[g] = {} => serving'[g] = {}
    BY DEF TasksGo
  <2>4. \A g \in Handles : \A t \in serving'[g] :
          IF t.what = "spawn" THEN proc[g].leader # "none" <=> t.served /\ t.ok
                              ELSE proc[g].leader # "none" /\ t.ok
    BY <2>1 DEF TasksGo, Births
  <2> QED BY <2>2, <2>3, <2>4 DEF Births
<1>4. Closing'
  <2>1. \A g \in Handles : /\ proc'[g].disposed = proc[g].disposed
                           /\ proc[g].leader = "none" => proc'[g].leader = "none"
    BY DEF Steps, Step
  <2> QED BY <2>1 DEF Closing
<1>5. \A g \in Handles : g # h => (Waited(g)' <=> Waited(g))
  BY DEF Waited, TasksGo
<1>6. Waited(h)' => /\ proc'[h].settled /\ ~Alive(proc'[h])
                    /\ proc'[h].cut \/ proc'[h].left
  <2>1. CASE Waited(h)
    BY <2>1, WaitedStays
  <2>2. ASSUME Waited(h)', ~Waited(h)
        PROVE  /\ proc'[h].settled /\ ~Alive(proc'[h])
               /\ proc'[h].cut \/ proc'[h].left
    <3>1. PICK t \in serving'[h] : link /\ t.what = "wait" /\ t.served
      BY <2>2 DEF Waited
    <3>2. t \notin serving[h]
      BY <3>1, <2>2 DEF Waited
    <3>3. /\ proc[h].settled /\ ~Alive(proc[h])
          /\ proc[h].cut \/ proc[h].left
      BY <3>1, <3>2 DEF TasksGo
    <3>4. Advances(proc[h], proc'[h])
      BY DEF Steps, Step
    <3> QED BY <3>3, <3>4 DEF Advances
  <2> QED BY <2>1, <2>2
<1>7. WaitsHold'
  BY <1>5, <1>6 DEF WaitsHold
<1>8. ReadsHold'
  <2>1. ASSUME NEW t \in serving'[h], link, t.what = "read", t.served, ~proc'[h].cut
        PROVE  t.at = proc'[h].printed
    <3>1. PICK u \in serving[h] : /\ u.what = "read"
                                  /\ t = u \/ t.at = proc[h].captured
      BY <2>1 DEF TasksGo
    <3>2. handle[h].stage = "read"
      BY <2>1, <3>1 DEF OneRequest, Pending
    <3>3. Waited(h)
      BY <3>2 DEF Waited
    <3>4. /\ ~proc[h].cut /\ proc[h].left /\ proc'[h].printed = proc[h].printed
      BY <2>1, <3>3, WaitedStays
    <3>5. proc[h].captured = proc[h].printed
      BY <3>4 DEF ShapesOK, ProcSound
    <3>6. CASE t = u
      BY <2>1, <3>4, <3>6 DEF ReadsHold
    <3>7. CASE t.at = proc[h].captured
      BY <3>4, <3>5, <3>7
    <3> QED BY <3>1, <3>6, <3>7
  <2>2. ASSUME NEW i \in 1 .. Len(outbound), outbound[i].of = h,
               outbound[i].what = "read", ~proc'[h].cut
        PROVE  outbound[i].at = proc'[h].printed
    <3>1. handle[h].stage = "read"
      BY <2>2 DEF OneRequest, Pending, Answer
    <3>2. Waited(h)
      BY <3>1 DEF Waited
    <3>3. ~proc[h].cut /\ proc'[h].printed = proc[h].printed
      BY <2>2, <3>2, WaitedStays
    <3> QED BY <2>2, <3>3 DEF ReadsHold
  <2>3. ASSUME ~handle[h].piped, handle[h].stage \in {"outcome", "done"}, ~proc'[h].cut
        PROVE  /\ handle[h].upTo = proc'[h].printed
               /\ handle[h].from = Newest(proc'[h].printed)
    <3>1. Waited(h)
      BY <2>3 DEF Waited
    <3>2. ~proc[h].cut /\ proc'[h].printed = proc[h].printed
      BY <2>3, <3>1, WaitedStays
    <3> QED BY <2>3, <3>2 DEF ReadsHold
  <2>4. ASSUME NEW g \in Handles, ~proc'[g].cut
        PROVE  /\ \A t \in serving'[g] : link /\ t.what = "read" /\ t.served =>
                    t.at = proc'[g].printed
               /\ \A i \in 1 .. Len(outbound) :
                    outbound[i].of = g /\ outbound[i].what = "read" =>
                      outbound[i].at = proc'[g].printed
               /\ ~handle[g].piped /\ handle[g].stage \in {"outcome", "done"} =>
                    /\ handle[g].upTo = proc'[g].printed
                    /\ handle[g].from = Newest(proc'[g].printed)
    <3>1. CASE g = h
      BY <2>1, <2>2, <2>3, <2>4, <3>1
    <3>2. CASE g # h
      BY <2>4, <3>2 DEF ReadsHold, TasksGo
    <3> QED BY <3>1, <3>2
  <2> QED BY <2>4 DEF ReadsHold
<1>9. HadInOrder' /\ SlotHolds'
  BY DEF HadInOrder, SlotHolds, Had
<1>10. FramesFollow'
  <2>1. CASE slot = h
    <3>1. h \in Piped /\ ~proc[h].disposed
      BY <2>1, HandlesAssumption DEF Closing, SlotHolds, Piped
    <3>2. KeepsPace(proc[h], proc'[h])
      BY <2>1, <3>1 DEF Steps
    <3>3. PushedOf(proc[h]) \in Int /\ PushedOf(proc'[h]) \in Int
      BY PushedIsNumber DEF ShapesOK
    <3>4. Len(Had(h)) \in Nat
      BY HadIsSeq
    <3>5. \A i \in 1 .. Len(outbound) : outbound[i].at \in Int
      BY QueueIsSeq
    <3>6. Had(h)' = Had(h)
      BY DEF Had
    <3> HIDE DEF ProcessesSound
    <3>7. FramesFollow
      BY DEF ProcessesSound
    <3>8. Len(Had(h)) =< PushedOf(proc'[h])
      BY <2>1, <3>2, <3>3, <3>4, <3>7, HandlesAssumption DEF FramesFollow, KeepsPace
    <3>9. ASSUME NEW i \in 1 .. Len(outbound), Frame(h, i)
          PROVE  outbound[i].at =< PushedOf(proc'[h])
      <4>1. outbound[i].at =< PushedOf(proc[h])
        BY <2>1, <3>7, <3>9, HandlesAssumption DEF FramesFollow
      <4> QED BY <3>2, <3>3, <3>5, <4>1 DEF KeepsPace
    <3>10. InFull(proc'[h]) =>
             \A v \in Len(Had(h)) + 1 .. PushedOf(proc'[h]) : Underway(h, v)
      BY <2>1, <3>2, <3>7, HandlesAssumption DEF FramesFollow, KeepsPace
    <3>11. \A v : Underway(h, v)' <=> Underway(h, v)
      BY DEF Underway, Frame
    <3> QED BY <2>1, <3>6, <3>7, <3>8, <3>9, <3>10, <3>11 DEF FramesFollow, Frame
  <2>2. CASE slot # h
    <3>1. slot # None => proc'[slot] = proc[slot] /\ Had(slot)' = Had(slot)
      BY <2>2 DEF ShapesOK, Had
    <3> QED BY <3>1 DEF FramesFollow, Frame, Underway
  <2> QED BY <2>1, <2>2
<1>11. FramesBeforeEnd'
  <2>1. ASSUME NEW g \in Handles, ~proc'[g].cut
        PROVE  /\ \A i, j \in 1 .. Len(outbound) :
                    outbound[i].of = g /\ outbound[i].what = "wait" /\ Frame(g, j) => j < i
               /\ handle[g].stage \in {"read", "outcome", "done"} =>
                    \A i \in 1 .. Len(outbound) : ~Frame(g, i)
    <3>1. CASE ~Waited(g)
      BY <3>1 DEF Waited
    <3>2. CASE Waited(g)
      <4>1. ~proc[g].cut
        BY <2>1, <3>2, WaitedStays
      <4> QED BY <4>1 DEF FramesBeforeEnd
    <3> QED BY <3>1, <3>2
  <2> QED BY <2>1 DEF FramesBeforeEnd, Frame
<1> QED BY <1>1, <1>2, <1>3, <1>4, <1>7, <1>8, <1>9, <1>10, <1>11

(* A request that is served tells what its task has just seen.               *)
LEMMA ServedGoes ==
  ASSUME ProcessesSound, NEW h \in Handles, NEW what \in Request \ {"spawn"},
         NEW at \in 0 .. Chunks, Serving(h, what), Served(h, what, TRUE, at),
         link /\ what = "wait" =>
           /\ proc[h].settled /\ ~Alive(proc[h]) /\ (proc[h].cut \/ proc[h].left),
         what = "read" => at = proc[h].captured
  PROVE  TasksGo(h) /\ proc[h].leader # "none"
<1>1. proc[h].leader # "none"
  BY DEF Serving, ProcessesSound, Births
<1> DEFINE done(t) == IF t.what = what THEN [t EXCEPT !.served = TRUE, !.ok = TRUE, !.at = at]
                                      ELSE t
<1>2. serving \in [Handles -> SUBSET TaskShape]
  BY DEF ProcessesSound, ShapesOK
<1>3. serving' = [serving EXCEPT ![h] = {done(t) : t \in @}]
  BY DEF Served
<1>4. ASSUME NEW t \in TaskShape
      PROVE  /\ done(t) \in TaskShape /\ done(t).what = t.what
             /\ done(t) = t \/ (/\ t.what = what /\ done(t).served /\ done(t).ok
                                /\ done(t).at = at)
  BY DEF TaskShape
<1> HIDE DEF done
<1>5. serving' \in [Handles -> SUBSET TaskShape] /\ serving'[h] = {done(t) : t \in serving[h]}
  BY <1>2, <1>3, <1>4
<1>6. \A g \in Handles : g # h => serving'[g] = serving[g]
  BY <1>2, <1>3
<1>7. ASSUME NEW t \in serving'[h]
      PROVE  \E u \in serving[h] :
               /\ t.what = u.what
               /\ t = u \/ /\ t.what # "spawn" /\ t.served /\ t.ok
                           /\ link /\ t.what = "wait" =>
                                /\ proc[h].settled /\ ~Alive(proc[h])
                                /\ proc[h].cut \/ proc[h].left
                           /\ t.what = "read" => t.at = proc[h].captured
  <2>1. PICK u \in serving[h] : t = done(u)
    BY <1>5
  <2>2. u \in TaskShape
    BY <1>2
  <2>3. /\ t.what = u.what
        /\ t = u \/ (u.what = what /\ t.served /\ t.ok /\ t.at = at)
    BY <1>4, <2>1, <2>2
  <2> QED BY <2>3
<1>8. ASSUME NEW t \in serving'[h], NEW u \in serving'[h],
             t.what \in Pending, u.what \in Pending
      PROVE  t = u
  <2>1. PICK a \in serving[h] : t = done(a)
    BY <1>5
  <2>2. PICK b \in serving[h] : u = done(b)
    BY <1>5
  <2>3. a.what = t.what /\ b.what = u.what
    BY <1>2, <1>4, <2>1, <2>2
  <2>4. a = b
    BY <1>8, <2>3 DEF ProcessesSound, OneRequest
  <2> QED BY <2>1, <2>2, <2>4
<1> QED BY <1>1, <1>5, <1>6, <1>7, <1>8 DEF TasksGo

(* A request that is not served stays as it is.                              *)
LEMMA IdleGoes ==
  ASSUME ProcessesSound, NEW h \in Handles, UNCHANGED serving
  PROVE  TasksGo(h)
BY DEF ProcessesSound, ShapesOK, OneRequest, TasksGo

(* A process that a step leaves alone takes no step back.                    *)
LEMMA StillSteps ==
  ASSUME ProcessesSound, NEW h \in Handles, proc[h].leader # "none", UNCHANGED proc
  PROVE  Steps(h) /\ proc' \in [Handles -> Proc] /\ proc'[h] = proc[h]
<1>1. ProcSound(proc[h]) /\ proc \in [Handles -> Proc]
  BY DEF ProcessesSound, ShapesOK
<1>2. Step(proc[h], proc[h])
  BY <1>1 DEF Step, Advances
<1>3. KeepsPace(proc[h], proc[h])
  BY <1>1, PushedIsNumber DEF KeepsPace
<1> QED BY <1>1, <1>2, <1>3 DEF Steps

(* serve, for a terminate, a wait and the facts a read and an outcome return. *)
LEMMA ServeKeeps ==
  ASSUME ProcessesSound, NEW h \in Handles,
         ServeTerminate(h) \/ ServeWait(h) \/ ServeFacts(h)
  PROVE  ProcessesSound'
<1>1. proc[h] \in Proc /\ proc \in [Handles -> Proc] /\ ProcSound(proc[h])
  BY DEF ProcessesSound, ShapesOK
<1>2. CASE ServeTerminate(h)
  <2>1. PICK request \in {"terminate", "terminateFirst"} :
          /\ Serving(h, request)
          /\ Served(h, request, TRUE, 0)
          /\ proc' = [proc EXCEPT ![h] = Terminated(@)]
          /\ UNCHANGED <<outbound, closed, link, handle, slot>>
    BY <1>2 DEF ServeTerminate
  <2>2. request \in Request \ {"spawn"} /\ request # "wait" /\ request # "read"
    BY DEF Request, Pending
  <2>3. 0 \in 0 .. Chunks
    BY SizesAssumption
  <2>4. TasksGo(h) /\ proc[h].leader # "none"
    BY <2>1, <2>2, <2>3, ServedGoes
  <2>5. Signalled(proc[h], Terminated(proc[h]))
    BY <1>1, TerminatedSignals
  <2>6. Step(proc[h], Terminated(proc[h])) /\ KeepsPace(proc[h], Terminated(proc[h]))
    BY <1>1, <2>4, <2>5, SignalledStep
  <2>7. Terminated(proc[h]) \in Proc
    BY <2>5 DEF Signalled
  <2>8. /\ Steps(h) /\ proc' \in [Handles -> Proc]
        /\ \A g \in Handles : g # h => proc'[g] = proc[g]
    BY <1>1, <2>1, <2>4, <2>6, <2>7 DEF Steps
  <2> QED BY <2>1, <2>4, <2>8, MovesKeep
<1>3. CASE ServeWait(h)
  <2>1. /\ Serving(h, "wait") /\ Served(h, "wait", TRUE, 0)
        /\ proc[h].settled /\ ~Alive(proc[h])
        /\ UNCHANGED <<proc, outbound, closed, link, handle, slot>>
    BY <1>3 DEF ServeWait, GroupGone
  <2>2. "wait" \in Request \ {"spawn"} /\ 0 \in 0 .. Chunks
    BY SizesAssumption DEF Request, Pending
  <2>3. link => ~proc[h].disposed
    BY DEF ProcessesSound, Closing
  <2>4. link => proc[h].cut \/ proc[h].left
    BY <1>1, <2>1, <2>3 DEF ProcSound
  <2>5. TasksGo(h) /\ proc[h].leader # "none"
    BY <2>1, <2>2, <2>4, ServedGoes
  <2>6. /\ Steps(h) /\ proc' \in [Handles -> Proc]
        /\ \A g \in Handles : g # h => proc'[g] = proc[g]
    BY <2>1, <2>5, StillSteps
  <2> QED BY <2>1, <2>5, <2>6, MovesKeep
<1>4. CASE ServeFacts(h)
  <2>1. PICK request \in {"read", "outcome"} :
          /\ Serving(h, request)
          /\ Served(h, request, TRUE, proc[h].captured)
    BY <1>4 DEF ServeFacts
  <2>2. UNCHANGED <<proc, outbound, closed, link, handle, slot>>
    BY <1>4 DEF ServeFacts
  <2>3. request \in Request \ {"spawn"} /\ request # "wait" /\ proc[h].captured \in 0 .. Chunks
    BY <1>1 DEF Request, Pending, Proc
  <2>4. TasksGo(h) /\ proc[h].leader # "none"
    BY <2>1, <2>3, ServedGoes
  <2>5. /\ Steps(h) /\ proc' \in [Handles -> Proc]
        /\ \A g \in Handles : g # h => proc'[g] = proc[g]
    BY <2>2, <2>4, StillSteps
  <2> QED BY <2>2, <2>4, <2>5, MovesKeep
<1> QED BY <1>2, <1>3, <1>4

(* The reader, the reaper, the timers and the process itself.                *)
LEMMA ManageKeeps ==
  ASSUME ProcessesSound, NEW h \in Handles,
         \/ Capture(h) \/ ReaderEnds(h) \/ Reap(h) \/ Settle(h) \/ Escalate(h)
         \/ Prints(h) \/ Fork(h) \/ Exit(h)
  PROVE  ProcessesSound'
<1>1. proc \in [Handles -> Proc] /\ ProcSound(proc[h])
  BY DEF ProcessesSound, ShapesOK
<1>2. /\ Steps(h) /\ proc' \in [Handles -> Proc]
      /\ \A g \in Handles : g # h => proc'[g] = proc[g]
  BY <1>1, ManagedSteps
<1>3. UNCHANGED <<serving, outbound, closed, link, handle, slot>>
  BY DEF Capture, ReaderEnds, Reap, Settle, Escalate, Prints, Fork, Exit
<1>4. TasksGo(h)
  BY <1>3, IdleGoes
<1> QED BY <1>2, <1>3, <1>4, MovesKeep

(* A spawn finds the handle's first request alone, and no process yet.       *)
LEMMA SpawnAlone ==
  ASSUME ProcessesSound, NEW h \in Handles, NEW t \in serving[h],
         t.what = "spawn", ~(t.served /\ t.ok)
  PROVE  /\ proc[h] = Unborn /\ serving[h] = {t}
         /\ \A i \in 1 .. Len(outbound) : outbound[i].of # h
         /\ ~Waited(h) /\ handle[h].stage # "new" /\ ~handle[h].known
         /\ ~(proc[h].settled \/ proc[h].disposed)
<1>1. proc[h].leader = "none"
  BY DEF ProcessesSound, Births
<1>2. ProcSound(proc[h])
  BY DEF ProcessesSound, ShapesOK
<1>3. proc[h] = Unborn
  BY <1>1, <1>2 DEF ProcSound
<1>4. \A u \in serving[h] : u.what = "spawn"
  BY <1>1 DEF ProcessesSound, Births
<1>5. \A u \in serving[h] : u = t
  BY <1>4 DEF ProcessesSound, OneRequest, Pending
<1>6. \A i \in 1 .. Len(outbound) : outbound[i].of # h
  BY <1>1 DEF ProcessesSound, Births, OneRequest, Answer, Pending
<1>7. handle[h].stage # "new" /\ ~handle[h].known
  BY <1>1 DEF ProcessesSound, Births
<1>8. handle[h].stage \notin {"read", "outcome", "done"}
  BY <1>7 DEF ProcessesSound, Births
<1>9. ~Waited(h)
  BY <1>4, <1>6, <1>8 DEF Waited
<1> QED BY <1>3, <1>5, <1>6, <1>7, <1>9 DEF Unborn

(* A process that has printed nothing and forked nobody.                     *)
LEMMA BareSound ==
  ASSUME NEW p \in Proc, p.child = "none", p.printed = 0, p.captured = 0,
         ~p.inHand, ~p.left, ~p.facts, ~p.cut, p.settled <=> p.disposed,
         p.disposed => p.leader = "gone", ~p.disposed => p.leader = "running"
  PROVE  ProcSound(p)
<1>1. p.leader # "none"
  OBVIOUS
<1>2. p.captured =< p.printed
  OBVIOUS
<1>3. p.child # "running"
  OBVIOUS
<1>4. p.disposed => p.leader # "running"
  OBVIOUS
<1> QED BY <1>1, <1>2, <1>3, <1>4 DEF ProcSound

(* What a spawn that succeeds puts into the table.                           *)
LEMMA NewbornSound ==
  ASSUME NEW deaf \in SUBSET {"leader", "child"}, closed \in BOOLEAN
  PROVE  LET q == Landed([Unborn EXCEPT !.leader = "running", !.deaf = deaf])
         IN  /\ ProcSound(q) /\ q.leader # "none" /\ q.disposed = closed
             /\ ~q.cut /\ PushedOf(q) = 0
<1> DEFINE b == [Unborn EXCEPT !.leader = "running", !.deaf = deaf]
<1>1. 0 \in 0 .. Chunks
  BY SizesAssumption
<1>2. /\ b \in Proc /\ b.leader = "running" /\ b.child = "none" /\ b.printed = 0
      /\ b.captured = 0 /\ ~b.inHand /\ ~b.left /\ ~b.facts /\ b.settled = FALSE /\ ~b.cut
      /\ ~b.abandoned /\ b.disposed = FALSE
  BY <1>1 DEF Unborn, Proc
<1> HIDE DEF b
<1>3. CASE ~closed
  <2>1. Landed(b) = b
    BY <1>3 DEF Landed
  <2>2. ProcSound(b)
    BY <1>2, BareSound
  <2>3. PushedOf(b) = 0
    BY <1>2, PushedIsNumber
  <2> QED BY <1>2, <1>3, <2>1, <2>2, <2>3 DEF b
<1>4. CASE closed
  <2> DEFINE k == Killed(b)
             q == [k EXCEPT !.disposed = TRUE, !.settled = TRUE]
  <2>1. Landed(b) = q
    BY <1>2, <1>4 DEF Landed, Disposed
  <2>2. k = [b EXCEPT !.leader = "gone"]
    BY <1>2 DEF Killed, Kill, Proc
  <2> HIDE DEF k
  <2>3. /\ k \in Proc /\ k.leader = "gone" /\ k.child = "none" /\ k.printed = 0
        /\ k.captured = 0 /\ ~k.inHand /\ ~k.left /\ ~k.facts /\ ~k.cut
    BY <1>2, <2>2 DEF Proc
  <2>4. /\ q \in Proc /\ q.leader = "gone" /\ q.child = "none" /\ q.printed = 0
        /\ q.captured = 0 /\ ~q.inHand /\ ~q.left /\ ~q.facts /\ ~q.cut
        /\ q.settled = TRUE /\ q.disposed = TRUE
    BY <2>3 DEF Proc
  <2> HIDE DEF q
  <2>5. ProcSound(q)
    BY <2>4, BareSound
  <2>6. PushedOf(q) = 0
    BY <2>4, PushedIsNumber
  <2> QED BY <1>4, <2>1, <2>4, <2>5, <2>6 DEF b
<1> QED BY <1>3, <1>4

(* serve, for a spawn: it fails, or the process lands.                       *)
LEMMA ServeSpawnKeeps ==
  ASSUME ProcessesSound, NEW h \in Handles, ServeSpawn(h)
  PROVE  ProcessesSound'
<1> USE DEF ProcessesSound
<1>1. PICK t \in serving[h] : t.what = "spawn" /\ ~t.served
  BY DEF ServeSpawn, Serving
<1>2. /\ proc[h] = Unborn /\ serving[h] = {t}
      /\ \A i \in 1 .. Len(outbound) : outbound[i].of # h
      /\ ~Waited(h) /\ handle[h].stage # "new" /\ ~handle[h].known
  BY <1>1, SpawnAlone
<1>3. UNCHANGED <<outbound, closed, link, handle, slot>>
  BY DEF ServeSpawn
<1>4. PICK ok \in BOOLEAN :
        /\ Served(h, "spawn", ok, 0)
        /\ ~ok => UNCHANGED proc
        /\ ok => \E deaf \in SUBSET {"leader", "child"} :
             proc' = [proc EXCEPT ![h] =
                        Landed([Unborn EXCEPT !.leader = "running", !.deaf = deaf])]
  BY DEF ServeSpawn
<1> DEFINE u == [t EXCEPT !.served = TRUE, !.ok = ok, !.at = 0]
<1>5. serving \in [Handles -> SUBSET TaskShape] /\ t \in TaskShape
  BY DEF ShapesOK
<1>6. u \in TaskShape /\ u.what = "spawn" /\ u.served /\ u.ok = ok
  <2>1. 0 \in 0 .. Chunks
    BY SizesAssumption
  <2> QED BY <1>1, <1>5, <2>1 DEF TaskShape
<1>7. serving' = [serving EXCEPT ![h] = {u}]
  <2> DEFINE done(x) == IF x.what = "spawn"
                        THEN [x EXCEPT !.served = TRUE, !.ok = ok, !.at = 0] ELSE x
  <2>1. serving' = [serving EXCEPT ![h] = {done(x) : x \in @}]
    BY <1>4 DEF Served
  <2>2. done(t) = u
    BY <1>1
  <2> HIDE DEF done
  <2>3. {done(x) : x \in serving[h]} = {u}
    BY <1>2, <2>2
  <2> QED BY <1>5, <2>1, <2>3
<1> HIDE DEF u
<1>8. /\ serving' \in [Handles -> SUBSET TaskShape] /\ serving'[h] = {u}
      /\ \A g \in Handles : g # h => serving'[g] = serving[g]
  BY <1>5, <1>6, <1>7
<1>9. /\ proc' \in [Handles -> Proc] /\ ProcSound(proc'[h])
      /\ \A g \in Handles : g # h => proc'[g] = proc[g]
      /\ proc'[h].leader # "none" <=> ok
      /\ proc'[h].disposed <=> ok /\ closed
      /\ ~proc'[h].cut /\ PushedOf(proc'[h]) = 0
  <2>1. closed \in BOOLEAN /\ proc \in [Handles -> Proc]
    BY DEF ShapesOK
  <2>2. CASE ok
    <3>1. PICK q : /\ proc' = [proc EXCEPT ![h] = q]
                   /\ ProcSound(q) /\ q.leader # "none" /\ q.disposed = closed
                   /\ ~q.cut /\ PushedOf(q) = 0
      BY <1>4, <2>1, <2>2, NewbornSound
    <3>2. q \in Proc
      BY <3>1 DEF ProcSound
    <3> QED BY <2>1, <2>2, <3>1, <3>2
  <2>3. CASE ~ok
    <3>1. proc' = proc /\ ProcSound(proc[h])
      BY <1>4, <2>3 DEF ShapesOK
    <3>2. PushedOf(Unborn) = 0
      BY DEF PushedOf, Unborn
    <3>3. Unborn.leader = "none" /\ ~Unborn.disposed /\ ~Unborn.cut
      BY DEF Unborn
    <3> QED BY <1>2, <2>1, <2>3, <3>1, <3>2, <3>3
  <2> QED BY <2>2, <2>3
<1>10. \A i \in 1 .. Len(outbound) : outbound'[i].of # h
  BY <1>2, <1>3
<1>11. ShapesOK'
  BY <1>3, <1>8, <1>9 DEF ShapesOK
<1>12. OneRequest'
  BY <1>1, <1>2, <1>3, <1>6, <1>8 DEF OneRequest, Answer
<1>13. Births'
  BY <1>2, <1>3, <1>6, <1>8, <1>9 DEF Births
<1>14. Closing'
  BY <1>2, <1>3, <1>9 DEF Closing, Unborn
<1>15. \A g \in Handles : Waited(g)' => g # h /\ Waited(g)
  BY <1>2, <1>3, <1>6, <1>8 DEF Waited
<1>16. WaitsHold'
  BY <1>9, <1>15 DEF WaitsHold
<1>17. ReadsHold'
  <2>1. handle[h].stage \notin {"outcome", "done"}
    BY <1>2 DEF Waited
  <2> QED BY <1>2, <1>3, <1>6, <1>8, <1>9, <2>1 DEF ReadsHold
<1>18. HadInOrder' /\ SlotHolds'
  BY <1>3 DEF HadInOrder, SlotHolds, Had
<1>19. FramesFollow'
  <2>1. CASE slot = h
    <3>1. PushedOf(proc[h]) = 0 /\ PushedOf(proc'[h]) = 0 /\ InFull(proc[h])
      BY <1>2, <1>9 DEF PushedOf, InFull, Unborn
    <3> QED BY <1>3, <2>1, <3>1 DEF FramesFollow, Frame, Underway, Had
  <2>2. CASE slot # h
    <3>1. slot # None => proc'[slot] = proc[slot]
      BY <1>9, <2>2 DEF ShapesOK
    <3> QED BY <1>3, <3>1 DEF FramesFollow, Frame, Underway, Had
  <2> QED BY <2>1, <2>2
<1>20. FramesBeforeEnd'
  <2>1. handle[h].stage \notin {"read", "outcome", "done"}
    BY <1>2 DEF Waited
  <2> QED BY <1>2, <1>3, <1>9, <2>1 DEF FramesBeforeEnd, Frame
<1> QED BY <1>11, <1>12, <1>13, <1>14, <1>16, <1>17, <1>18, <1>19, <1>20

-----------------------------------------------------------------------------
(* The queue to the client                                                 *)

(* A message that joins the queue is its last.                               *)
LEMMA JoinsQueue ==
  ASSUME ShapesOK, NEW m \in MessageShape, outbound' = Append(outbound, m)
  PROVE  /\ outbound' \in Seq(MessageShape)
         /\ Len(outbound') = Len(outbound) + 1
         /\ Len(outbound) + 1 \in 1 .. Len(outbound')
         /\ outbound'[Len(outbound) + 1] = m
         /\ \A i \in 1 .. Len(outbound) :
              i \in 1 .. Len(outbound') /\ outbound'[i] = outbound[i] /\ i < Len(outbound) + 1
         /\ \A i \in 1 .. Len(outbound') :
              \/ i \in 1 .. Len(outbound) /\ outbound'[i] = outbound[i]
              \/ i = Len(outbound) + 1 /\ outbound'[i] = m
<1>1. outbound \in Seq(MessageShape) /\ Len(outbound) \in Nat
  BY QueueIsSeq
<1>2. /\ outbound' \in Seq(MessageShape) /\ Len(outbound') = Len(outbound) + 1
      /\ outbound'[Len(outbound) + 1] = m
      /\ \A i \in 1 .. Len(outbound) : outbound'[i] = outbound[i]
  BY <1>1
<1> QED BY <1>1, <1>2

(* A served task answers its request, once.                                  *)
LEMMA RespondKeeps ==
  ASSUME ProcessesSound, NEW h \in Handles, Respond(h)
  PROVE  ProcessesSound'
<1> USE DEF ProcessesSound
<1>1. PICK t \in serving[h] :
        /\ t.served
        /\ HasRoom
        /\ outbound' = IF link THEN Append(outbound, Message(h, t.what, t.ok, t.at))
                       ELSE outbound
        /\ serving' = [serving EXCEPT ![h] = @ \ {t}]
        /\ UNCHANGED <<proc, closed, link, handle, slot>>
  BY DEF Respond
<1>2. serving \in [Handles -> SUBSET TaskShape] /\ t \in TaskShape
  BY DEF ShapesOK
<1>3. /\ serving' \in [Handles -> SUBSET TaskShape] /\ serving'[h] = serving[h] \ {t}
      /\ \A g \in Handles : g # h => serving'[g] = serving[g]
      /\ \A g \in Handles : serving'[g] \subseteq serving[g]
  BY <1>1, <1>2
<1>4. handle[h].stage # "new"
  BY DEF Births
<1>5. CASE ~link
  <2>1. outbound' = outbound
    BY <1>1, <1>5
  <2>2. ShapesOK'
    BY <1>1, <1>3, <2>1 DEF ShapesOK
  <2>3. OneRequest'
    BY <1>1, <1>3, <2>1 DEF OneRequest, Answer
  <2>4. Births'
    BY <1>1, <1>3, <2>1 DEF Births
  <2>5. Closing'
    BY <1>1, <2>1 DEF Closing
  <2>6. WaitsHold' /\ ReadsHold'
    <3>1. \A g \in Handles : Waited(g)' => Waited(g)
      BY <1>1, <1>3, <1>5, <2>1 DEF Waited
    <3>2. WaitsHold'
      BY <1>1, <3>1 DEF WaitsHold
    <3>3. ReadsHold'
      BY <1>1, <1>3, <1>5, <2>1 DEF ReadsHold
    <3> QED BY <3>2, <3>3
  <2>7. HadInOrder' /\ SlotHolds'
    BY <1>1 DEF HadInOrder, SlotHolds, Had
  <2>8. FramesFollow'
    BY <1>1, <1>5 DEF FramesFollow, Closing
  <2>9. FramesBeforeEnd'
    BY <1>1, <2>1 DEF FramesBeforeEnd, Frame
  <2> QED BY <2>2, <2>3, <2>4, <2>5, <2>6, <2>7, <2>8, <2>9
<1>6. CASE link
  <2> DEFINE m == Message(h, t.what, t.ok, t.at)
             last == Len(outbound) + 1
  <2>1. m \in MessageShape /\ m.of = h /\ m.what = t.what /\ m.ok = t.ok /\ m.at = t.at
    BY <1>2 DEF Message, MessageShape, TaskShape
  <2>2. outbound' = Append(outbound, m)
    BY <1>1, <1>6
  <2>3. m.what # "frame"
    BY <1>2, <2>1 DEF TaskShape, Request, Pending
  <2>4. Len(outbound) \in Nat /\ Len(outbound) < Backlog
    BY <1>1, QueueIsSeq DEF HasRoom
  <2> HIDE DEF m
  <2>5. /\ outbound' \in Seq(MessageShape)
        /\ Len(outbound') = last
        /\ last \in 1 .. Len(outbound')
        /\ outbound'[last] = m
        /\ \A i \in 1 .. Len(outbound) :
             i \in 1 .. Len(outbound') /\ outbound'[i] = outbound[i] /\ i < last
        /\ \A i \in 1 .. Len(outbound') :
             \/ i \in 1 .. Len(outbound) /\ outbound'[i] = outbound[i]
             \/ i = last /\ outbound'[i] = m
    BY <2>1, <2>2, JoinsQueue
  <2> HIDE DEF last
  <2>6. ShapesOK'
    <3>1. Len(outbound') =< Backlog
      BY <2>4, <2>5, SizesAssumption DEF last
    <3> QED BY <1>1, <1>3, <2>5, <3>1 DEF ShapesOK
  <2>7. ASSUME NEW g \in Handles, NEW i \in 1 .. Len(outbound')
        PROVE  \/ /\ i \in 1 .. Len(outbound) /\ outbound'[i] = outbound[i]
                  /\ Answer(g, i)' <=> Answer(g, i)
               \/ /\ i = last /\ outbound'[i] = m
                  /\ Answer(g, i)' <=> g = h /\ t.what \in Pending
    BY <2>1, <2>5 DEF Answer
  <2>8. OneRequest'
    <3>1. \A g \in Handles : \A u \in serving'[g] :
            link' /\ u.what \in Pending => u.what = handle'[g].stage
      BY <1>1, <1>3 DEF OneRequest
    <3>2. \A g \in Handles : \A i \in 1 .. Len(outbound') :
            Answer(g, i)' => outbound'[i].what = handle'[g].stage
      BY <1>1, <1>6, <2>1, <2>7 DEF OneRequest
    <3>3. \A g \in Handles : \A u, v \in serving'[g] :
            u.what \in Pending /\ v.what \in Pending => u = v
      BY <1>3 DEF OneRequest
    <3>4. \A g \in Handles : \A i, j \in 1 .. Len(outbound') :
            Answer(g, i)' /\ Answer(g, j)' => i = j
      BY <2>7 DEF OneRequest
    <3>5. ASSUME NEW g \in Handles, NEW u \in serving'[g], NEW i \in 1 .. Len(outbound'),
                 u.what \in Pending, Answer(g, i)'
          PROVE  FALSE
      <4>1. u \in serving[g] /\ (g = h => u # t)
        BY <1>3
      <4> QED BY <2>7, <3>5, <4>1 DEF OneRequest
    <3> QED BY <3>1, <3>2, <3>3, <3>4, <3>5 DEF OneRequest
  <2>9. Births'
    <3>1. ASSUME NEW g \in Handles, handle[g].stage = "new"
          PROVE  /\ serving'[g] = {} /\ handle[g] = NoHandle
                 /\ proc[g].leader = "none"
                 /\ \A i \in 1 .. Len(outbound') : outbound'[i].of # g
      BY <1>3, <1>4, <2>1, <2>5, <3>1 DEF Births
    <3>2. \A g \in Handles : \A u \in serving'[g] :
            IF u.what = "spawn" THEN proc[g].leader # "none" <=> u.served /\ u.ok
                                ELSE proc[g].leader # "none" /\ u.ok
      BY <1>3 DEF Births
    <3>3. IF t.what = "spawn" THEN proc[h].leader # "none" <=> t.ok
                              ELSE proc[h].leader # "none" /\ t.ok
      BY <1>1 DEF Births
    <3>4. ASSUME NEW g \in Handles, NEW i \in 1 .. Len(outbound'), outbound'[i].of = g
          PROVE  /\ proc[g].leader = "none" => outbound'[i].what = "spawn" /\ ~outbound'[i].ok
                 /\ ~outbound'[i].ok => outbound'[i].what = "spawn" /\ proc[g].leader = "none"
      <4>1. CASE i \in 1 .. Len(outbound) /\ outbound'[i] = outbound[i]
        BY <3>4, <4>1 DEF Births
      <4>2. CASE outbound'[i] = m
        BY <2>1, <3>3, <3>4, <4>2
      <4> QED BY <2>5, <4>1, <4>2
    <3> QED BY <1>1, <3>1, <3>2, <3>4 DEF Births
  <2>10. Closing'
    BY <1>1, <1>6 DEF Closing
  <2>11. ASSUME NEW g \in Handles, Waited(g)' PROVE Waited(g)
    <3>1. CASE handle[g].stage \in {"read", "outcome", "done"}
      BY <3>1 DEF Waited
    <3>2. CASE link /\ \E u \in serving'[g] : u.what = "wait" /\ u.served
      BY <1>3, <3>2 DEF Waited
    <3>3. ASSUME NEW i \in 1 .. Len(outbound'), outbound'[i].of = g, outbound'[i].what = "wait"
          PROVE  Waited(g)
      <4>1. CASE outbound'[i] = m
        BY <1>1, <1>6, <2>1, <3>3, <4>1 DEF Waited
      <4>2. CASE i \in 1 .. Len(outbound) /\ outbound'[i] = outbound[i]
        BY <3>3, <4>2 DEF Waited
      <4> QED BY <2>5, <4>1, <4>2
    <3> QED BY <1>1, <2>11, <3>1, <3>2, <3>3 DEF Waited
  <2>12. WaitsHold'
    BY <1>1, <2>11 DEF WaitsHold
  <2>13. ReadsHold'
    <3>1. ASSUME NEW g \in Handles, ~proc[g].cut, NEW i \in 1 .. Len(outbound'),
                 outbound'[i].of = g, outbound'[i].what = "read"
          PROVE  outbound'[i].at = proc[g].printed
      <4>1. CASE outbound'[i] = m
        BY <1>1, <1>6, <2>1, <3>1, <4>1 DEF ReadsHold
      <4>2. CASE i \in 1 .. Len(outbound) /\ outbound'[i] = outbound[i]
        BY <3>1, <4>2 DEF ReadsHold
      <4> QED BY <2>5, <4>1, <4>2
    <3> QED BY <1>1, <1>3, <3>1 DEF ReadsHold
  <2>14. HadInOrder' /\ SlotHolds'
    BY <1>1 DEF HadInOrder, SlotHolds, Had
  <2>15. ASSUME NEW g
         PROVE  /\ \A i \in 1 .. Len(outbound') : Frame(g, i)' =>
                     i \in 1 .. Len(outbound) /\ outbound'[i] = outbound[i] /\ Frame(g, i)
                /\ \A v : Underway(g, v) => Underway(g, v)'
    <3>1. \A i \in 1 .. Len(outbound) : Frame(g, i) => Frame(g, i)'
      BY <2>5 DEF Frame
    <3> QED BY <2>1, <2>3, <2>5, <3>1 DEF Frame, Underway
  <2>16. FramesFollow'
    <3>1. slot' = slot /\ proc' = proc /\ Had(slot)' = Had(slot)
      BY <1>1 DEF Had
    <3>2. FramesFollow
      OBVIOUS
    <3> QED BY <2>15, <3>1, <3>2 DEF FramesFollow
  <2>17. FramesBeforeEnd'
    <3>1. ASSUME NEW g \in Handles, ~proc[g].cut,
                 NEW i \in 1 .. Len(outbound'), NEW j \in 1 .. Len(outbound'),
                 outbound'[i].of = g, outbound'[i].what = "wait", Frame(g, j)'
          PROVE  j < i
      <4>1. j \in 1 .. Len(outbound) /\ Frame(g, j)
        BY <2>15, <3>1
      <4>2. CASE i = last
        BY <2>5, <4>1, <4>2
      <4>3. CASE i \in 1 .. Len(outbound) /\ outbound'[i] = outbound[i]
        BY <3>1, <4>1, <4>3 DEF FramesBeforeEnd
      <4> QED BY <2>5, <4>2, <4>3
    <3>2. \A g \in Handles : ~proc[g].cut /\ handle[g].stage \in {"read", "outcome", "done"} =>
            \A i \in 1 .. Len(outbound') : ~Frame(g, i)'
      BY <2>15 DEF FramesBeforeEnd
    <3> QED BY <1>1, <3>1, <3>2 DEF FramesBeforeEnd
  <2> QED BY <2>6, <2>8, <2>9, <2>10, <2>12, <2>13, <2>14, <2>16, <2>17
<1> QED BY <1>5, <1>6 DEF ShapesOK

(* A push takes the chunk in hand, and gives up a stream that found no room. *)
LEMMA PushedSteps ==
  ASSUME NEW p, ProcSound(p), p.inHand, NEW room \in BOOLEAN
  PROVE  LET q == Pushed(p, room)
         IN  /\ p.leader # "none" /\ p.captured > 0 /\ ~p.left /\ InFull(p)
             /\ p.captured \in Nat /\ PushedOf(p) = p.captured - 1
             /\ Step(p, q) /\ PushedOf(q) = p.captured
             /\ room => /\ q.cut = p.cut /\ q.printed = p.printed
                        /\ q.settled = p.settled /\ q.left = p.left
                        /\ Alive(q) <=> Alive(p)
             /\ ~room => ~InFull(q)
<1>1. p \in Proc /\ p.captured \in Nat
  BY SizesAssumption DEF ProcSound, Proc
<1>2. /\ p.leader # "none" /\ p.captured > 0 /\ ~p.left /\ InFull(p)
      /\ PushedOf(p) = p.captured - 1
  BY <1>1, PushedIsNumber DEF ProcSound, Unborn, InFull
<1> DEFINE a == [p EXCEPT !.inHand = FALSE]
           b == [p EXCEPT !.inHand = FALSE, !.abandoned = TRUE]
<1>3. /\ a \in Proc /\ a.inHand = FALSE /\ a.abandoned = p.abandoned
      /\ a.leader = p.leader /\ a.child = p.child
      /\ a.printed = p.printed /\ a.captured = p.captured
      /\ a.left = p.left /\ a.facts = p.facts /\ a.settled = p.settled
      /\ a.cut = p.cut /\ a.disposed = p.disposed
  BY <1>1 DEF Proc
<1>4. /\ b \in Proc /\ b.inHand = FALSE /\ b.abandoned = TRUE
      /\ b.leader = p.leader /\ b.child = p.child
      /\ b.printed = p.printed /\ b.captured = p.captured
      /\ b.left = p.left /\ b.facts = p.facts /\ b.settled = p.settled
      /\ b.cut = p.cut /\ b.disposed = p.disposed
  BY <1>1 DEF Proc
<1>5. CASE room
  <2>1. Pushed(p, room) = a
    BY <1>5 DEF Pushed
  <2> HIDE DEF a
  <2>2. Step(p, a)
    BY <1>1, <1>2, <1>3 DEF ProcSound, Step, Advances, Alive
  <2>3. PushedOf(a) = p.captured
    BY <1>3, PushedIsNumber
  <2>4. Alive(a) <=> Alive(p)
    BY <1>3 DEF Alive
  <2> QED BY <1>1, <1>2, <1>3, <1>5, <2>1, <2>2, <2>3, <2>4
<1>6. CASE ~room
  <2>1. Pushed(p, room) = Terminated(b)
    BY <1>6 DEF Pushed
  <2> HIDE DEF b
  <2>2. Step(p, b)
    BY <1>1, <1>2, <1>4 DEF ProcSound, Step, Advances, Alive
  <2>3. Signalled(b, Terminated(b))
    BY <1>4, TerminatedSignals
  <2>4. Step(b, Terminated(b))
    BY <1>2, <1>4, <2>2, <2>3, SignalledStep DEF Step
  <2>5. Step(p, Terminated(b))
    BY <2>2, <2>4 DEF Step, Advances
  <2>6. ~InFull(Terminated(b)) /\ PushedOf(Terminated(b)) = p.captured
    BY <1>4, <2>3, PushedIsNumber DEF Signalled, InFull
  <2> QED BY <1>1, <1>2, <1>6, <2>1, <2>5, <2>6
<1> QED BY <1>5, <1>6

(* A chunk in hand goes to the client, or its stream is given up.            *)
LEMMA PushKeeps ==
  ASSUME ProcessesSound, NEW h \in Handles, Push(h)
  PROVE  ProcessesSound'
<1> USE DEF ProcessesSound
<1> DEFINE p == proc[h]
           q == Pushed(p, HasRoom)
<1>1. /\ p.inHand
      /\ proc' = [proc EXCEPT ![h] = q]
      /\ UNCHANGED <<serving, closed, link, handle, slot>>
  BY DEF Push
<1>2. proc \in [Handles -> Proc] /\ ProcSound(p) /\ p \in Proc
  BY DEF ShapesOK
<1>3. /\ p.leader # "none" /\ p.captured > 0 /\ ~p.left /\ InFull(p)
      /\ p.captured \in Nat /\ PushedOf(p) = p.captured - 1
      /\ Step(p, q) /\ PushedOf(q) = p.captured
      /\ HasRoom => /\ q.cut = p.cut /\ q.printed = p.printed
                    /\ q.settled = p.settled /\ q.left = p.left
                    /\ Alive(q) <=> Alive(p)
      /\ ~HasRoom => ~InFull(q)
  <2>1. HasRoom \in BOOLEAN
    BY DEF HasRoom
  <2> QED BY <1>1, <1>2, <2>1, PushedSteps
<1> HIDE DEF q
<1>4. /\ q \in Proc /\ proc' \in [Handles -> Proc] /\ proc'[h] = q
       /\ \A g \in Handles : g # h => proc'[g] = proc[g]
  <2>1. q \in Proc
    BY <1>3 DEF Step, ProcSound
  <2> QED BY <1>1, <1>2, <2>1
<1>5. CASE ~(HasRoom /\ link)
  <2>1. UNCHANGED outbound
    BY <1>5 DEF Push
  <2>2. slot = h /\ h \in Piped /\ ~proc[h].disposed => KeepsPace(p, q)
    <3>1. slot = h => ~HasRoom
      BY <1>5, HandlesAssumption DEF Closing
    <3> QED BY <1>3, <3>1 DEF KeepsPace
  <2>3. Steps(h)
    BY <1>3, <1>4, <2>2 DEF Steps
  <2>4. TasksGo(h)
    BY <1>1, IdleGoes
  <2> QED BY <1>1, <1>4, <2>1, <2>3, <2>4, MovesKeep
<1>6. CASE HasRoom /\ link
  <2> DEFINE m == Message(h, "frame", TRUE, p.captured)
             last == Len(outbound) + 1
  <2>1. /\ m \in MessageShape /\ m.of = h /\ m.what = "frame" /\ m.ok = TRUE
        /\ m.at = p.captured
    BY <1>2 DEF Message, MessageShape, Proc
  <2>2. outbound' = Append(outbound, m)
    BY <1>6 DEF Push
  <2>3. Len(outbound) \in Nat /\ Len(outbound) < Backlog
    BY <1>6, QueueIsSeq DEF HasRoom
  <2> HIDE DEF m
  <2>4. /\ outbound' \in Seq(MessageShape)
        /\ Len(outbound') = last
        /\ last \in 1 .. Len(outbound')
        /\ outbound'[last] = m
        /\ \A i \in 1 .. Len(outbound) :
             i \in 1 .. Len(outbound') /\ outbound'[i] = outbound[i] /\ i < last
        /\ \A i \in 1 .. Len(outbound') :
             \/ i \in 1 .. Len(outbound) /\ outbound'[i] = outbound[i]
             \/ i = last /\ outbound'[i] = m
    BY <2>1, <2>2, JoinsQueue
  <2>5. last \in Int
    BY <2>3
  <2> HIDE DEF last
  <2>6. ShapesOK'
    <3>1. Len(outbound') =< Backlog
      BY <2>3, <2>4, SizesAssumption DEF last
    <3>2. \A g \in Handles : ProcSound(proc'[g])
      BY <1>3, <1>4 DEF ShapesOK, Step
    <3> QED BY <1>1, <1>3, <1>4, <2>4, <3>1, <3>2 DEF ShapesOK
  <2>7. ASSUME NEW g \in Handles, NEW i \in 1 .. Len(outbound'), Answer(g, i)'
        PROVE  /\ i \in 1 .. Len(outbound) /\ outbound'[i] = outbound[i]
               /\ Answer(g, i)
    BY <2>1, <2>4, <2>7 DEF Answer, Pending
  <2>8. OneRequest'
    <3>1. \A g \in Handles : \A i \in 1 .. Len(outbound') :
            Answer(g, i)' => outbound'[i].what = handle'[g].stage
      BY <1>1, <2>7 DEF OneRequest
    <3>2. \A g \in Handles : \A i, j \in 1 .. Len(outbound') :
            Answer(g, i)' /\ Answer(g, j)' => i = j
      BY <2>7 DEF OneRequest
    <3>3. \A g \in Handles : \A u \in serving'[g] : \A i \in 1 .. Len(outbound') :
            ~(u.what \in Pending /\ Answer(g, i)')
      BY <1>1, <2>7 DEF OneRequest
    <3> QED BY <1>1, <3>1, <3>2, <3>3 DEF OneRequest
  <2>9. Births'
    <3>1. q.leader # "none"
      BY <1>3, <1>4 DEF Step, Advances
    <3>2. \A g \in Handles : proc'[g].leader = "none" <=> proc[g].leader = "none"
      BY <1>3, <1>4, <3>1
    <3>3. handle[h].stage # "new"
      BY <1>3 DEF Births
    <3>4. ASSUME NEW g \in Handles, handle[g].stage = "new"
          PROVE  \A i \in 1 .. Len(outbound') : outbound'[i].of # g
      BY <2>1, <2>4, <3>3, <3>4 DEF Births
    <3>5. ASSUME NEW g \in Handles, NEW i \in 1 .. Len(outbound'), outbound'[i].of = g
          PROVE  /\ proc[g].leader = "none" => outbound'[i].what = "spawn" /\ ~outbound'[i].ok
                 /\ ~outbound'[i].ok => outbound'[i].what = "spawn" /\ proc[g].leader = "none"
      <4>1. CASE i \in 1 .. Len(outbound) /\ outbound'[i] = outbound[i]
        BY <3>5, <4>1 DEF Births
      <4>2. CASE outbound'[i] = m
        BY <1>3, <2>1, <3>5, <4>2
      <4> QED BY <2>4, <4>1, <4>2
    <3> QED BY <1>1, <3>2, <3>4, <3>5 DEF Births
  <2>10. Closing'
    <3>1. \A g \in Handles : proc'[g].disposed = proc[g].disposed
      BY <1>3, <1>4 DEF Step
    <3> QED BY <1>1, <1>6, <3>1 DEF Closing
  <2>11. ASSUME NEW g \in Handles, Waited(g)' PROVE Waited(g)
    <3>1. ASSUME NEW i \in 1 .. Len(outbound'), outbound'[i].of = g, outbound'[i].what = "wait"
          PROVE  Waited(g)
      <4>1. i \in 1 .. Len(outbound) /\ outbound'[i] = outbound[i]
        BY <2>1, <2>4, <3>1
      <4> QED BY <3>1, <4>1 DEF Waited
    <3> QED BY <1>1, <2>11, <3>1 DEF Waited
  <2>12. Waited(h) => p.cut
    BY <1>3 DEF WaitsHold
  <2>13. \A g \in Handles : /\ proc'[g].cut = proc[g].cut
                            /\ proc'[g].printed = proc[g].printed
    BY <1>3, <1>4, <1>6
  <2>14. WaitsHold'
    <3>1. ASSUME NEW g \in Handles, Waited(g)
          PROVE  /\ proc'[g].settled /\ ~Alive(proc'[g])
                 /\ proc'[g].cut \/ proc'[g].left
      <4>1. /\ proc[g].settled /\ ~Alive(proc[g])
            /\ proc[g].cut \/ proc[g].left
        BY <3>1 DEF WaitsHold
      <4>2. CASE g = h
        BY <1>3, <1>4, <1>6, <4>1, <4>2
      <4>3. CASE g # h
        BY <1>3, <1>4, <4>1, <4>3
      <4> QED BY <4>2, <4>3
    <3> QED BY <2>11, <3>1 DEF WaitsHold
  <2>15. ReadsHold'
    <3>1. ASSUME NEW g \in Handles, ~proc[g].cut, NEW i \in 1 .. Len(outbound'),
                 outbound'[i].of = g, outbound'[i].what = "read"
          PROVE  outbound'[i].at = proc[g].printed
      <4>1. i \in 1 .. Len(outbound) /\ outbound'[i] = outbound[i]
        BY <2>1, <2>4, <3>1
      <4> QED BY <3>1, <4>1 DEF ReadsHold
    <3> QED BY <1>1, <2>13, <3>1 DEF ReadsHold
  <2>16. HadInOrder' /\ SlotHolds'
    BY <1>1 DEF HadInOrder, SlotHolds, Had
  <2>17. \A g : \A i \in 1 .. Len(outbound') : Frame(g, i)' =>
           \/ i \in 1 .. Len(outbound) /\ outbound'[i] = outbound[i] /\ Frame(g, i)
           \/ g = h /\ i = last /\ outbound'[i].at = p.captured
    BY <2>1, <2>4 DEF Frame
  <2>18. \A g : \A v : Underway(g, v) => Underway(g, v)'
    BY <2>4 DEF Frame, Underway
  <2>19. \A v : v = p.captured => Underway(h, v)'
    BY <2>1, <2>4 DEF Frame, Underway
  <2>20. FramesFollow'
    <3>1. slot' = slot /\ Had(slot)' = Had(slot)
      BY <1>1 DEF Had
    <3>2. CASE slot = h
      <4> DEFINE had == Len(Had(h))
      <4>1. /\ had =< PushedOf(p)
            /\ \A i, j \in 1 .. Len(outbound) :
                 Frame(h, i) /\ Frame(h, j) /\ i < j => outbound[i].at < outbound[j].at
            /\ \A i \in 1 .. Len(outbound) : Frame(h, i) =>
                 /\ had < outbound[i].at /\ outbound[i].at =< PushedOf(p)
                 /\ \A v \in had + 1 .. outbound[i].at : Underway(h, v)
            /\ \A v \in had + 1 .. PushedOf(p) : Underway(h, v)
        BY <1>3, <3>2, HandlesAssumption DEF FramesFollow
      <4>2. had \in Nat /\ \A i \in 1 .. Len(outbound) : outbound[i].at \in Int
        BY HadIsSeq, QueueIsSeq
      <4> HIDE DEF had
      <4>3. \A v \in had + 1 .. p.captured : Underway(h, v)'
        <5>1. \A v \in had + 1 .. p.captured : v = p.captured \/ v \in had + 1 .. PushedOf(p)
          BY <1>2, <1>3, <4>2
        <5> QED BY <2>18, <2>19, <4>1, <5>1
      <4>4. had =< p.captured
        BY <1>2, <1>3, <4>1, <4>2
      <4>5. ASSUME NEW i \in 1 .. Len(outbound'), Frame(h, i)'
            PROVE  /\ had < outbound'[i].at /\ outbound'[i].at =< p.captured
                   /\ \A v \in had + 1 .. outbound'[i].at : Underway(h, v)'
        <5>1. CASE i \in 1 .. Len(outbound) /\ outbound'[i] = outbound[i] /\ Frame(h, i)
          BY <1>2, <1>3, <2>18, <4>1, <4>2, <5>1
        <5>2. CASE outbound'[i].at = p.captured
          BY <1>2, <1>3, <4>1, <4>2, <4>3, <5>2
        <5> QED BY <2>17, <4>5, <5>1, <5>2
      <4>6. ASSUME NEW i \in 1 .. Len(outbound'), NEW j \in 1 .. Len(outbound'),
                   Frame(h, i)', Frame(h, j)', i < j
            PROVE  outbound'[i].at < outbound'[j].at
        <5>1. i \in 1 .. Len(outbound) /\ outbound'[i] = outbound[i] /\ Frame(h, i)
          BY <2>4, <2>5, <2>17, <4>6
        <5>2. CASE j \in 1 .. Len(outbound) /\ outbound'[j] = outbound[j] /\ Frame(h, j)
          BY <4>1, <4>6, <5>1, <5>2
        <5>3. CASE outbound'[j].at = p.captured
          BY <1>2, <1>3, <4>1, <4>2, <5>1, <5>3
        <5> QED BY <2>17, <4>6, <5>2, <5>3
      <4> QED BY <1>3, <1>4, <3>1, <3>2, <4>3, <4>4, <4>5, <4>6 DEF FramesFollow, had
    <3>3. CASE slot # h
      <4>1. slot # None => proc'[slot] = proc[slot]
        BY <1>3, <1>4, <3>3 DEF ShapesOK
      <4>2. \A i \in 1 .. Len(outbound') : Frame(slot, i)' =>
              i \in 1 .. Len(outbound) /\ outbound'[i] = outbound[i] /\ Frame(slot, i)
        BY <2>17, <3>1, <3>3 DEF Frame
      <4>3. FramesFollow
        OBVIOUS
      <4> QED BY <2>18, <3>1, <4>1, <4>2, <4>3 DEF FramesFollow
    <3> QED BY <3>2, <3>3
  <2>21. FramesBeforeEnd'
    <3>1. ASSUME NEW g \in Handles, ~proc[g].cut
          PROVE  /\ \A i, j \in 1 .. Len(outbound') :
                      outbound'[i].of = g /\ outbound'[i].what = "wait" /\ Frame(g, j)' => j < i
                 /\ handle[g].stage \in {"read", "outcome", "done"} =>
                      \A i \in 1 .. Len(outbound') : ~Frame(g, i)'
      <4>1. CASE ~Waited(g)
        BY <1>1, <2>11, <4>1 DEF Waited
      <4>2. CASE Waited(g)
        <5>1. g # h
          BY <2>12, <3>1, <4>2
        <5>2. \A i \in 1 .. Len(outbound') : Frame(g, i)' =>
                i \in 1 .. Len(outbound) /\ outbound'[i] = outbound[i] /\ Frame(g, i)
          BY <2>17, <5>1
        <5>3. \A i \in 1 .. Len(outbound') : outbound'[i].what = "wait" =>
                i \in 1 .. Len(outbound) /\ outbound'[i] = outbound[i]
          BY <2>1, <2>4
        <5> QED BY <3>1, <5>2, <5>3 DEF FramesBeforeEnd
      <4> QED BY <4>1, <4>2
    <3> QED BY <1>1, <2>13, <3>1 DEF FramesBeforeEnd
  <2> QED BY <2>6, <2>8, <2>9, <2>10, <2>14, <2>15, <2>16, <2>20, <2>21
<1> QED BY <1>5, <1>6

-----------------------------------------------------------------------------
(* The handle                                                              *)

(* A request that is sent is one more for a task of the daemon.              *)
LEMMA AskAdds ==
  ASSUME ShapesOK, NEW h \in Handles, NEW r \in Request, Ask(h, r)
  PROVE  /\ serving' \in [Handles -> SUBSET TaskShape]
         /\ serving'[h] = serving[h] \cup {Task(r)}
         /\ \A g \in Handles : g # h => serving'[g] = serving[g]
         /\ Task(r) \in TaskShape
         /\ Task(r).what = r /\ ~Task(r).served /\ Task(r).ok
<1>1. 0 \in 0 .. Chunks
  BY SizesAssumption
<1>2. Task(r) \in TaskShape /\ Task(r).what = r /\ ~Task(r).served /\ Task(r).ok
  BY <1>1 DEF Task, TaskShape
<1>3. serving \in [Handles -> SUBSET TaskShape]
  BY DEF ShapesOK
<1> QED BY <1>2, <1>3 DEF Ask

(* A spawn is asked for: nothing is known of its handle yet.                 *)
LEMMA SpawnKeeps ==
  ASSUME ProcessesSound, NEW h \in Handles, Spawn(h)
  PROVE  ProcessesSound'
<1> USE DEF ProcessesSound
<1>1. PICK piped \in BOOLEAN :
        /\ handle' = [handle EXCEPT ![h].stage = "spawn", ![h].piped = piped]
        /\ slot' = IF piped THEN h ELSE slot
  BY DEF Spawn
<1>2. /\ handle[h].stage = "new" /\ link /\ Ask(h, "spawn")
      /\ UNCHANGED <<proc, outbound, closed, link>>
  BY DEF Spawn
<1>3. /\ serving[h] = {} /\ handle[h] = NoHandle
      /\ proc[h].leader = "none"
      /\ \A i \in 1 .. Len(outbound) : outbound[i].of # h
  BY <1>2 DEF Births
<1>4. proc[h] = Unborn
  BY <1>3 DEF ShapesOK, ProcSound
<1>5. /\ serving' \in [Handles -> SUBSET TaskShape] /\ serving'[h] = {Task("spawn")}
      /\ \A g \in Handles : g # h => serving'[g] = serving[g]
      /\ Task("spawn").what = "spawn" /\ ~Task("spawn").served
  BY <1>2, <1>3, AskAdds DEF Request, Pending
<1>6. /\ handle' \in [Handles -> HandleShape]
      /\ \A g \in Handles : g # h => handle'[g] = handle[g]
      /\ handle'[h].stage = "spawn" /\ handle'[h].piped = piped
      /\ handle'[h].known = FALSE
      /\ handle'[h].heard = <<>> /\ handle'[h].buffered = <<>>
      /\ handle[h].heard = <<>> /\ handle[h].buffered = <<>>
  <2>1. handle \in [Handles -> HandleShape]
    BY DEF ShapesOK
  <2> DEFINE t == [handle[h] EXCEPT !.stage = "spawn", !.piped = piped]
  <2>2. t \in HandleShape /\ t.stage = "spawn" /\ t.piped = piped
        /\ t.known = handle[h].known /\ t.heard = handle[h].heard
        /\ t.buffered = handle[h].buffered
    BY <2>1 DEF HandleShape, Pending
  <2>3. handle' = [handle EXCEPT ![h] = t]
    BY <1>1
  <2> HIDE DEF t
  <2>4. handle[h].known = FALSE /\ handle[h].heard = <<>> /\ handle[h].buffered = <<>>
    BY <1>3 DEF NoHandle
  <2> QED BY <2>1, <2>2, <2>3, <2>4
<1>7. slot # h
  BY <1>2, HandlesAssumption DEF SlotHolds, Pending
<1>8. ShapesOK'
  BY <1>1, <1>2, <1>5, <1>6 DEF ShapesOK
<1>9. OneRequest'
  <2>1. \A i \in 1 .. Len(outbound) : ~Answer(h, i)
    BY <1>3 DEF Answer
  <2>2. \A g \in Handles, i \in 1 .. Len(outbound) : Answer(g, i)' <=> Answer(g, i)
    BY <1>2 DEF Answer
  <2>3. \A t, u \in serving'[h] : t = u
    BY <1>5
  <2>4. \A t \in serving'[h] : t.what = handle'[h].stage
    BY <1>5, <1>6
  <2> QED BY <1>2, <1>5, <1>6, <2>1, <2>2, <2>3, <2>4 DEF OneRequest
<1>10. Births'
  BY <1>2, <1>3, <1>5, <1>6 DEF Births
<1>11. Closing'
  BY <1>2 DEF Closing
<1>12. ~Waited(h) /\ ~Waited(h)' /\ \A g \in Handles : Waited(g)' => Waited(g)
  <2>1. ~Waited(h)
    BY <1>2, <1>3 DEF Waited
  <2>2. ~Waited(h)'
    BY <1>2, <1>3, <1>5, <1>6 DEF Waited
  <2>3. \A g \in Handles : g # h => (Waited(g)' => Waited(g))
    BY <1>2, <1>5, <1>6 DEF Waited
  <2> QED BY <2>1, <2>2, <2>3
<1>13. WaitsHold'
  BY <1>2, <1>12 DEF WaitsHold
<1>14. ReadsHold'
  <2>1. \A g \in Handles : g # h => (\A u \in serving'[g] : u \in serving[g])
    BY <1>5
  <2>2. ASSUME NEW g \in Handles, ~proc[g].cut
        PROVE  /\ \A t \in serving'[g] : link /\ t.what = "read" /\ t.served =>
                    t.at = proc[g].printed
               /\ ~handle'[g].piped /\ handle'[g].stage \in {"outcome", "done"} =>
                    /\ handle'[g].upTo = proc[g].printed
                    /\ handle'[g].from = Newest(proc[g].printed)
    <3>1. CASE g = h
      BY <1>5, <1>6, <3>1
    <3>2. CASE g # h
      BY <1>6, <2>1, <2>2, <3>2 DEF ReadsHold
    <3> QED BY <3>1, <3>2
  <2> QED BY <1>2, <2>2 DEF ReadsHold
<1>15. \A g \in Handles : Had(g)' = Had(g)
  BY <1>6 DEF Had
<1>16. HadInOrder'
  BY <1>15 DEF HadInOrder
<1>17. SlotHolds'
  BY <1>1, <1>6, <1>7 DEF SlotHolds, ShapesOK, Pending
<1>18. \A g, i, v : (Frame(g, i)' <=> Frame(g, i)) /\ (Underway(g, v)' <=> Underway(g, v))
  BY <1>2 DEF Frame, Underway
<1>19. FramesFollow'
  <2>1. CASE piped
    <3>1. slot' = h
      BY <1>1, <2>1
    <3>2. Len(Had(h)) = 0 /\ PushedOf(proc[h]) = 0
      <4>1. Had(h) = <<>> \o <<>>
        BY <1>6 DEF Had
      <4>2. <<>> \o <<>> = <<>> /\ Len(<<>>) = 0
        OBVIOUS
      <4>3. PushedOf(Unborn) = 0
        BY DEF PushedOf, Unborn
      <4> QED BY <1>4, <4>1, <4>2, <4>3
    <3>3. \A i \in 1 .. Len(outbound) : ~Frame(h, i)
      BY <1>3 DEF Frame
    <3>4. Had(slot)' = Had(h)' /\ proc'[slot'] = proc'[h]
      BY <3>1 DEF Had
    <3>5. Len(Had(slot)') = 0 /\ PushedOf(proc'[slot']) = 0
      BY <1>2, <1>15, <3>2, <3>4
    <3>6. \A i \in 1 .. Len(outbound') : ~Frame(slot, i)'
      BY <1>2, <3>1, <3>3 DEF Frame
    <3> QED BY <3>5, <3>6 DEF FramesFollow
  <2>2. CASE ~piped
    <3>1. slot' = slot
      BY <1>1, <2>2
    <3>2. slot # None => Had(slot)' = Had(slot)
      BY <1>15, <3>1 DEF ShapesOK, Had
    <3>3. FramesFollow
      OBVIOUS
    <3> QED BY <1>2, <3>1, <3>2, <3>3 DEF FramesFollow, Frame, Underway
  <2> QED BY <2>1, <2>2
<1>20. FramesBeforeEnd'
  <2>1. \A g \in Handles : handle'[g].stage \in {"read", "outcome", "done"} =>
          handle[g].stage \in {"read", "outcome", "done"}
    BY <1>6
  <2> QED BY <1>2, <2>1 DEF FramesBeforeEnd, Frame
<1> QED BY <1>8, <1>9, <1>10, <1>11, <1>13, <1>14, <1>16, <1>17, <1>19, <1>20

(* A terminate marks the handle and may send one more request.               *)
LEMMA TerminateKeeps ==
  ASSUME ProcessesSound, NEW h \in Handles, Terminate(h)
  PROVE  ProcessesSound'
<1> USE DEF ProcessesSound
<1>1. /\ handle[h].stage \in Pending
      /\ handle' = [handle EXCEPT ![h] = Terminating(h)]
      /\ UNCHANGED <<proc, outbound, closed, link, slot>>
  BY DEF Terminate
<1>2. /\ serving' \in [Handles -> SUBSET TaskShape]
      /\ \A g \in Handles : serving[g] \subseteq serving'[g]
      /\ \A g \in Handles : \A t \in serving'[g] :
           \/ t \in serving[g]
           \/ /\ g = h /\ proc[h].leader # "none" /\ t.what = "terminate"
              /\ ~t.served /\ t.ok
  <2>1. CASE handle[h].known /\ link
    <3>1. proc[h].leader # "none"
      BY <2>1 DEF Births
    <3>2. Ask(h, "terminate")
      BY <2>1 DEF Terminate
    <3>3. /\ serving' \in [Handles -> SUBSET TaskShape]
          /\ serving'[h] = serving[h] \cup {Task("terminate")}
          /\ \A g \in Handles : g # h => serving'[g] = serving[g]
          /\ Task("terminate").what = "terminate"
          /\ ~Task("terminate").served /\ Task("terminate").ok
      BY <3>2, AskAdds DEF Request
    <3> QED BY <3>1, <3>3
  <2>2. CASE ~(handle[h].known /\ link)
    BY <2>2 DEF Terminate, ShapesOK
  <2> QED BY <2>1, <2>2
<1>3. /\ handle' \in [Handles -> HandleShape]
      /\ \A g \in Handles : g # h => handle'[g] = handle[g]
      /\ \A g \in Handles : /\ handle'[g].stage = handle[g].stage
                            /\ handle'[g].piped = handle[g].piped
                            /\ handle'[g].known = handle[g].known
                            /\ handle'[g].heard = handle[g].heard
                            /\ handle'[g].buffered = handle[g].buffered
                            /\ handle'[g].from = handle[g].from
                            /\ handle'[g].upTo = handle[g].upTo
  <2>1. handle \in [Handles -> HandleShape]
    BY DEF ShapesOK
  <2>2. /\ Terminating(h) \in HandleShape
        /\ Terminating(h).stage = handle[h].stage
        /\ Terminating(h).piped = handle[h].piped
        /\ Terminating(h).known = handle[h].known
        /\ Terminating(h).heard = handle[h].heard
        /\ Terminating(h).buffered = handle[h].buffered
        /\ Terminating(h).from = handle[h].from
        /\ Terminating(h).upTo = handle[h].upTo
    BY <2>1 DEF Terminating, HandleShape
  <2> QED BY <1>1, <2>1, <2>2
<1>4. handle[h].stage # "new"
  BY <1>1 DEF Pending
<1>5. \A t : t.what = "terminate" => t.what \notin Pending
  BY DEF Pending
<1>6. ShapesOK'
  BY <1>1, <1>2, <1>3 DEF ShapesOK
<1>7. OneRequest'
  <2>1. \A g \in Handles, i \in 1 .. Len(outbound) : Answer(g, i)' <=> Answer(g, i)
    BY <1>1 DEF Answer
  <2>2. \A g \in Handles : \A t \in serving'[g] : t.what \in Pending => t \in serving[g]
    BY <1>2, <1>5
  <2> QED BY <1>1, <1>3, <2>1, <2>2 DEF OneRequest
<1>8. Births'
  <2>1. ASSUME NEW g \in Handles, handle'[g].stage = "new"
        PROVE  /\ serving'[g] = {} /\ handle'[g] = NoHandle
               /\ proc[g].leader = "none"
               /\ \A i \in 1 .. Len(outbound) : outbound[i].of # g
    <3>1. g # h /\ handle[g].stage = "new"
      BY <1>3, <1>4, <2>1
    <3>2. serving'[g] = serving[g]
      BY <1>2, <3>1
    <3> QED BY <1>3, <3>1, <3>2 DEF Births
  <2>2. \A g \in Handles : \A t \in serving'[g] :
          IF t.what = "spawn" THEN proc[g].leader # "none" <=> t.served /\ t.ok
                              ELSE proc[g].leader # "none" /\ t.ok
    BY <1>2 DEF Births
  <2> QED BY <1>1, <1>3, <2>1, <2>2 DEF Births
<1>9. Closing'
  BY <1>1, <1>3 DEF Closing
<1>10. \A g \in Handles : Waited(g)' => Waited(g)
  BY <1>1, <1>2, <1>3 DEF Waited
<1>11. WaitsHold'
  BY <1>1, <1>10 DEF WaitsHold
<1>12. ReadsHold'
  BY <1>1, <1>2, <1>3 DEF ReadsHold
<1>13. \A g \in Handles : Had(g)' = Had(g)
  BY <1>3 DEF Had
<1>14. HadInOrder'
  BY <1>13 DEF HadInOrder
<1>15. SlotHolds'
  BY <1>1, <1>3 DEF SlotHolds, ShapesOK
<1>16. FramesFollow'
  <2>1. slot # None => Had(slot)' = Had(slot)
    BY <1>1, <1>13 DEF ShapesOK, Had
  <2>2. FramesFollow
    OBVIOUS
  <2> QED BY <1>1, <2>1, <2>2 DEF FramesFollow, Frame, Underway
<1>17. FramesBeforeEnd'
  BY <1>1, <1>3 DEF FramesBeforeEnd, Frame
<1> QED BY <1>6, <1>7, <1>8, <1>9, <1>11, <1>12, <1>14, <1>15, <1>16, <1>17

-----------------------------------------------------------------------------
(* The connection                                                          *)

(* The connection is disposed: what it carried is gone.                      *)
LEMMA LinkDropsKeeps ==
  ASSUME ProcessesSound, LinkDrops
  PROVE  ProcessesSound'
<1> USE DEF ProcessesSound
<1>1. /\ link /\ link' = FALSE /\ outbound' = <<>> /\ slot' = None
      /\ UNCHANGED <<proc, serving, closed>>
  BY DEF LinkDrops
<1>2. /\ handle' \in [Handles -> HandleShape]
      /\ \A g \in Handles :
           /\ handle[g].stage \notin Pending => handle'[g] = handle[g]
           /\ handle[g].stage \in Pending => handle'[g].stage = "failed"
           /\ handle'[g].piped = handle[g].piped
           /\ handle'[g].known = handle[g].known
           /\ handle'[g].heard = handle[g].heard
           /\ handle'[g].buffered = handle[g].buffered
  <2>1. \A g \in Handles : handle[g] \in HandleShape
    BY DEF ShapesOK
  <2>2. ASSUME NEW t \in HandleShape
        PROVE  /\ [t EXCEPT !.stage = "failed"] \in HandleShape
               /\ [t EXCEPT !.stage = "failed"].stage = "failed"
               /\ [t EXCEPT !.stage = "failed"].piped = t.piped
               /\ [t EXCEPT !.stage = "failed"].known = t.known
               /\ [t EXCEPT !.stage = "failed"].heard = t.heard
               /\ [t EXCEPT !.stage = "failed"].buffered = t.buffered
    BY DEF HandleShape
  <2>3. handle' = [g \in Handles |-> IF handle[g].stage \in Pending
                                     THEN [handle[g] EXCEPT !.stage = "failed"]
                                     ELSE handle[g]]
    BY DEF LinkDrops
  <2> QED BY <2>1, <2>2, <2>3
<1>3. \A g \in Handles : /\ handle'[g].stage \notin Pending
                         /\ handle'[g].stage # "failed" => handle'[g] = handle[g]
  BY <1>2 DEF Pending
<1>4. Len(outbound') = 0 /\ outbound' \in Seq(MessageShape)
  BY <1>1
<1>5. ShapesOK'
  <2>1. Len(outbound') =< Backlog
    BY <1>4, SizesAssumption
  <2> QED BY <1>1, <1>2, <1>4, <2>1 DEF ShapesOK
<1>6. OneRequest'
  BY <1>1, <1>4 DEF OneRequest
<1>7. Births'
  <2>1. ASSUME NEW g \in Handles, handle'[g].stage = "new"
        PROVE  /\ serving'[g] = {} /\ handle'[g] = NoHandle
               /\ proc'[g].leader = "none"
    BY <1>1, <1>3, <2>1 DEF Births
  <2>2. ASSUME NEW g \in Handles,
               handle'[g].stage \in {"terminateFirst", "wait", "read", "outcome", "done"}
        PROVE  handle'[g].known
    BY <1>3, <2>2 DEF Births
  <2>3. ASSUME NEW g \in Handles, handle'[g].known
        PROVE  proc'[g].leader # "none" /\ handle'[g].buffered = <<>>
    BY <1>1, <1>2, <2>3 DEF Births
  <2>4. \A g \in Handles : \A t \in serving'[g] :
          IF t.what = "spawn" THEN proc'[g].leader # "none" <=> t.served /\ t.ok
                              ELSE proc'[g].leader # "none" /\ t.ok
    BY <1>1 DEF Births
  <2>5. \A i \in 1 .. Len(outbound') : FALSE
    BY <1>4
  <2> QED BY <2>1, <2>2, <2>3, <2>4, <2>5 DEF Births
<1>8. Closing'
  BY <1>1, <1>3 DEF Closing
<1>9. \A g \in Handles : Waited(g)' => Waited(g) /\ handle'[g] = handle[g]
  BY <1>1, <1>3, <1>4 DEF Waited
<1>10. WaitsHold'
  BY <1>1, <1>9 DEF WaitsHold
<1>11. ReadsHold'
  <2>1. ASSUME NEW g \in Handles, ~proc[g].cut, ~handle'[g].piped,
               handle'[g].stage \in {"outcome", "done"}
        PROVE  /\ handle'[g].upTo = proc[g].printed
               /\ handle'[g].from = Newest(proc[g].printed)
    BY <1>3, <2>1 DEF ReadsHold
  <2> QED BY <1>1, <1>4, <2>1 DEF ReadsHold
<1>12. \A g \in Handles : Had(g)' = Had(g)
  BY <1>2 DEF Had
<1>13. HadInOrder'
  BY <1>12 DEF HadInOrder
<1>14. SlotHolds' /\ FramesFollow'
  BY <1>1 DEF SlotHolds, FramesFollow
<1>15. FramesBeforeEnd'
  BY <1>4 DEF FramesBeforeEnd
<1> QED BY <1>5, <1>6, <1>7, <1>8, <1>10, <1>11, <1>13, <1>14, <1>15

(* What the close makes of a process: a group that has settled is left alone, *)
(* any other is killed.                                                      *)
LEMMA DisposedSound ==
  ASSUME NEW p, ProcSound(p), p.leader # "none", ~p.disposed
  PROVE  LET q == Disposed(p)
         IN  /\ ProcSound(q) /\ q.leader # "none" /\ q.disposed
             /\ q.cut = p.cut /\ q.printed = p.printed
             /\ p.settled => /\ q.settled /\ q.left = p.left
                             /\ Alive(q) <=> Alive(p)
             /\ Advances(p, q)
<1> DEFINE k == IF p.settled THEN p ELSE Killed(p)
           q == [k EXCEPT !.disposed = TRUE, !.settled = TRUE]
<1>1. Disposed(p) = q
  BY DEF Disposed
<1>2. p \in Proc
  BY DEF ProcSound
<1>3. Signalled(p, k)
  BY <1>2, KillSignals DEF Killed, Signalled
<1>4. ~p.settled => k.leader # "running" /\ k.child # "running"
  BY <1>2 DEF Killed, Kill, Proc
<1>5. p.settled => k = p
  OBVIOUS
<1> HIDE DEF k
<1>6. ProcSound(k) /\ k.leader # "none" /\ Advances(p, k)
  BY <1>3, SignalledStep DEF Step, Advances
<1>7. /\ q \in Proc /\ q.disposed = TRUE /\ q.settled = TRUE
      /\ q.leader = k.leader /\ q.child = k.child
      /\ q.printed = k.printed /\ q.captured = k.captured /\ q.inHand = k.inHand
      /\ q.left = k.left /\ q.facts = k.facts /\ q.cut = k.cut
      /\ q.abandoned = k.abandoned
  BY <1>6 DEF ProcSound, Proc
<1> HIDE DEF q
<1>8. /\ q.leader # "running"
      /\ q.child = "running" => q.facts
  BY <1>4, <1>5, <1>6, <1>7 DEF ProcSound
<1>9. ProcSound(q)
  BY <1>6, <1>7, <1>8 DEF ProcSound
<1>10. p.settled => (Alive(q) <=> Alive(p)) /\ q.left = p.left
  BY <1>5, <1>7 DEF Alive
<1>11. q.cut = p.cut /\ q.printed = p.printed
  BY <1>3, <1>7 DEF Signalled
<1>12. Advances(p, q)
  BY <1>6, <1>7, <1>11 DEF Advances, Alive
<1> QED BY <1>1, <1>6, <1>7, <1>9, <1>10, <1>11, <1>12

(* The daemon ends every process of a connection that is gone.               *)
LEMMA CloseKeeps ==
  ASSUME ProcessesSound, CloseProcesses
  PROVE  ProcessesSound'
<1> USE DEF ProcessesSound
<1>1. /\ ~link /\ ~closed /\ closed' = TRUE
      /\ UNCHANGED <<serving, outbound, link, handle, slot>>
  BY DEF CloseProcesses
<1>2. /\ outbound = <<>> /\ Len(outbound) = 0 /\ slot = None
      /\ \A g \in Handles : handle[g].stage \notin Pending /\ ~proc[g].disposed
  BY <1>1 DEF Closing
<1>3. ASSUME NEW g \in Handles
      PROVE  /\ ProcSound(proc'[g])
             /\ proc'[g].leader = "none" <=> proc[g].leader = "none"
             /\ proc[g].leader = "none" => proc'[g] = proc[g]
             /\ proc[g].leader # "none" => proc'[g].disposed
             /\ proc'[g].cut = proc[g].cut /\ proc'[g].printed = proc[g].printed
             /\ proc[g].settled => /\ proc'[g].settled /\ proc'[g].left = proc[g].left
                                   /\ Alive(proc'[g]) <=> Alive(proc[g])
  <2>1. ProcSound(proc[g])
    BY DEF ShapesOK
  <2>2. proc'[g] = IF proc[g].leader = "none" THEN proc[g] ELSE Disposed(proc[g])
    BY DEF CloseProcesses
  <2> QED BY <1>2, <2>1, <2>2, DisposedSound
<1>4. proc' \in [Handles -> Proc]
  <2>1. \A g \in Handles : proc'[g] \in Proc
    BY <1>3 DEF ProcSound
  <2>2. proc' = [g \in Handles |-> proc'[g]]
    BY DEF CloseProcesses
  <2> QED BY <2>1, <2>2
<1>5. ShapesOK'
  BY <1>1, <1>3, <1>4 DEF ShapesOK
<1>6. OneRequest'
  BY <1>1, <1>2 DEF OneRequest
<1>7. Births'
  BY <1>1, <1>2, <1>3 DEF Births
<1>8. Closing'
  <2>1. \A g \in Handles : proc'[g].leader = "none" \/ proc'[g].disposed
    BY <1>3
  <2> QED BY <1>1, <2>1 DEF Closing
<1>9. \A g \in Handles : Waited(g)' => Waited(g)
  BY <1>1 DEF Waited
<1>10. WaitsHold'
  BY <1>3, <1>9 DEF WaitsHold
<1>11. ReadsHold'
  BY <1>1, <1>2, <1>3 DEF ReadsHold
<1>12. HadInOrder' /\ SlotHolds' /\ FramesFollow'
  BY <1>1, <1>2 DEF HadInOrder, SlotHolds, FramesFollow, Had
<1>13. FramesBeforeEnd'
  BY <1>1, <1>2 DEF FramesBeforeEnd
<1> QED BY <1>5, <1>6, <1>7, <1>8, <1>10, <1>11, <1>12, <1>13

(* A message that is received was the first; those behind it move up.        *)
LEMMA LeavesQueue ==
  ASSUME ProcessesSound, outbound # <<>>, outbound' = Tail(outbound)
  PROVE  /\ Head(outbound) = outbound[1] /\ outbound[1] \in MessageShape
         /\ outbound' \in Seq(MessageShape)
         /\ Len(outbound) \in Nat /\ 1 \in 1 .. Len(outbound)
         /\ Len(outbound') = Len(outbound) - 1
         /\ \A i \in 1 .. Len(outbound') :
              /\ i \in Int /\ i + 1 \in 1 .. Len(outbound) /\ 1 < i + 1
              /\ outbound'[i] = outbound[i + 1]
              /\ \A g : /\ Frame(g, i)' <=> Frame(g, i + 1)
                        /\ Answer(g, i)' <=> Answer(g, i + 1)
         /\ \A i \in 1 .. Len(outbound) :
              i = 1 \/ (i - 1 \in 1 .. Len(outbound') /\ outbound'[i - 1] = outbound[i])
<1>1. /\ outbound \in Seq(MessageShape) /\ Len(outbound) \in Nat
      /\ \A i \in 1 .. Len(outbound) : outbound[i] \in MessageShape
  BY QueueIsSeq DEF ProcessesSound
<1>2. Len(outbound) > 0
  BY <1>1
<1>3. 1 \in 1 .. Len(outbound)
  BY <1>1, <1>2
<1>4. /\ Head(outbound) = outbound[1] /\ outbound' \in Seq(MessageShape)
      /\ Len(outbound') = Len(outbound) - 1
      /\ \A i \in 1 .. Len(outbound') : outbound'[i] = outbound[i + 1]
  BY <1>1, <1>2
<1>5. \A i \in 1 .. Len(outbound') : i \in Int /\ i + 1 \in 1 .. Len(outbound) /\ 1 < i + 1
  BY <1>1, <1>4
<1>6. \A i \in 1 .. Len(outbound) :
        i = 1 \/ (i - 1 \in 1 .. Len(outbound') /\ outbound'[i - 1] = outbound[i])
  <2>1. \A i \in 1 .. Len(outbound) : i = 1 \/ (i - 1 \in 1 .. Len(outbound') /\ (i - 1) + 1 = i)
    BY <1>1, <1>4
  <2> QED BY <1>4, <2>1
<1>7. \A i \in 1 .. Len(outbound') : \A g :
        /\ Frame(g, i)' <=> Frame(g, i + 1)
        /\ Answer(g, i)' <=> Answer(g, i + 1)
  BY <1>4 DEF Frame, Answer
<1> QED BY <1>1, <1>3, <1>4, <1>5, <1>6, <1>7

(* A message that changes nothing for its client: the answer to a terminate, *)
(* and a frame whose handle has lost the handler.                            *)
LEMMA PassedOver ==
  ASSUME ProcessesSound, outbound # <<>>, outbound' = Tail(outbound),
         slot # None => ~Frame(slot, 1),
         UNCHANGED <<proc, serving, closed, link, handle, slot>>
  PROVE  ProcessesSound'
<1> USE DEF ProcessesSound
<1>1. /\ outbound' \in Seq(MessageShape) /\ Len(outbound) \in Nat
      /\ Len(outbound') = Len(outbound) - 1
      /\ \A i \in 1 .. Len(outbound') :
           /\ i \in Int /\ i + 1 \in 1 .. Len(outbound)
           /\ outbound'[i] = outbound[i + 1]
           /\ \A g : /\ Frame(g, i)' <=> Frame(g, i + 1)
                     /\ Answer(g, i)' <=> Answer(g, i + 1)
      /\ \A i \in 1 .. Len(outbound) :
           i = 1 \/ (i - 1 \in 1 .. Len(outbound') /\ outbound'[i - 1] = outbound[i])
  BY LeavesQueue
<1>2. ShapesOK'
  <2>1. Len(outbound') =< Backlog
    BY <1>1, SizesAssumption DEF ShapesOK
  <2> QED BY <1>1, <2>1 DEF ShapesOK
<1>3. OneRequest'
  <2>1. \A g \in Handles : \A i, j \in 1 .. Len(outbound') :
          Answer(g, i)' /\ Answer(g, j)' => i = j
    <3>1. ASSUME NEW g \in Handles, NEW i \in 1 .. Len(outbound'),
                 NEW j \in 1 .. Len(outbound'), Answer(g, i)', Answer(g, j)'
          PROVE  i = j
      <4>1. i + 1 = j + 1
        BY <1>1, <3>1 DEF OneRequest
      <4> QED BY <1>1, <4>1
    <3> QED BY <3>1
  <2>2. \A g \in Handles : \A i \in 1 .. Len(outbound') :
          Answer(g, i)' => outbound'[i].what = handle[g].stage
    BY <1>1 DEF OneRequest
  <2>3. \A g \in Handles : \A t \in serving[g] : \A i \in 1 .. Len(outbound') :
          ~(t.what \in Pending /\ Answer(g, i)')
    BY <1>1 DEF OneRequest
  <2> QED BY <2>1, <2>2, <2>3 DEF OneRequest
<1>4. Births'
  BY <1>1 DEF Births
<1>5. Closing'
  BY <1>1 DEF Closing
<1>6. \A g \in Handles : Waited(g)' => Waited(g)
  BY <1>1 DEF Waited
<1>7. WaitsHold'
  BY <1>6 DEF WaitsHold
<1>8. ReadsHold'
  BY <1>1 DEF ReadsHold
<1>9. HadInOrder' /\ SlotHolds'
  BY DEF HadInOrder, SlotHolds, Had
<1>10. FramesFollow'
  <2>1. slot # None => \A v : Underway(slot, v) => Underway(slot, v)'
    <3>1. ASSUME slot # None, NEW v, Underway(slot, v) PROVE Underway(slot, v)'
      <4>1. PICK i \in 1 .. Len(outbound) : Frame(slot, i) /\ outbound[i].at = v
        BY <3>1 DEF Underway
      <4>2. i - 1 \in 1 .. Len(outbound') /\ outbound'[i - 1] = outbound[i]
        BY <1>1, <3>1, <4>1
      <4> QED BY <4>1, <4>2 DEF Underway, Frame
    <3> QED BY <3>1
  <2>2. \A i \in 1 .. Len(outbound') : Frame(slot, i)' <=> Frame(slot, i + 1)
    BY <1>1
  <2>3. \A i, j \in 1 .. Len(outbound') : i < j => i + 1 < j + 1
    BY <1>1
  <2>4. FramesFollow /\ Had(slot)' = Had(slot)
    BY DEF Had
  <2> QED BY <1>1, <2>1, <2>2, <2>3, <2>4 DEF FramesFollow
<1>11. FramesBeforeEnd'
  <2>1. ASSUME NEW g \in Handles, ~proc[g].cut,
               NEW i \in 1 .. Len(outbound'), NEW j \in 1 .. Len(outbound'),
               outbound'[i].of = g, outbound'[i].what = "wait", Frame(g, j)'
        PROVE  j < i
    <3>1. j + 1 < i + 1
      BY <1>1, <2>1 DEF FramesBeforeEnd
    <3> QED BY <1>1, <3>1
  <2>2. \A g \in Handles : ~proc[g].cut /\ handle[g].stage \in {"read", "outcome", "done"} =>
          \A i \in 1 .. Len(outbound') : ~Frame(g, i)'
    BY <1>1 DEF FramesBeforeEnd
  <2> QED BY <2>1, <2>2 DEF FramesBeforeEnd
<1> QED BY <1>2, <1>3, <1>4, <1>5, <1>7, <1>8, <1>9, <1>10, <1>11

(* The next frame of a stream is the one that follows on what was had.       *)
LEMMA NextFrame ==
  ASSUME ProcessesSound, NEW h \in Handles, slot = h, 1 \in 1 .. Len(outbound), Frame(h, 1)
  PROVE  /\ outbound[1].at = Len(Had(h)) + 1 /\ outbound[1].at =< PushedOf(proc[h])
         /\ outbound[1].at =< Chunks
<1> DEFINE had == Len(Had(h))
<1>1. FramesFollow /\ h # None /\ ShapesOK
  BY HandlesAssumption DEF ProcessesSound
<1>2. had \in Nat /\ \A i \in 1 .. Len(outbound) : i \in Int /\ outbound[i].at \in Int
  BY <1>1, HadIsSeq, QueueIsSeq
<1>3. had < outbound[1].at /\ outbound[1].at =< PushedOf(proc[h])
  BY <1>1 DEF FramesFollow
<1>4. Underway(h, had + 1)
  <2>1. \A v \in had + 1 .. outbound[1].at : Underway(h, v)
    BY <1>1 DEF FramesFollow
  <2>2. had + 1 \in had + 1 .. outbound[1].at
    BY <1>2, <1>3
  <2> QED BY <2>1, <2>2
<1>5. PICK j \in 1 .. Len(outbound) : Frame(h, j) /\ outbound[j].at = had + 1
  BY <1>4 DEF Underway
<1>6. j = 1
  <2>1. SUFFICES ASSUME j # 1 PROVE FALSE
    OBVIOUS
  <2>2. 1 < j
    BY <1>2, <2>1
  <2>3. outbound[1].at < outbound[j].at
    BY <1>1, <1>5, <2>2 DEF FramesFollow
  <2> QED BY <1>2, <1>3, <1>5, <2>3
<1>7. PushedOf(proc[h]) \in Int /\ PushedOf(proc[h]) =< Chunks
  <2>1. proc[h] \in Proc
    BY <1>1 DEF ShapesOK
  <2>2. proc[h].captured \in Int /\ proc[h].captured =< Chunks
    BY <2>1, SizesAssumption DEF Proc
  <2>3. PushedOf(proc[h]) = proc[h].captured \/ PushedOf(proc[h]) = proc[h].captured - 1
    BY <2>1, PushedIsNumber
  <2> QED BY <2>2, <2>3, SizesAssumption
<1> QED BY <1>2, <1>3, <1>5, <1>6, <1>7, SizesAssumption

(* What is counted up to n, and one more.                                    *)
LEMMA UptoNext ==
  ASSUME NEW n \in Nat
  PROVE  /\ Upto(n) \in Seq(Nat) /\ Len(Upto(n)) = n
         /\ Append(Upto(n), n + 1) = Upto(n + 1)
<1>1. \A k \in Nat : Upto(k) \in [1 .. k -> Nat]
  BY DEF Upto
<1>2. \A k \in Nat : Upto(k) \in Seq(Nat) /\ Len(Upto(k)) = k
  BY <1>1, SeqDef
<1>3. Append(Upto(n), n + 1) \in Seq(Nat) /\ Len(Append(Upto(n), n + 1)) = n + 1
  BY <1>2
<1>4. ASSUME NEW i \in 1 .. n + 1
      PROVE  Append(Upto(n), n + 1)[i] = Upto(n + 1)[i]
  <2>1. Upto(n + 1)[i] = i
    BY DEF Upto
  <2>2. CASE i \in 1 .. n
    <3>1. Append(Upto(n), n + 1)[i] = Upto(n)[i]
      BY <1>2, <2>2
    <3>2. Upto(n)[i] = i
      BY <2>2 DEF Upto
    <3> QED BY <2>1, <3>1, <3>2
  <2>3. CASE i = n + 1
    <3>1. Append(Upto(n), n + 1)[n + 1] = n + 1
      BY <1>2
    <3> QED BY <2>1, <2>3, <3>1
  <2>4. i \in 1 .. n \/ i = n + 1
    OBVIOUS
  <2> QED BY <2>2, <2>3, <2>4
<1>5. Upto(n + 1) \in Seq(Nat) /\ Len(Upto(n + 1)) = n + 1
  BY <1>2
<1>6. Append(Upto(n), n + 1) = Upto(n + 1)
  BY <1>3, <1>4, <1>5, SeqEqual
<1> QED BY <1>2, <1>6

(* What is appended to the second of two sequences is appended to both.      *)
LEMMA ConcatAppend ==
  ASSUME NEW n \in Nat, NEW a \in Seq(0 .. n), NEW b \in Seq(0 .. n), NEW e \in 0 .. n
  PROVE  a \o Append(b, e) = Append(a \o b, e)
BY ConcatProperties, AppendProperties

LEMMA HeldAppends ==
  ASSUME NEW t \in HandleShape, NEW e \in 0 .. Chunks
  PROVE  t.heard \o Append(t.buffered, e) = Append(t.heard \o t.buffered, e)
<1>1. t.heard \in Seq(0 .. Chunks) /\ t.buffered \in Seq(0 .. Chunks)
  BY DEF HandleShape
<1> QED BY <1>1, ConcatAppend, SizesAssumption

(* A frame that reaches its handle is held or delivered, behind what was had. *)
LEMMA FrameTaken ==
  ASSUME ProcessesSound, NEW h \in Handles, slot = h,
         outbound # <<>>, outbound' = Tail(outbound), Frame(h, 1),
         handle' = IF handle[h].known
                   THEN [handle EXCEPT ![h].heard = Append(@, outbound[1].at)]
                   ELSE [handle EXCEPT ![h].buffered = Append(@, outbound[1].at)],
         UNCHANGED <<proc, serving, closed, link, slot>>
  PROVE  ProcessesSound'
<1> USE DEF ProcessesSound
<1> DEFINE at == outbound[1].at
           had == Len(Had(h))
<1>1. /\ outbound' \in Seq(MessageShape) /\ Len(outbound) \in Nat
      /\ 1 \in 1 .. Len(outbound) /\ outbound[1] \in MessageShape
      /\ Len(outbound') = Len(outbound) - 1
      /\ \A i \in 1 .. Len(outbound') :
           /\ i \in Int /\ i + 1 \in 1 .. Len(outbound) /\ 1 < i + 1
           /\ outbound'[i] = outbound[i + 1]
           /\ \A g : /\ Frame(g, i)' <=> Frame(g, i + 1)
                     /\ Answer(g, i)' <=> Answer(g, i + 1)
      /\ \A i \in 1 .. Len(outbound) :
           i = 1 \/ (i - 1 \in 1 .. Len(outbound') /\ outbound'[i - 1] = outbound[i])
  BY LeavesQueue
<1>2. h # None /\ handle[h].piped /\ handle[h].stage \in Pending
  BY HandlesAssumption DEF SlotHolds
<1>3. at = had + 1 /\ at =< PushedOf(proc[h]) /\ at =< Chunks /\ at \in 0 .. Chunks
  BY <1>1, NextFrame DEF MessageShape
<1>4. /\ handle \in [Handles -> HandleShape] /\ handle[h] \in HandleShape
      /\ handle[h].heard \in Seq(0 .. Chunks) /\ handle[h].buffered \in Seq(0 .. Chunks)
      /\ had \in Nat /\ Had(h) \in Seq(0 .. Chunks)
  BY HadIsSeq DEF ShapesOK
<1> HIDE DEF at
<1>5. /\ handle' \in [Handles -> HandleShape]
      /\ \A g \in Handles : g # h => handle'[g] = handle[g]
      /\ handle'[h].stage = handle[h].stage /\ handle'[h].piped = handle[h].piped
      /\ handle'[h].known = handle[h].known
      /\ handle'[h].known => handle'[h].buffered = <<>>
      /\ Had(h)' = Append(Had(h), at)
  <2>1. CASE handle[h].known
    <3> DEFINE t == [handle[h] EXCEPT !.heard = Append(@, at)]
    <3>1. handle' = [handle EXCEPT ![h] = t]
      BY <1>4, <2>1 DEF at
    <3>2. Append(handle[h].heard, at) \in Seq(0 .. Chunks)
      BY <1>3, <1>4
    <3>3. /\ t \in HandleShape /\ t.stage = handle[h].stage /\ t.piped = handle[h].piped
          /\ t.known = handle[h].known /\ t.buffered = handle[h].buffered
          /\ t.heard = Append(handle[h].heard, at)
      BY <1>4, <3>2 DEF HandleShape
    <3> HIDE DEF t
    <3>4. handle[h].buffered = <<>>
      BY <2>1 DEF Births
    <3>5. handle[h].heard \o <<>> = handle[h].heard
          /\ Append(handle[h].heard, at) \o <<>> = Append(handle[h].heard, at)
      BY <1>4, <3>2, ConcatEmptySeq
    <3> QED BY <1>4, <3>1, <3>3, <3>4, <3>5 DEF Had
  <2>2. CASE ~handle[h].known
    <3> DEFINE t == [handle[h] EXCEPT !.buffered = Append(@, at)]
    <3>1. handle' = [handle EXCEPT ![h] = t]
      BY <1>4, <2>2 DEF at
    <3>2. Append(handle[h].buffered, at) \in Seq(0 .. Chunks)
      BY <1>3, <1>4
    <3>3. /\ t \in HandleShape /\ t.stage = handle[h].stage /\ t.piped = handle[h].piped
          /\ t.known = handle[h].known /\ t.heard = handle[h].heard
          /\ t.buffered = Append(handle[h].buffered, at)
      BY <1>4, <3>2 DEF HandleShape
    <3> HIDE DEF t
    <3>4. handle[h].heard \o Append(handle[h].buffered, at)
            = Append(handle[h].heard \o handle[h].buffered, at)
      BY <1>3, <1>4, HeldAppends
    <3> QED BY <1>4, <2>2, <3>1, <3>3, <3>4 DEF Had
  <2> QED BY <2>1, <2>2
<1>6. Had(h)' = Upto(had + 1) /\ Len(Had(h)') = had + 1
  <2>1. Had(h) = Upto(had)
    BY DEF HadInOrder
  <2> HIDE DEF had
  <2> QED BY <1>3, <1>4, <1>5, <2>1, UptoNext
<1> HIDE DEF had
<1>7. \A g \in Handles : /\ handle'[g].stage = handle[g].stage
                         /\ handle'[g].piped = handle[g].piped
                         /\ handle'[g].known = handle[g].known
                         /\ handle'[g].known => handle'[g].buffered = <<>>
                         /\ handle[g].stage \notin Pending => handle'[g] = handle[g]
  BY <1>2, <1>5 DEF Births
<1>8. ShapesOK'
  <2>1. Len(outbound') =< Backlog
    BY <1>1, SizesAssumption DEF ShapesOK
  <2> QED BY <1>1, <1>5, <2>1 DEF ShapesOK
<1>9. OneRequest'
  <2>1. ASSUME NEW g \in Handles, NEW i \in 1 .. Len(outbound'),
               NEW j \in 1 .. Len(outbound'), Answer(g, i)', Answer(g, j)'
        PROVE  i = j
    <3>1. i + 1 = j + 1
      BY <1>1, <2>1 DEF OneRequest
    <3> QED BY <1>1, <3>1
  <2>2. \A g \in Handles : \A i \in 1 .. Len(outbound') :
          Answer(g, i)' => outbound'[i].what = handle'[g].stage
    BY <1>1, <1>7 DEF OneRequest
  <2>3. \A g \in Handles : \A t \in serving'[g] : \A i \in 1 .. Len(outbound') :
          ~(t.what \in Pending /\ Answer(g, i)')
    BY <1>1 DEF OneRequest
  <2>4. \A g \in Handles : \A t \in serving'[g] :
          link' /\ t.what \in Pending => t.what = handle'[g].stage
    BY <1>7 DEF OneRequest
  <2> QED BY <2>1, <2>2, <2>3, <2>4 DEF OneRequest
<1>10. Births'
  <2>1. "new" \notin Pending
    BY DEF Pending
  <2>2. ASSUME NEW g \in Handles, handle'[g].stage = "new"
        PROVE  /\ serving'[g] = {} /\ handle'[g] = NoHandle /\ proc'[g].leader = "none"
               /\ \A i \in 1 .. Len(outbound') : outbound'[i].of # g
    BY <1>1, <1>7, <2>1, <2>2 DEF Births
  <2> QED BY <1>1, <1>7, <2>2 DEF Births
<1>11. Closing'
  <2>1. link
    BY DEF Closing
  <2> QED BY <2>1 DEF Closing
<1>12. \A g \in Handles : Waited(g)' => Waited(g)
  BY <1>1, <1>7 DEF Waited
<1>13. WaitsHold'
  BY <1>12 DEF WaitsHold
<1>14. ReadsHold'
  <2>1. ASSUME NEW g \in Handles, ~proc[g].cut, ~handle'[g].piped,
               handle'[g].stage \in {"outcome", "done"}
        PROVE  /\ handle'[g].upTo = proc[g].printed
               /\ handle'[g].from = Newest(proc[g].printed)
    BY <1>2, <1>5, <1>7, <2>1 DEF ReadsHold
  <2> QED BY <1>1, <2>1 DEF ReadsHold
<1>15. HadInOrder'
  <2>1. ASSUME NEW g \in Handles
        PROVE  Len(Had(g)') =< Chunks /\ Had(g)' = Upto(Len(Had(g)'))
    <3>1. CASE g = h
      BY <1>3, <1>6, <3>1
    <3>2. CASE g # h
      <4>1. Had(g)' = Had(g)
        BY <1>5, <3>2 DEF Had
      <4> QED BY <4>1 DEF HadInOrder
    <3> QED BY <3>1, <3>2
  <2> QED BY <2>1 DEF HadInOrder
<1>16. SlotHolds'
  BY <1>2, <1>7 DEF SlotHolds
<1>17. FramesFollow'
  <2>1. FramesFollow
    OBVIOUS
  <2>2. ASSUME NEW v, v # at, Underway(h, v) PROVE Underway(h, v)'
    <3>1. PICK i \in 1 .. Len(outbound) : Frame(h, i) /\ outbound[i].at = v
      BY <2>2 DEF Underway
    <3>2. i - 1 \in 1 .. Len(outbound') /\ outbound'[i - 1] = outbound[i]
      BY <1>1, <2>2, <3>1 DEF at
    <3> QED BY <3>1, <3>2 DEF Underway, Frame
  <2>3. \A v : v \in at + 1 .. PushedOf(proc[h]) => v # at /\ v \in had + 1 .. PushedOf(proc[h])
    BY <1>3, <1>4
  <2>4. ASSUME NEW i \in 1 .. Len(outbound'), Frame(h, i)'
        PROVE  /\ at < outbound'[i].at /\ outbound'[i].at =< PushedOf(proc[h])
               /\ \A v \in at + 1 .. outbound'[i].at : Underway(h, v)'
    <3>1. i + 1 \in 1 .. Len(outbound) /\ 1 < i + 1 /\ Frame(h, i + 1)
          /\ outbound'[i] = outbound[i + 1]
      BY <1>1, <2>4
    <3>2. at < outbound'[i].at
      BY <1>1, <1>2, <2>1, <3>1 DEF FramesFollow, at
    <3>3. /\ outbound'[i].at =< PushedOf(proc[h])
          /\ \A v \in had + 1 .. outbound'[i].at : Underway(h, v)
      BY <1>2, <2>1, <3>1 DEF FramesFollow, had
    <3>4. outbound'[i].at \in Int
      BY <3>1, QueueIsSeq
    <3>5. \A v : v \in at + 1 .. outbound'[i].at => v # at /\ v \in had + 1 .. outbound'[i].at
      BY <1>3, <1>4, <3>4
    <3> QED BY <2>2, <3>2, <3>3, <3>5
  <2>5. \A i, j \in 1 .. Len(outbound') :
          Frame(h, i)' /\ Frame(h, j)' /\ i < j => outbound'[i].at < outbound'[j].at
    <3>1. \A i, j \in 1 .. Len(outbound') : i < j => i + 1 < j + 1
      BY <1>1
    <3> QED BY <1>1, <1>2, <2>1, <3>1 DEF FramesFollow
  <2>6. InFull(proc[h]) => \A v \in at + 1 .. PushedOf(proc[h]) : Underway(h, v)'
    BY <1>2, <2>1, <2>2, <2>3 DEF FramesFollow, had
  <2>7. Had(slot)' = Had(h)' /\ Len(Had(h)') = at
    BY <1>3, <1>6 DEF Had
  <2> QED BY <1>3, <2>4, <2>5, <2>6, <2>7 DEF FramesFollow, Frame, Underway
<1>18. FramesBeforeEnd'
  <2>1. ASSUME NEW g \in Handles, ~proc[g].cut,
               NEW i \in 1 .. Len(outbound'), NEW j \in 1 .. Len(outbound'),
               outbound'[i].of = g, outbound'[i].what = "wait", Frame(g, j)'
        PROVE  j < i
    <3>1. j + 1 < i + 1
      BY <1>1, <2>1 DEF FramesBeforeEnd
    <3> QED BY <1>1, <3>1
  <2>2. \A g \in Handles : ~proc[g].cut /\ handle'[g].stage \in {"read", "outcome", "done"} =>
          \A i \in 1 .. Len(outbound') : ~Frame(g, i)'
    BY <1>1, <1>7 DEF FramesBeforeEnd
  <2> QED BY <2>1, <2>2 DEF FramesBeforeEnd
<1> QED BY <1>8, <1>9, <1>10, <1>11, <1>13, <1>14, <1>15, <1>16, <1>17, <1>18

\* What taking the answer at the head of the queue makes of its handle: the
\* stage, at most one request more, and the handler given up when it ends.
Answered(h) ==
  /\ handle' \in [Handles -> HandleShape]
  /\ \A g \in Handles : g # h => handle'[g] = handle[g]
  /\ handle'[h].piped = handle[h].piped /\ Had(h)' = Had(h)
  /\ handle'[h].stage # "new"
  /\ handle'[h].stage \in {"terminateFirst", "wait", "read", "outcome", "done"} =>
       handle'[h].known
  /\ handle'[h].known => proc[h].leader # "none" /\ handle'[h].buffered = <<>>
  /\ handle'[h].stage \in {"read", "outcome", "done"} =>
       Waited(h) /\ (proc[h].cut \/ \A i \in 1 .. Len(outbound) : ~Frame(h, i))
  /\ ~proc[h].cut /\ ~handle[h].piped /\ handle'[h].stage \in {"outcome", "done"} =>
       /\ handle'[h].upTo = proc[h].printed
       /\ handle'[h].from = Newest(proc[h].printed)
  /\ slot' \in {slot, None} /\ (slot' = h => handle'[h].stage \in Pending)
  /\ serving' \in [Handles -> SUBSET TaskShape]
  /\ \A g \in Handles : g # h => serving'[g] = serving[g]
  /\ \A t \in serving'[h] : t \in serving[h] \/
       /\ t.what = handle'[h].stage /\ t.what # "spawn" /\ ~t.served /\ t.ok
       /\ proc[h].leader # "none"
  /\ \A t, u \in serving'[h] : t \notin serving[h] /\ u \notin serving[h] => t = u

(* The one answer under way is taken; the next request may follow.           *)
LEMMA AnswerKeeps ==
  ASSUME ProcessesSound, NEW h \in Handles, outbound # <<>>, outbound' = Tail(outbound),
         Answer(h, 1), Answered(h), UNCHANGED <<proc, closed, link>>
  PROVE  ProcessesSound'
<1> USE DEF ProcessesSound
<1>1. /\ outbound' \in Seq(MessageShape) /\ Len(outbound) \in Nat
      /\ 1 \in 1 .. Len(outbound)
      /\ Len(outbound') = Len(outbound) - 1
      /\ \A i \in 1 .. Len(outbound') :
           /\ i \in Int /\ i + 1 \in 1 .. Len(outbound) /\ 1 < i + 1
           /\ outbound'[i] = outbound[i + 1]
           /\ \A g : /\ Frame(g, i)' <=> Frame(g, i + 1)
                     /\ Answer(g, i)' <=> Answer(g, i + 1)
      /\ \A i \in 1 .. Len(outbound) :
           i = 1 \/ (i - 1 \in 1 .. Len(outbound') /\ outbound'[i - 1] = outbound[i])
  BY LeavesQueue
<1>2. \A t \in serving[h] : t.what \notin Pending
  BY <1>1 DEF OneRequest
<1>3. \A i \in 1 .. Len(outbound') : ~Answer(h, i)'
  <2>1. ASSUME NEW i \in 1 .. Len(outbound'), Answer(h, i)' PROVE FALSE
    <3>1. i + 1 = 1
      BY <1>1, <2>1 DEF OneRequest
    <3> QED BY <1>1, <3>1
  <2> QED BY <2>1
<1>4. link /\ outbound[1].of = h
  BY DEF Closing, Answer
<1>5. ShapesOK'
  <2>1. Len(outbound') =< Backlog
    BY <1>1, SizesAssumption DEF ShapesOK
  <2> QED BY <1>1, <2>1 DEF ShapesOK, Answered
<1>6. OneRequest'
  <2>1. ASSUME NEW g \in Handles, g # h
        PROVE  /\ \A t \in serving'[g] : link' /\ t.what \in Pending => t.what = handle'[g].stage
               /\ \A i \in 1 .. Len(outbound') : Answer(g, i)' => outbound'[i].what = handle'[g].stage
               /\ \A t, u \in serving'[g] : t.what \in Pending /\ u.what \in Pending => t = u
               /\ \A t \in serving'[g], i \in 1 .. Len(outbound') :
                    ~(t.what \in Pending /\ Answer(g, i)')
    <3>1. handle'[g] = handle[g] /\ serving'[g] = serving[g]
      BY <2>1 DEF Answered
    <3> QED BY <1>1, <3>1 DEF OneRequest
  <2>2. ASSUME NEW g \in Handles, NEW i \in 1 .. Len(outbound'),
               NEW j \in 1 .. Len(outbound'), Answer(g, i)', Answer(g, j)'
        PROVE  i = j
    <3>1. i + 1 = j + 1
      BY <1>1, <2>2 DEF OneRequest
    <3> QED BY <1>1, <3>1
  <2>3. \A t \in serving'[h] : t.what \in Pending => t \notin serving[h] /\ t.what = handle'[h].stage
    BY <1>2 DEF Answered
  <2>4. \A t, u \in serving'[h] : t.what \in Pending /\ u.what \in Pending => t = u
    BY <2>3 DEF Answered
  <2> QED BY <1>3, <2>1, <2>2, <2>3, <2>4 DEF OneRequest
<1>7. Births'
  <2>1. ASSUME NEW g \in Handles, handle'[g].stage = "new"
        PROVE  /\ serving'[g] = {} /\ handle'[g] = NoHandle
               /\ proc'[g].leader = "none"
               /\ \A i \in 1 .. Len(outbound') : outbound'[i].of # g
    <3>1. g # h /\ handle'[g] = handle[g] /\ serving'[g] = serving[g]
      BY <2>1 DEF Answered
    <3> QED BY <1>1, <2>1, <3>1 DEF Births
  <2>2. \A g \in Handles : \A t \in serving'[g] :
          IF t.what = "spawn" THEN proc'[g].leader # "none" <=> t.served /\ t.ok
                              ELSE proc'[g].leader # "none" /\ t.ok
    BY DEF Births, Answered
  <2>3. \A g \in Handles : \A i \in 1 .. Len(outbound') : outbound'[i].of = g =>
          /\ proc'[g].leader = "none" => outbound'[i].what = "spawn" /\ ~outbound'[i].ok
          /\ ~outbound'[i].ok => outbound'[i].what = "spawn" /\ proc'[g].leader = "none"
    BY <1>1 DEF Births
  <2>4. \A g \in Handles :
          /\ handle'[g].stage \in {"terminateFirst", "wait", "read", "outcome", "done"} =>
               handle'[g].known
          /\ handle'[g].known => proc'[g].leader # "none" /\ handle'[g].buffered = <<>>
    BY DEF Births, Answered
  <2> QED BY <2>1, <2>2, <2>3, <2>4 DEF Births
<1>8. Closing'
  BY <1>4 DEF Closing
<1>9. \A g \in Handles : Waited(g)' => Waited(g)
  <2>1. ASSUME NEW g \in Handles, g # h, Waited(g)' PROVE Waited(g)
    BY <1>1, <2>1 DEF Waited, Answered
  <2>2. ASSUME Waited(h)' PROVE Waited(h)
    <3>1. \A t \in serving'[h] : t.what = "wait" => ~t.served
      BY <1>2 DEF Answered, Pending
    <3>2. handle'[h].stage \in {"read", "outcome", "done"}
          \/ \E i \in 1 .. Len(outbound') : outbound'[i].of = h /\ outbound'[i].what = "wait"
      BY <2>2, <3>1 DEF Waited
    <3>3. CASE \E i \in 1 .. Len(outbound') : outbound'[i].of = h /\ outbound'[i].what = "wait"
      BY <1>1, <3>3 DEF Waited
    <3> QED BY <3>2, <3>3 DEF Answered
  <2> QED BY <2>1, <2>2
<1>10. WaitsHold'
  BY <1>9 DEF WaitsHold
<1>11. ReadsHold'
  <2>1. ASSUME NEW g \in Handles, ~proc[g].cut
        PROVE  /\ \A t \in serving'[g] : link' /\ t.what = "read" /\ t.served =>
                    t.at = proc[g].printed
               /\ ~handle'[g].piped /\ handle'[g].stage \in {"outcome", "done"} =>
                    /\ handle'[g].upTo = proc[g].printed
                    /\ handle'[g].from = Newest(proc[g].printed)
    <3>1. CASE g = h
      BY <1>4, <2>1, <3>1 DEF Answered, ReadsHold
    <3>2. CASE g # h
      BY <1>4, <2>1, <3>2 DEF Answered, ReadsHold
    <3> QED BY <3>1, <3>2
  <2>2. \A g \in Handles : ~proc[g].cut => \A i \in 1 .. Len(outbound') :
          outbound'[i].of = g /\ outbound'[i].what = "read" => outbound'[i].at = proc[g].printed
    BY <1>1 DEF ReadsHold
  <2> QED BY <2>1, <2>2 DEF ReadsHold
<1>12. \A g \in Handles : Had(g)' = Had(g)
  <2>1. \A g \in Handles : g # h => Had(g)' = Had(g)
    BY DEF Answered, Had
  <2> QED BY <2>1 DEF Answered
<1>13. HadInOrder'
  BY <1>12 DEF HadInOrder
<1>14. SlotHolds'
  <2>1. slot' = None \/ slot' = slot
    BY DEF Answered
  <2>2. slot # None /\ slot # h => handle'[slot] = handle[slot]
    BY DEF Answered, ShapesOK
  <2> QED BY <2>1, <2>2 DEF SlotHolds, Answered
<1>15. FramesFollow'
  <2>1. CASE slot' = None
    BY <2>1 DEF FramesFollow
  <2>2. CASE slot' = slot /\ slot # None
    <3>1. Had(slot)' = Had(slot)
      BY <1>12, <2>2 DEF ShapesOK, Had
    <3>2. ~Frame(slot, 1)
      BY DEF Answer, Frame, Pending
    <3>3. ASSUME NEW v, Underway(slot, v) PROVE Underway(slot, v)'
      <4>1. PICK i \in 1 .. Len(outbound) : Frame(slot, i) /\ outbound[i].at = v
        BY <3>3 DEF Underway
      <4>2. i - 1 \in 1 .. Len(outbound') /\ outbound'[i - 1] = outbound[i]
        BY <1>1, <3>2, <4>1
      <4> QED BY <2>2, <4>1, <4>2 DEF Underway, Frame
    <3>4. \A i \in 1 .. Len(outbound') : Frame(slot, i)' <=> Frame(slot, i + 1)
      BY <1>1, <2>2 DEF Frame
    <3>5. \A i, j \in 1 .. Len(outbound') : i < j => i + 1 < j + 1
      BY <1>1
    <3>6. FramesFollow
      OBVIOUS
    <3> QED BY <1>1, <2>2, <3>1, <3>3, <3>4, <3>5, <3>6 DEF FramesFollow
  <2> QED BY <2>1, <2>2 DEF Answered
<1>16. FramesBeforeEnd'
  <2>1. ASSUME NEW g \in Handles, ~proc[g].cut,
               NEW i \in 1 .. Len(outbound'), NEW j \in 1 .. Len(outbound'),
               outbound'[i].of = g, outbound'[i].what = "wait", Frame(g, j)'
        PROVE  j < i
    <3>1. j + 1 < i + 1
      BY <1>1, <2>1 DEF FramesBeforeEnd
    <3> QED BY <1>1, <3>1
  <2>2. \A g \in Handles : ~proc[g].cut /\ handle'[g].stage \in {"read", "outcome", "done"} =>
          \A i \in 1 .. Len(outbound') : ~Frame(g, i)'
    <3>1. ASSUME NEW g \in Handles, ~proc[g].cut, handle'[g].stage \in {"read", "outcome", "done"},
                 NEW i \in 1 .. Len(outbound'), Frame(g, i)'
          PROVE  FALSE
      <4>1. Frame(g, i + 1) /\ i + 1 \in 1 .. Len(outbound)
        BY <1>1, <3>1
      <4>2. CASE g = h
        BY <3>1, <4>1, <4>2 DEF Answered
      <4>3. CASE g # h
        BY <3>1, <4>1, <4>3 DEF Answered, FramesBeforeEnd
      <4> QED BY <4>2, <4>3
    <3> QED BY <3>1
  <2> QED BY <2>1, <2>2 DEF FramesBeforeEnd
<1> QED BY <1>5, <1>6, <1>7, <1>8, <1>10, <1>11, <1>13, <1>14, <1>15, <1>16

(* A handle that ends gives the handler up, if it has it.                    *)
LEMMA PipesAreClosed ==
  ASSUME ProcessesSound, NEW h \in Handles
  PROVE  PipesClosed(h) \in {slot, None} /\ PipesClosed(h) # h
BY HandlesAssumption DEF ProcessesSound, SlotHolds, PipesClosed, Piped

(* Only the stage of a handle changes.                                       *)
LEMMA StageSet ==
  ASSUME ShapesOK, NEW h \in Handles, NEW stage \in Pending \cup {"done", "failed"},
         handle' = [handle EXCEPT ![h].stage = stage]
  PROVE  /\ handle' \in [Handles -> HandleShape]
         /\ \A g \in Handles : g # h => handle'[g] = handle[g]
         /\ handle'[h].stage = stage
         /\ handle'[h].piped = handle[h].piped /\ handle'[h].known = handle[h].known
         /\ handle'[h].buffered = handle[h].buffered
         /\ handle'[h].upTo = handle[h].upTo /\ handle'[h].from = handle[h].from
         /\ Had(h)' = Had(h)
<1>1. handle \in [Handles -> HandleShape]
  BY DEF ShapesOK
<1> DEFINE t == [handle[h] EXCEPT !.stage = stage]
<1>2. /\ t \in HandleShape /\ t.stage = stage /\ t.piped = handle[h].piped
      /\ t.known = handle[h].known /\ t.buffered = handle[h].buffered
      /\ t.heard = handle[h].heard
      /\ t.upTo = handle[h].upTo /\ t.from = handle[h].from
  BY <1>1 DEF HandleShape
<1>3. handle' = [handle EXCEPT ![h] = t]
  OBVIOUS
<1> HIDE DEF t
<1> QED BY <1>1, <1>2, <1>3 DEF Had

(* The answer to a request that failed, or to the last one, ends the handle. *)
LEMMA LastAnswer ==
  ASSUME ProcessesSound, NEW h \in Handles, outbound # <<>>, 1 \in 1 .. Len(outbound),
         Answer(h, 1), ~outbound[1].ok \/ handle[h].stage = "outcome",
         handle' = [handle EXCEPT ![h].stage =
                      IF ~outbound[1].ok THEN "failed" ELSE "done"],
         slot' = PipesClosed(h), UNCHANGED serving
  PROVE  Answered(h)
<1> USE DEF ProcessesSound
<1> DEFINE stage == IF ~outbound[1].ok THEN "failed" ELSE "done"
<1>1. outbound[1].of = h /\ outbound[1].what = handle[h].stage
  BY DEF OneRequest, Answer
<1>2. stage \in Pending \cup {"done", "failed"} /\ stage # "new"
      /\ stage \notin {"terminateFirst", "wait", "read", "outcome"}
  OBVIOUS
<1>3. /\ handle' \in [Handles -> HandleShape]
      /\ \A g \in Handles : g # h => handle'[g] = handle[g]
      /\ handle'[h].stage = stage
      /\ handle'[h].piped = handle[h].piped /\ handle'[h].known = handle[h].known
      /\ handle'[h].buffered = handle[h].buffered
      /\ handle'[h].upTo = handle[h].upTo /\ handle'[h].from = handle[h].from
      /\ Had(h)' = Had(h)
  BY <1>2, StageSet
<1>4. stage = "done" => handle[h].stage = "outcome"
  OBVIOUS
<1> HIDE DEF stage
<1>5. slot' \in {slot, None} /\ slot' # h
  BY PipesAreClosed
<1>6. serving' \in [Handles -> SUBSET TaskShape]
  BY DEF ShapesOK
<1>7. stage = "done" => /\ handle[h].known /\ Waited(h)
                        /\ proc[h].cut \/ \A i \in 1 .. Len(outbound) : ~Frame(h, i)
  BY <1>4 DEF Births, Waited, FramesBeforeEnd
<1>8. ~proc[h].cut /\ ~handle[h].piped /\ stage = "done" =>
        /\ handle[h].upTo = proc[h].printed
        /\ handle[h].from = Newest(proc[h].printed)
  BY <1>4 DEF ReadsHold
<1>9. handle[h].known => proc[h].leader # "none" /\ handle[h].buffered = <<>>
  BY DEF Births
<1> QED BY <1>2, <1>3, <1>5, <1>6, <1>7, <1>8, <1>9 DEF Answered

(* Any other answer is followed by the next request of run.                  *)
LEMMA NextAnswer ==
  ASSUME ProcessesSound, NEW h \in Handles, outbound # <<>>, 1 \in 1 .. Len(outbound),
         Answer(h, 1), outbound[1].ok, handle[h].stage # "outcome",
         NEW t,
         t = CASE outbound[1].what = "spawn" -> Flushed(handle[h])
               [] outbound[1].what = "read" -> Mirrored(handle[h], outbound[1].at)
               [] OTHER -> handle[h],
         handle' = [handle EXCEPT ![h] = [t EXCEPT !.stage = NextRequest(h)]],
         Ask(h, NextRequest(h)), UNCHANGED slot
  PROVE  Answered(h)
<1> USE DEF ProcessesSound
<1> DEFINE r == NextRequest(h)
           s == handle[h].stage
           at == outbound[1].at
<1>1. outbound[1].of = h /\ outbound[1].what = s /\ s \in Pending /\ s # "outcome"
  BY DEF OneRequest, Answer
<1>2. /\ outbound[1] \in MessageShape /\ at \in 0 .. Chunks
      /\ handle \in [Handles -> HandleShape] /\ handle[h] \in HandleShape
      /\ handle[h].heard \in Seq(0 .. Chunks) /\ handle[h].buffered \in Seq(0 .. Chunks)
      /\ Had(h) \in Seq(0 .. Chunks)
  BY QueueIsSeq, HadIsSeq DEF ShapesOK
<1>3. proc[h].leader # "none"
  BY <1>1 DEF Births
<1>4. /\ r \in Pending /\ r # "spawn"
      /\ s = "spawn" => r \in {"terminateFirst", "wait"}
      /\ s = "terminateFirst" => r = "wait"
      /\ s = "wait" => r = IF handle[h].piped THEN "outcome" ELSE "read"
      /\ s = "read" => r = "outcome"
  BY <1>1 DEF NextRequest, Pending, Piped
<1>5. /\ t \in HandleShape /\ t.piped = handle[h].piped
      /\ t.heard \o t.buffered = Had(h)
      /\ t.known /\ t.buffered = <<>>
      /\ s = "read" => t.upTo = at /\ t.from = Newest(at)
  <2>1. CASE s = "spawn"
    <3>1. t = Flushed(handle[h])
      BY <1>1, <2>1
    <3>2. Had(h) \o <<>> = Had(h) /\ <<>> \in Seq(0 .. Chunks)
      BY <1>2, ConcatEmptySeq
    <3>3. /\ t \in HandleShape /\ t.piped = handle[h].piped /\ t.heard = Had(h)
          /\ t.buffered = <<>> /\ t.known = TRUE
      BY <1>2, <3>1, <3>2 DEF Flushed, HandleShape, Had
    <3> QED BY <2>1, <3>2, <3>3
  <2>2. CASE s = "read"
    <3>1. t = Mirrored(handle[h], at)
      BY <1>1, <2>2
    <3>2. Newest(at) \in 0 .. Chunks
      BY <1>2, SizesAssumption DEF Newest
    <3>3. /\ t \in HandleShape /\ t.piped = handle[h].piped /\ t.heard = handle[h].heard
          /\ t.buffered = handle[h].buffered /\ t.known = handle[h].known
          /\ t.upTo = at /\ t.from = Newest(at)
      BY <1>2, <3>1, <3>2 DEF Mirrored, HandleShape, Newest
    <3>4. handle[h].known /\ handle[h].buffered = <<>>
      BY <2>2 DEF Births
    <3> QED BY <3>3, <3>4 DEF Had
  <2>3. CASE s \notin {"spawn", "read"}
    <3>1. t = handle[h]
      BY <1>1, <2>3
    <3>2. handle[h].known /\ handle[h].buffered = <<>>
      BY <1>1, <2>3 DEF Births, Pending
    <3> QED BY <1>2, <2>3, <3>1, <3>2 DEF Had
  <2> QED BY <2>1, <2>2, <2>3
<1>6. /\ handle' \in [Handles -> HandleShape]
      /\ \A g \in Handles : g # h => handle'[g] = handle[g]
      /\ handle'[h].stage = r /\ handle'[h].piped = handle[h].piped /\ Had(h)' = Had(h)
      /\ handle'[h].known /\ handle'[h].buffered = <<>>
      /\ s = "read" => handle'[h].upTo = at /\ handle'[h].from = Newest(at)
  <2> DEFINE n == [t EXCEPT !.stage = r]
  <2>1. handle' = [handle EXCEPT ![h] = n]
    OBVIOUS
  <2> HIDE DEF r
  <2>2. /\ n \in HandleShape /\ n.stage = r /\ n.piped = t.piped /\ n.known = t.known
        /\ n.buffered = t.buffered /\ n.heard = t.heard /\ n.upTo = t.upTo /\ n.from = t.from
    BY <1>4, <1>5 DEF HandleShape
  <2> HIDE DEF n
  <2>3. /\ handle' \in [Handles -> HandleShape] /\ handle'[h] = n
        /\ \A g \in Handles : g # h => handle'[g] = handle[g]
    BY <1>2, <2>1, <2>2
  <2>4. Had(h)' = Had(h)
    <3>1. Had(h)' = n.heard \o n.buffered
      BY <2>3 DEF Had
    <3> QED BY <1>5, <2>2, <3>1
  <2> QED BY <1>5, <2>2, <2>3, <2>4
<1>7. /\ serving' \in [Handles -> SUBSET TaskShape]
      /\ serving'[h] = serving[h] \cup {Task(r)}
      /\ \A g \in Handles : g # h => serving'[g] = serving[g]
      /\ Task(r).what = r /\ ~Task(r).served /\ Task(r).ok
  BY <1>4, AskAdds DEF Request
<1> HIDE DEF r
<1>8. r \in {"read", "outcome"} =>
        Waited(h) /\ (proc[h].cut \/ \A i \in 1 .. Len(outbound) : ~Frame(h, i))
  <2>1. r \in {"read", "outcome"} => s \in {"wait", "read"}
    BY <1>1, <1>4 DEF Pending
  <2>2. CASE s = "read"
    BY <2>2 DEF Waited, FramesBeforeEnd
  <2>3. CASE s = "wait"
    <3>1. Waited(h)
      BY <1>1, <2>3 DEF Waited
    <3>2. ASSUME ~proc[h].cut, NEW j \in 1 .. Len(outbound), Frame(h, j) PROVE FALSE
      <4>1. j < 1
        BY <1>1, <2>3, <3>2 DEF FramesBeforeEnd
      <4>2. Len(outbound) \in Nat
        BY QueueIsSeq
      <4> QED BY <4>1, <4>2
    <3> QED BY <3>1, <3>2
  <2> QED BY <2>1, <2>2, <2>3
<1>9. ~proc[h].cut /\ ~handle[h].piped /\ r = "outcome" =>
        handle'[h].upTo = proc[h].printed /\ handle'[h].from = Newest(proc[h].printed)
  <2>1. ~handle[h].piped /\ r = "outcome" => s = "read"
    BY <1>1, <1>4 DEF Pending
  <2>2. ~proc[h].cut /\ s = "read" => at = proc[h].printed
    BY <1>1 DEF ReadsHold
  <2> QED BY <1>6, <2>1, <2>2
<1>10. r # "new" /\ r # "done"
  BY <1>4 DEF Pending
<1>11. \A u \in serving'[h] : u \in serving[h] \/ u = Task(r)
  BY <1>7
<1> HIDE DEF s, at
<1>12. \A u \in serving'[h] : u \in serving[h] \/
         /\ u.what = handle'[h].stage /\ u.what # "spawn" /\ ~u.served /\ u.ok
         /\ proc[h].leader # "none"
  BY <1>3, <1>4, <1>6, <1>7, <1>11
<1>13. \A u, v \in serving'[h] : u \notin serving[h] /\ v \notin serving[h] => u = v
  BY <1>11
<1> QED BY <1>3, <1>4, <1>6, <1>7, <1>8, <1>9, <1>10, <1>12, <1>13 DEF Answered

(* What the client receives.                                                 *)
LEMMA ReceiveKeeps ==
  ASSUME ProcessesSound, Receive
  PROVE  ProcessesSound'
<1> DEFINE m == outbound[1]
           h == m.of
<1>1. /\ outbound # <<>> /\ outbound' = Tail(outbound)
      /\ UNCHANGED <<proc, closed, link>>
      /\ Head(outbound) = m /\ m \in MessageShape /\ 1 \in 1 .. Len(outbound)
  BY LeavesQueue DEF Receive
<1>2. h \in Handles /\ m.what \in Request \cup {"frame"}
  BY <1>1 DEF MessageShape
<1>3. CASE m.what = "frame"
  <2>1. TakeFrame(h, m)
    BY <1>1, <1>3 DEF Receive
  <2>2. UNCHANGED <<slot, serving>>
    BY <2>1 DEF TakeFrame
  <2>3. CASE slot = h
    <3>1. slot # None
      BY <1>2, <2>3, HandlesAssumption
    <3>2. handle' = IF handle[h].known
                    THEN [handle EXCEPT ![h].heard = Append(@, m.at)]
                    ELSE [handle EXCEPT ![h].buffered = Append(@, m.at)]
      BY <2>1, <2>3, <3>1 DEF TakeFrame
    <3>3. Frame(h, 1)
      BY <1>3 DEF Frame
    <3> QED BY <1>1, <1>2, <2>2, <2>3, <3>2, <3>3, FrameTaken
  <2>4. CASE slot # h
    <3>1. handle' = handle
      <4>1. handle \in [Handles -> HandleShape] /\ slot \in Handles \cup {None}
        BY DEF ProcessesSound, ShapesOK
      <4>2. CASE slot = None
        BY <2>1, <4>2 DEF TakeFrame
      <4>3. CASE slot # None /\ ~handle[slot].known
        <5>1. handle' = [handle EXCEPT ![slot].buffered = @]
          BY <2>1, <2>4, <4>3 DEF TakeFrame
        <5> QED BY <4>1, <5>1 DEF HandleShape
      <4>4. CASE slot # None /\ handle[slot].known
        <5>1. handle' = [handle EXCEPT ![slot].heard = @]
          BY <2>1, <2>4, <4>4 DEF TakeFrame
        <5> QED BY <4>1, <5>1 DEF HandleShape
      <4> QED BY <4>2, <4>3, <4>4
    <3>2. ~Frame(slot, 1)
      BY <2>4 DEF Frame
    <3> QED BY <1>1, <2>2, <3>1, <3>2, PassedOver
  <2> QED BY <2>3, <2>4
<1>4. CASE m.what = "terminate"
  <2>1. UNCHANGED <<handle, slot, serving>>
    BY <1>1, <1>4 DEF Receive, TakeAnswer
  <2>2. ~Frame(slot, 1)
    BY <1>4 DEF Frame
  <2> QED BY <1>1, <2>1, <2>2, PassedOver
<1>5. CASE m.what \in Pending
  <2>1. TakeAnswer(h, m) /\ m.what # "terminate"
    BY <1>1, <1>5 DEF Receive, Pending
  <2>2. Answer(h, 1)
    BY <1>5 DEF Answer
  <2>3. CASE ~m.ok \/ handle[h].stage = "outcome"
    <3>1. /\ handle' = [handle EXCEPT ![h].stage = IF ~m.ok THEN "failed" ELSE "done"]
          /\ slot' = PipesClosed(h) /\ UNCHANGED serving
      BY <2>1, <2>3 DEF TakeAnswer
    <3>2. Answered(h)
      BY <1>1, <1>2, <2>2, <2>3, <3>1, LastAnswer
    <3> QED BY <1>1, <1>2, <2>2, <3>2, AnswerKeeps
  <2>4. CASE m.ok /\ handle[h].stage # "outcome"
    <3> DEFINE t == CASE m.what = "spawn" -> Flushed(handle[h])
                      [] m.what = "read" -> Mirrored(handle[h], m.at)
                      [] OTHER -> handle[h]
    <3>1. /\ handle' = [handle EXCEPT ![h] = [t EXCEPT !.stage = NextRequest(h)]]
          /\ Ask(h, NextRequest(h)) /\ UNCHANGED slot
      BY <2>1, <2>4 DEF TakeAnswer
    <3>2. Answered(h)
      BY <1>1, <1>2, <2>2, <2>4, <3>1, NextAnswer
    <3> QED BY <1>1, <1>2, <2>2, <3>2, AnswerKeeps
  <2> QED BY <2>3, <2>4
<1> QED BY <1>2, <1>3, <1>4, <1>5 DEF Request

-----------------------------------------------------------------------------
(* A stream nobody takes over                                              *)

\* What was pushed of a process that left nothing behind has all been heard.
StreamsWhole ==
  \A h \in Piped : handle[h].stage = "done" /\ ~proc[h].cut /\ ~proc[h].abandoned =>
    handle[h].heard = Upto(proc[h].printed)

(* A process that has been started is there for good, and only moves on.     *)
LEMMA ProcessesAdvance ==
  ASSUME ProcessesSound, ProcessNext, NEW h \in Handles, proc[h].leader # "none"
  PROVE  Advances(proc[h], proc'[h])
<1> USE DEF ProcessesSound
<1>1. proc \in [Handles -> Proc] /\ \A g \in Handles : ProcSound(proc[g])
  BY DEF ShapesOK
<1>2. proc'[h] = proc[h] => Advances(proc[h], proc'[h])
  BY DEF Advances
<1>3. CASE Receive \/ LinkDrops
  BY <1>2, <1>3 DEF Receive, LinkDrops
<1>4. CASE CloseProcesses
  <2>1. proc'[h] = Disposed(proc[h]) /\ ~proc[h].disposed
    BY <1>4 DEF CloseProcesses, Closing
  <2> QED BY <1>1, <2>1, DisposedSound
<1>5. ASSUME NEW g \in Handles,
             \/ Capture(g) \/ ReaderEnds(g) \/ Reap(g) \/ Settle(g) \/ Escalate(g)
             \/ Prints(g) \/ Fork(g) \/ Exit(g)
      PROVE  Advances(proc[h], proc'[h])
  <2>1. Steps(g) /\ (g # h => proc'[h] = proc[h])
    BY <1>1, <1>5, ManagedSteps
  <2> QED BY <1>2, <2>1 DEF Steps, Step
<1>6. ASSUME NEW g \in Handles, Push(g) PROVE Advances(proc[h], proc'[h])
  <2>1. proc[g].inHand /\ proc' = [proc EXCEPT ![g] = Pushed(proc[g], HasRoom)]
    BY <1>6 DEF Push
  <2>2. HasRoom \in BOOLEAN
    BY DEF HasRoom
  <2>3. Step(proc[g], Pushed(proc[g], HasRoom))
    BY <1>1, <2>1, <2>2, PushedSteps
  <2>4. CASE g = h
    BY <1>1, <2>1, <2>3, <2>4 DEF Step
  <2>5. CASE g # h
    BY <1>1, <1>2, <2>1, <2>5
  <2> QED BY <2>4, <2>5
<1>7. ASSUME NEW g \in Handles, ServeSpawn(g) PROVE Advances(proc[h], proc'[h])
  <2>1. \E t \in serving[g] : t.what = "spawn" /\ ~t.served
    BY <1>7 DEF ServeSpawn, Serving
  <2>2. g # h
    BY <2>1 DEF Births
  <2>3. proc'[h] = proc[h]
    BY <1>1, <1>7, <2>2 DEF ServeSpawn
  <2> QED BY <1>2, <2>3
<1>8. ASSUME NEW g \in Handles, ServeTerminate(g) PROVE Advances(proc[h], proc'[h])
  <2>1. proc' = [proc EXCEPT ![g] = Terminated(proc[g])]
    BY <1>8 DEF ServeTerminate
  <2>2. CASE g = h
    <3>1. Signalled(proc[h], Terminated(proc[h]))
      BY <1>1, TerminatedSignals
    <3>2. Step(proc[h], Terminated(proc[h]))
      BY <1>1, <3>1, SignalledStep
    <3> QED BY <1>1, <2>1, <2>2, <3>2 DEF Step
  <2>3. CASE g # h
    BY <1>1, <1>2, <2>1, <2>3
  <2> QED BY <2>2, <2>3
<1>9. ASSUME NEW g \in Handles,
             ServeWait(g) \/ ServeFacts(g) \/ Respond(g) \/ Spawn(g) \/ Terminate(g)
      PROVE  Advances(proc[h], proc'[h])
  BY <1>2, <1>9 DEF ServeWait, ServeFacts, Respond, Spawn, Terminate
<1> QED BY <1>3, <1>4, <1>5, <1>6, <1>7, <1>8, <1>9
        DEF ProcessNext, Serve, Manage, World

(* A handle is done with the answer to its outcome, and as it was then.      *)
LEMMA DoneOnce ==
  ASSUME ProcessesSound, ProcessNext, NEW h \in Handles, handle'[h].stage = "done"
  PROVE  /\ handle[h].stage \in {"outcome", "done"}
         /\ handle'[h].heard = handle[h].heard /\ handle'[h].piped = handle[h].piped
<1> USE DEF ProcessesSound
<1>1. handle \in [Handles -> HandleShape] /\ "done" \notin Pending
  BY DEF ShapesOK, Pending
<1>2. CASE handle' = handle
  BY <1>2
<1>3. CASE LinkDrops
  BY <1>1, <1>3 DEF LinkDrops, HandleShape
<1>4. ASSUME NEW g \in Handles, Spawn(g) PROVE handle'[h] = handle[h]
  BY <1>1, <1>4 DEF Spawn, HandleShape
<1>5. ASSUME NEW g \in Handles, Terminate(g) PROVE handle'[h] = handle[h]
  BY <1>1, <1>5 DEF Terminate, Terminating, HandleShape
<1>6. CASE Receive
  <2> DEFINE m == outbound[1]
             g == m.of
  <2>1. /\ outbound # <<>> /\ outbound' = Tail(outbound)
        /\ Head(outbound) = m /\ m \in MessageShape /\ 1 \in 1 .. Len(outbound)
    BY <1>6, LeavesQueue DEF Receive
  <2>2. g \in Handles /\ m.what \in Request \cup {"frame"}
    BY <2>1 DEF MessageShape
  <2>3. CASE m.what = "frame"
    <3>1. TakeFrame(g, m)
      BY <1>6, <2>1, <2>3 DEF Receive
    <3>2. slot \in Handles \cup {None} /\ (slot = h => handle[h].stage \in Pending)
      BY HandlesAssumption DEF ShapesOK, SlotHolds
    <3> QED BY <1>1, <3>1, <3>2 DEF TakeFrame, HandleShape
  <2>4. CASE m.what = "terminate"
    BY <1>2, <1>6, <2>1, <2>4 DEF Receive, TakeAnswer
  <2>5. CASE m.what \in Pending
    <3>1. TakeAnswer(g, m) /\ m.what # "terminate"
      BY <1>6, <2>1, <2>5 DEF Receive, Pending
    <3>2. m.what = handle[g].stage
      BY <2>1, <2>2, <2>5 DEF OneRequest, Answer
    <3>3. CASE ~m.ok \/ handle[g].stage = "outcome"
      <4>1. handle' = [handle EXCEPT ![g].stage = IF ~m.ok THEN "failed" ELSE "done"]
        BY <3>1, <3>3 DEF TakeAnswer
      <4>2. CASE g = h
        <5>1. m.ok
          BY <1>1, <2>2, <4>1, <4>2 DEF HandleShape
        <5> QED BY <1>1, <2>2, <3>3, <4>1, <4>2, <5>1 DEF HandleShape
      <4>3. CASE g # h
        BY <1>1, <4>1, <4>3
      <4> QED BY <4>2, <4>3
    <3>4. CASE m.ok /\ handle[g].stage # "outcome"
      <4> DEFINE t == CASE m.what = "spawn" -> Flushed(handle[g])
                        [] m.what = "read" -> Mirrored(handle[g], m.at)
                        [] OTHER -> handle[g]
                 r == NextRequest(g)
      <4>1. handle' = [handle EXCEPT ![g] = [t EXCEPT !.stage = r]]
        BY <3>1, <3>4 DEF TakeAnswer
      <4>2. r # "done"
        BY <2>5, <3>2, <3>4 DEF NextRequest, Pending
      <4> HIDE DEF r
      <4>3. [t EXCEPT !.stage = r].stage = r
        BY <1>1, <2>2 DEF Flushed, Mirrored, HandleShape
      <4> HIDE DEF t
      <4>4. g # h
        BY <1>1, <2>2, <4>1, <4>2, <4>3
      <4> QED BY <1>1, <4>1, <4>4
    <3> QED BY <3>3, <3>4
  <2> QED BY <2>2, <2>3, <2>4, <2>5 DEF Request
<1>7. Receive \/ LinkDrops \/ handle' = handle
      \/ \E g \in Handles : Spawn(g) \/ Terminate(g)
  BY DEF ProcessNext, CloseProcesses, Serve, ServeSpawn, ServeTerminate, ServeWait,
         ServeFacts, Respond, Manage, Capture, Push, ReaderEnds, Reap, Settle,
         Escalate, World, Prints, Fork, Exit
<1> QED BY <1>2, <1>3, <1>4, <1>5, <1>6, <1>7

(* The outcome is asked for behind the last frame.                           *)
LEMMA HeardToTheEnd ==
  ASSUME ProcessesSound, NEW h \in Handles, handle[h].piped,
         handle[h].stage = "outcome", slot = h, ~proc[h].cut, ~proc[h].abandoned
  PROVE  handle[h].heard = Upto(proc[h].printed)
<1> USE DEF ProcessesSound
<1> DEFINE had == Len(Had(h))
<1>1. handle[h].heard \in Seq(0 .. Chunks) /\ had \in Nat
  BY HadIsSeq
<1>2. Had(h) = handle[h].heard
  <2>1. handle[h].buffered = <<>>
    BY DEF Births
  <2> QED BY <1>1, <2>1, ConcatEmptySeq DEF Had
<1>3. proc[h].left
  BY DEF WaitsHold, Waited
<1>4. /\ proc[h] \in Proc /\ ~proc[h].inHand /\ proc[h].captured = proc[h].printed
      /\ proc[h].printed \in Nat
  BY <1>3, SizesAssumption DEF ShapesOK, ProcSound, Proc
<1>5. PushedOf(proc[h]) = proc[h].printed /\ InFull(proc[h])
  BY <1>4, PushedIsNumber DEF InFull
<1>6. \A v : ~Underway(h, v)
  BY DEF FramesBeforeEnd, Underway
<1>7. h # None
  BY HandlesAssumption
<1>8. /\ had =< proc[h].printed
      /\ \A v \in had + 1 .. proc[h].printed : Underway(h, v)
  BY <1>5, <1>7 DEF FramesFollow
<1> HIDE DEF had
<1>9. had = proc[h].printed
  <2>1. SUFFICES ASSUME had < proc[h].printed PROVE FALSE
    BY <1>1, <1>4, <1>8
  <2>2. had + 1 \in had + 1 .. proc[h].printed
    BY <1>1, <1>4, <2>1
  <2> QED BY <1>6, <1>8, <2>2
<1>10. Had(h) = Upto(had)
  BY DEF HadInOrder, had
<1> QED BY <1>2, <1>9, <1>10

(* So a stream whose frames have a handler to the end is heard to the end.   *)
LEMMA StreamsStayWhole ==
  ASSUME ProcessesSound, NoChunkUnheard, StreamsWhole, [ProcessNext]_processVars
  PROVE  StreamsWhole'
<1> USE DEF ProcessesSound
<1>1. CASE UNCHANGED processVars
  BY <1>1 DEF processVars, StreamsWhole, Piped
<1>2. CASE ProcessNext
  <2>1. ASSUME NEW h \in Handles, handle'[h].piped, handle'[h].stage = "done",
               ~proc'[h].cut, ~proc'[h].abandoned
        PROVE  handle'[h].heard = Upto(proc'[h].printed)
    <3>1. /\ handle[h].stage \in {"outcome", "done"}
          /\ handle'[h].heard = handle[h].heard /\ handle[h].piped
      BY <1>2, <2>1, DoneOnce
    <3>2. proc[h].settled /\ ~Alive(proc[h]) /\ proc[h].leader # "none"
      BY <3>1 DEF WaitsHold, Waited, Births
    <3>3. Advances(proc[h], proc'[h])
      BY <1>2, <3>2, ProcessesAdvance
    <3>4. proc'[h].printed = proc[h].printed /\ ~proc[h].cut /\ ~proc[h].abandoned
      BY <2>1, <3>2, <3>3 DEF Advances
    <3>5. CASE handle[h].stage = "done"
      BY <3>1, <3>4, <3>5 DEF StreamsWhole, Piped
    <3>6. CASE handle[h].stage = "outcome"
      <4>1. slot = h
        BY <3>1, <3>6 DEF NoChunkUnheard, Piped
      <4> QED BY <3>1, <3>4, <3>6, <4>1, HeardToTheEnd
    <3> QED BY <3>1, <3>5, <3>6
  <2> QED BY <2>1 DEF StreamsWhole, Piped
<1> QED BY <1>1, <1>2

-----------------------------------------------------------------------------
(* The theorems                                                            *)

(* Nothing has been asked for, so there is nothing to be wrong.              *)
LEMMA ProcessesStart ==
  ASSUME ProcessInit
  PROVE  ProcessesSound
<1>1. /\ \A h \in Handles : /\ proc[h] = Unborn /\ serving[h] = {}
                            /\ handle[h] = NoHandle
      /\ outbound = <<>> /\ ~closed /\ link /\ slot = None
  BY DEF ProcessInit
<1>2. Len(outbound) = 0 /\ outbound \in Seq(MessageShape)
  BY <1>1
<1>3. 0 \in 0 .. Chunks /\ Len(outbound) =< Backlog
  BY <1>2, SizesAssumption
<1>4. Unborn.leader = "none" /\ ~Unborn.disposed
  BY DEF Unborn
<1>5. NoHandle \in HandleShape /\ NoHandle.stage = "new" /\ ~NoHandle.known
      /\ NoHandle.heard = <<>> /\ NoHandle.buffered = <<>>
  <2>1. <<>> \in Seq(0 .. Chunks)
    OBVIOUS
  <2> QED BY <1>3, <2>1 DEF NoHandle, HandleShape
<1>6. ShapesOK
  <2>1. Unborn \in Proc
    BY UnbornSound DEF ProcSound
  <2>2. proc \in [Handles -> Proc] /\ handle \in [Handles -> HandleShape]
        /\ serving \in [Handles -> SUBSET TaskShape]
    BY <1>5, <2>1 DEF ProcessInit
  <2>3. link \in BOOLEAN /\ closed \in BOOLEAN
    BY DEF ProcessInit
  <2> QED BY <1>1, <1>2, <1>3, <2>2, <2>3, UnbornSound DEF ShapesOK
<1>7. OneRequest
  BY <1>1, <1>2 DEF OneRequest
<1>8. Births
  BY <1>1, <1>2, <1>4, <1>5 DEF Births
<1>9. Closing
  BY <1>1, <1>4 DEF Closing
<1>10. \A h \in Handles : ~Waited(h)
  BY <1>1, <1>2, <1>5 DEF Waited
<1>11. WaitsHold
  BY <1>10 DEF WaitsHold
<1>12. ReadsHold
  BY <1>1, <1>2, <1>5 DEF ReadsHold
<1>13. HadInOrder
  <2>1. <<>> \o <<>> = <<>> /\ Len(<<>>) = 0 /\ Upto(0) = <<>>
    BY DEF Upto
  <2>2. \A h \in Handles : Had(h) = <<>>
    BY <1>1, <1>5, <2>1 DEF Had
  <2> QED BY <2>1, <2>2, SizesAssumption DEF HadInOrder
<1>14. SlotHolds /\ FramesFollow
  BY <1>1 DEF SlotHolds, FramesFollow
<1>15. FramesBeforeEnd
  BY <1>2 DEF FramesBeforeEnd
<1> QED BY <1>6, <1>7, <1>8, <1>9, <1>11, <1>12, <1>13, <1>14, <1>15
        DEF ProcessesSound

(* Every step keeps it.                                                      *)
LEMMA ProcessesGoOn ==
  ASSUME ProcessesSound, [ProcessNext]_processVars
  PROVE  ProcessesSound'
<1>1. CASE Receive
  BY <1>1, ReceiveKeeps
<1>2. CASE LinkDrops
  BY <1>2, LinkDropsKeeps
<1>3. CASE CloseProcesses
  BY <1>3, CloseKeeps
<1>4. ASSUME NEW h \in Handles, Serve(h) PROVE ProcessesSound'
  BY <1>4, ServeSpawnKeeps, ServeKeeps, RespondKeeps DEF Serve
<1>5. ASSUME NEW h \in Handles, Manage(h) \/ Escalate(h) PROVE ProcessesSound'
  BY <1>5, ManageKeeps, PushKeeps DEF Manage
<1>6. ASSUME NEW h \in Handles, World(h) PROVE ProcessesSound'
  BY <1>6, ManageKeeps, SpawnKeeps, TerminateKeeps DEF World
<1>7. CASE UNCHANGED processVars
  <2> USE <1>7 DEF processVars, ProcessesSound
  <2>1. ShapesOK' /\ OneRequest'
    BY DEF ShapesOK, OneRequest, Answer
  <2>2. Births' /\ Closing'
    BY DEF Births, Closing
  <2>3. WaitsHold' /\ ReadsHold'
    BY DEF Waited, WaitsHold, ReadsHold
  <2>4. HadInOrder' /\ SlotHolds'
    BY DEF Had, HadInOrder, SlotHolds
  <2>5. FramesFollow'
    BY DEF Had, Frame, Underway, FramesFollow
  <2>6. FramesBeforeEnd'
    BY DEF Frame, FramesBeforeEnd
  <2> QED BY <2>1, <2>2, <2>3, <2>4, <2>5, <2>6
<1> QED BY <1>1, <1>2, <1>3, <1>4, <1>5, <1>6, <1>7 DEF ProcessNext

(* The inductive invariant of the subprocesses of one connection.            *)
THEOREM SubprocessesSound == ProcessSpec => []ProcessesSound
<1>1. ProcessInit => ProcessesSound
  BY ProcessesStart
<1>2. ProcessesSound /\ [ProcessNext]_processVars => ProcessesSound'
  BY ProcessesGoOn
<1> QED BY <1>1, <1>2, PTL DEF ProcessSpec

(* Done means gone and fetched, a closed connection runs nothing but a       *)
(* survivor of what had settled, and the queue keeps its bound: whatever     *)
(* exits, kills, closes and answers there are, in any order.                 *)
THEOREM HandlesTellTheProcess == ProcessSpec => []ProcessInv
<1>1. ASSUME ProcessesSound PROVE ProcessInv
  <2> USE <1>1 DEF ProcessesSound
  <2>1. ProcessTypeOK
    BY DEF ShapesOK, Proc, ProcessTypeOK
  <2>2. MirrorIsComplete
    <3>1. ASSUME NEW h \in Handles \ Piped, handle[h].stage = "done", ~proc[h].cut
          PROVE  /\ handle[h].upTo = proc[h].printed
                 /\ handle[h].upTo - handle[h].from
                      = IF proc[h].printed > Window THEN Window ELSE proc[h].printed
      <4>1. /\ handle[h].upTo = proc[h].printed
            /\ handle[h].from = Newest(proc[h].printed)
        BY <3>1 DEF ReadsHold, Piped
      <4>2. proc[h].printed \in Nat /\ Window \in Nat
        BY SizesAssumption DEF ShapesOK, Proc
      <4> QED BY <4>1, <4>2 DEF Newest
    <3> QED BY <3>1 DEF MirrorIsComplete
  <2>3. DoneIsGone
    BY DEF WaitsHold, Waited, DoneIsGone
  <2>4. ClosedRangesEnd
    <3>1. ASSUME NEW h \in Handles, closed
          PROVE  proc[h].leader # "running" /\ (proc[h].child = "running" => proc[h].facts)
      <4>1. ProcSound(proc[h]) /\ (proc[h].leader = "none" \/ proc[h].disposed)
        BY <3>1 DEF ShapesOK, Closing
      <4>2. CASE proc[h].leader = "none"
        <5>1. proc[h] = Unborn
          BY <4>1, <4>2 DEF ProcSound
        <5> QED BY <5>1 DEF Unborn
      <4>3. CASE proc[h].disposed
        BY <4>1, <4>3 DEF ProcSound
      <4> QED BY <4>1, <4>2, <4>3
    <3> QED BY <3>1 DEF ClosedRangesEnd
  <2> QED BY <2>1, <2>2, <2>3, <2>4 DEF ProcessInv
<1> QED BY <1>1, SubprocessesSound, PTL

(* A prefix of what is counted up to n is what is counted up to less.        *)
LEMMA UptoIsPrefix ==
  ASSUME NEW n \in Nat, NEW m \in Nat, m =< n
  PROVE  IsPrefix(Upto(m), Upto(n))
<1>1. Upto(m) \in Seq(Nat) /\ Len(Upto(m)) = m /\ Upto(n) \in Seq(Nat) /\ Len(Upto(n)) = n
  BY UptoNext
<1>2. SubSeq(Upto(m), 1, m) = [i \in 1 .. m |-> Upto(m)[i]]
  BY <1>1
<1>3. SubSeq(Upto(n), 1, m) = [i \in 1 .. m |-> Upto(n)[i]]
  BY <1>1
<1>4. \A i \in 1 .. m : Upto(m)[i] = Upto(n)[i]
  BY DEF Upto
<1>5. SubSeq(Upto(m), 1, m) = SubSeq(Upto(n), 1, m)
  BY <1>2, <1>3, <1>4
<1> QED BY <1>1, <1>5 DEF IsPrefix

(* What a handle has had of its stream is what was printed first, in order   *)
(* and without a gap, held frames included, whoever takes the handler over.  *)
THEOREM StreamsInOrder ==
  ProcessSpec => [](\A h \in Handles : IsPrefix(Had(h), Upto(Chunks)))
<1>1. ASSUME ProcessesSound, NEW h \in Handles PROVE IsPrefix(Had(h), Upto(Chunks))
  <2>1. Len(Had(h)) \in Nat /\ Len(Had(h)) =< Chunks /\ Had(h) = Upto(Len(Had(h)))
    BY <1>1, HadIsSeq DEF ProcessesSound, HadInOrder
  <2> QED BY <2>1, UptoIsPrefix, SizesAssumption
<1>2. ProcessesSound => \A h \in Handles : IsPrefix(Had(h), Upto(Chunks))
  BY <1>1
<1> QED BY <1>2, SubprocessesSound, PTL

(* Such a stream is the print.                                               *)
LEMMA PrintIsHeard ==
  ASSUME ProcessesSound, StreamsWhole
  PROVE  PipeIsThePrint
<1>1. \A h \in Handles : IsPrefix(Had(h), Upto(Chunks))
  <2>1. ASSUME NEW h \in Handles
        PROVE  Len(Had(h)) \in Nat /\ Len(Had(h)) =< Chunks /\ Had(h) = Upto(Len(Had(h)))
    BY HadIsSeq DEF ProcessesSound, HadInOrder
  <2> QED BY <2>1, UptoIsPrefix, SizesAssumption
<1> QED BY <1>1 DEF PipeIsThePrint, StreamsWhole, Had, Piped

LEMMA NothingDoneAtFirst ==
  ASSUME ProcessInit
  PROVE  StreamsWhole
<1>1. \A h \in Handles : handle[h] = NoHandle
  BY DEF ProcessInit
<1> QED BY <1>1 DEF StreamsWhole, Piped, NoHandle

(* A pushed stream is the print, all of it once its handle is done, as long  *)
(* as no handle loses the connection's one handler before it ends: the claim *)
(* of subprocess.ts 225, which the run pipe_slot refutes for two processes.  *)
THEOREM StreamsAreThePrint ==
  ProcessSpec /\ []NoChunkUnheard => []PipeIsThePrint
<1>1. ProcessInit => StreamsWhole
  BY NothingDoneAtFirst
<1>2. ProcessesSound /\ NoChunkUnheard /\ StreamsWhole /\ [ProcessNext]_processVars
        => StreamsWhole'
  BY StreamsStayWhole
<1>3. ProcessesSound /\ StreamsWhole => PipeIsThePrint
  BY PrintIsHeard
<1> QED BY <1>1, <1>2, <1>3, SubprocessesSound, PTL DEF ProcessSpec

\* The plugin pipes one process of the connection, beside any it collects from.
OnePipe == \A g, h \in Piped : g = h

SlotKept == \A h \in Piped : handle[h].stage \in Pending => slot = h

(* Then only the handle that ends gives the handler up.                      *)
LEMMA SlotStaysKept ==
  ASSUME ProcessesSound, SlotKept, OnePipe, OnePipe', [ProcessNext]_processVars
  PROVE  SlotKept'
<1> USE DEF ProcessesSound
<1>1. handle \in [Handles -> HandleShape] /\ {"done", "failed"} \cap Pending = {}
  BY DEF ShapesOK, Pending
<1>2. CASE UNCHANGED <<handle, slot>>
  BY <1>2 DEF SlotKept, Piped
<1>3. CASE LinkDrops
  <2>1. \A h \in Handles : handle'[h].stage \notin Pending
    BY <1>1, <1>3 DEF LinkDrops, HandleShape
  <2> QED BY <2>1 DEF SlotKept, Piped
<1>4. ASSUME NEW g \in Handles, Spawn(g) PROVE SlotKept'
  <2>1. PICK piped \in BOOLEAN :
          /\ handle' = [handle EXCEPT ![g].stage = "spawn", ![g].piped = piped]
          /\ slot' = IF piped THEN g ELSE slot
    BY <1>4 DEF Spawn
  <2>2. handle'[g].piped = piped /\ \A h \in Handles : h # g => handle'[h] = handle[h]
    BY <1>1, <2>1 DEF HandleShape
  <2>3. CASE piped
    BY <2>1, <2>2, <2>3 DEF SlotKept, Piped, OnePipe
  <2>4. CASE ~piped
    BY <2>1, <2>2, <2>4 DEF SlotKept, Piped
  <2> QED BY <2>3, <2>4
<1>5. ASSUME \A h \in Handles : /\ handle'[h].piped = handle[h].piped
                                /\ handle'[h].stage \in Pending => handle[h].stage \in Pending,
             slot' = slot
      PROVE  SlotKept'
  BY <1>5 DEF SlotKept, Piped
<1>6. ASSUME NEW g \in Handles, Terminate(g) PROVE SlotKept'
  <2>1. \A h \in Handles : /\ handle'[h].piped = handle[h].piped
                           /\ handle'[h].stage = handle[h].stage
    BY <1>1, <1>6 DEF Terminate, Terminating, HandleShape
  <2> QED BY <1>5, <1>6, <2>1 DEF Terminate
<1>7. CASE Receive
  <2> DEFINE m == outbound[1]
             g == m.of
  <2>1. /\ outbound # <<>> /\ outbound' = Tail(outbound)
        /\ Head(outbound) = m /\ m \in MessageShape /\ 1 \in 1 .. Len(outbound)
    BY <1>7, LeavesQueue DEF Receive
  <2>2. g \in Handles /\ m.what \in Request \cup {"frame"}
    BY <2>1 DEF MessageShape
  <2>3. CASE m.what = "frame"
    <3>1. TakeFrame(g, m)
      BY <1>7, <2>1, <2>3 DEF Receive
    <3>2. slot \in Handles \cup {None}
      BY DEF ShapesOK
    <3>3. \A h \in Handles : /\ handle'[h].piped = handle[h].piped
                             /\ handle'[h].stage = handle[h].stage
      BY <1>1, <3>1, <3>2 DEF TakeFrame, HandleShape
    <3> QED BY <1>5, <3>1, <3>3 DEF TakeFrame
  <2>4. CASE m.what = "terminate"
    BY <1>2, <1>7, <2>1, <2>4 DEF Receive, TakeAnswer
  <2>5. CASE m.what \in Pending
    <3>1. TakeAnswer(g, m) /\ m.what # "terminate"
      BY <1>7, <2>1, <2>5 DEF Receive, Pending
    <3>2. m.what = handle[g].stage
      BY <2>1, <2>2, <2>5 DEF OneRequest, Answer
    <3>3. CASE ~m.ok \/ handle[g].stage = "outcome"
      <4>1. /\ handle' = [handle EXCEPT ![g].stage = IF ~m.ok THEN "failed" ELSE "done"]
            /\ slot' = PipesClosed(g)
        BY <3>1, <3>3 DEF TakeAnswer
      <4>2. /\ handle'[g].stage \notin Pending /\ handle'[g].piped = handle[g].piped
            /\ \A h \in Handles : h # g => handle'[h] = handle[h]
        BY <1>1, <2>2, <4>1 DEF HandleShape
      <4>3. CASE handle[g].piped
        BY <2>2, <4>2, <4>3 DEF SlotKept, Piped, OnePipe
      <4>4. CASE ~handle[g].piped
        BY <2>2, <4>1, <4>2, <4>4 DEF SlotKept, Piped, PipesClosed
      <4> QED BY <4>3, <4>4
    <3>4. CASE m.ok /\ handle[g].stage # "outcome"
      <4> DEFINE t == CASE m.what = "spawn" -> Flushed(handle[g])
                        [] m.what = "read" -> Mirrored(handle[g], m.at)
                        [] OTHER -> handle[g]
                 r == NextRequest(g)
      <4>1. handle' = [handle EXCEPT ![g] = [t EXCEPT !.stage = r]] /\ slot' = slot
        BY <3>1, <3>4 DEF TakeAnswer
      <4> HIDE DEF r
      <4>2. [t EXCEPT !.stage = r].piped = handle[g].piped
        BY <1>1, <2>2 DEF Flushed, Mirrored, HandleShape
      <4> HIDE DEF t
      <4>3. \A h \in Handles : h # g => handle'[h] = handle[h]
        BY <1>1, <4>1
      <4>4. handle'[g].piped = handle[g].piped
        BY <1>1, <2>2, <4>1, <4>2
      <4> QED BY <1>5, <2>5, <3>2, <4>1, <4>3, <4>4
    <3> QED BY <3>3, <3>4
  <2> QED BY <2>2, <2>3, <2>4, <2>5 DEF Request
<1>8. \/ Receive \/ LinkDrops \/ UNCHANGED <<handle, slot>>
      \/ \E g \in Handles : Spawn(g) \/ Terminate(g)
  BY DEF ProcessNext, CloseProcesses, Serve, ServeSpawn, ServeTerminate, ServeWait,
         ServeFacts, Respond, Manage, Capture, Push, ReaderEnds, Reap, Settle,
         Escalate, World, Prints, Fork, Exit, processVars
<1> QED BY <1>2, <1>3, <1>4, <1>6, <1>7, <1>8

(* One piped process of a connection, whatever else runs over it, is heard   *)
(* whole: frames that raced its spawn's answer, a slow client and answers    *)
(* that overtake each other included.                                        *)
THEOREM OneStreamIsThePrint ==
  ProcessSpec /\ []OnePipe => []PipeIsThePrint
<1>1. ProcessInit => SlotKept
  BY DEF ProcessInit, SlotKept, Piped, NoHandle
<1>2. ProcessesSound /\ SlotKept /\ OnePipe /\ OnePipe' /\ [ProcessNext]_processVars
        => SlotKept'
  BY SlotStaysKept
<1>3. SlotKept => NoChunkUnheard
  BY DEF SlotKept, NoChunkUnheard, Pending
<1> QED BY <1>1, <1>2, <1>3, SubprocessesSound, StreamsAreThePrint, PTL DEF ProcessSpec

=============================================================================
