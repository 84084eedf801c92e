------------------------ MODULE AgentTerminalProofs ------------------------
(***************************************************************************)
(* Proofs about AgentTerminal, for any number of reads, any amount of      *)
(* output and any size of the window; and about the proxy over it          *)
(* (RemoteTty): what the daemon promises holds under the proxy's requests  *)
(* too, the follow loop publishes without a silent gap, and an ended       *)
(* stream is written to by nobody.                                         *)
(***************************************************************************)
EXTENDS RemoteTty, SequenceTheorems, TLAPS

-----------------------------------------------------------------------------
(* The inductive invariant *)

\* A read that has looked and was not woken since knows the window's end, and
\* one that sleeps knows that there are no exit facts.
ReadsKnow ==
  \A r \in Reads :
    /\ read[r].phase \in {"looked", "asleep"} /\ ~read[r].woken =>
         read[r].upto = total
    /\ read[r].phase = "asleep" /\ ~read[r].woken => ~outcome

\* The table is emptied only behind its closed flag.
DrainedIsClosed == drained => closed

AgentInv == AgentTypeOK /\ ReadsKnow /\ DrainedIsClosed /\ NoSurvivor

-----------------------------------------------------------------------------
(* Type correctness *)


(* A notification leaves every read with its shape.                          *)
LEMMA WakeType ==
  ASSUME read \in [Reads -> Read], Wake
  PROVE  read' \in [Reads -> Read]
<1>1. \A r \in Reads : [read[r] EXCEPT !.woken = TRUE] \in Read
  BY DEF Read
<1> QED BY <1>1 DEF Wake

(* The offsets a read keeps are within the bound on output.                  *)
LEMMA WindowBounds ==
  ASSUME AgentTypeOK
  PROVE  total \in 0 .. MaxBytes /\ dropped \in 0 .. MaxBytes
BY WindowAssumption DEF AgentTypeOK, Larger

(* The window stays exactly the newest output up to its cap (push).          *)
LEMMA PushType ==
  ASSUME AgentTypeOK, NEW n \in 1 .. MaxBytes, total + n <= printed, Push(n)
  PROVE  total' \in 0 .. printed /\ dropped' = Larger(0, total' - Window)
BY WindowAssumption DEF AgentTypeOK, Push, Larger

(* The window and the process start and stay within their types.             *)
LEMMA AgentInitType == AgentInit => AgentTypeOK
<1> SUFFICES ASSUME AgentInit PROVE AgentTypeOK
  OBVIOUS
<1>1. NoRead \in Read
  BY WindowAssumption DEF NoRead, Read
<1>2. read \in [Reads -> Read]
  BY <1>1 DEF AgentInit
<1>3. 0 = Larger(0, 0 - Window)
  BY WindowAssumption DEF Larger
<1>4. dropped = Larger(0, total - Window)
  BY <1>3 DEF AgentInit
<1>5. printed \in 0 .. MaxBytes /\ total \in 0 .. printed
  BY WindowAssumption DEF AgentInit
<1> QED BY <1>2, <1>4, <1>5 DEF AgentInit, AgentTypeOK

(* A step of one read leaves every read with its shape.                      *)
LEMMA ReadStepType ==
  ASSUME AgentTypeOK, NEW r \in Reads, ReadStep(r) \/ ReadAsks(r) \/ ReadEnds(r)
  PROVE  read' \in [Reads -> Read]
<1>1. read \in [Reads -> Read] /\ read[r] \in Read /\ outcome \in BOOLEAN
  BY DEF AgentTypeOK
<1>2. NoRead \in Read
  BY WindowAssumption DEF NoRead, Read
<1>3. CASE ReadLooks(r)
  BY <1>1, <1>3, WindowBounds DEF ReadLooks, Read
<1>4. CASE ReadDecides(r)
  <2>1. Answer(r) \in Read /\ [read[r] EXCEPT !.phase = "asleep"] \in Read
    BY <1>1 DEF Answer, Read
  <2> QED BY <1>1, <1>4, <2>1 DEF ReadDecides
<1>5. CASE ReadWakes(r)
  <2>1. [NoRead EXCEPT !.phase = "begun", !.from = read[r].from,
                       !.late = read[r].late] \in Read
    BY <1>1, <1>2 DEF Read
  <2> QED BY <1>1, <1>5, <2>1 DEF ReadWakes
<1>6. CASE ReadExpires(r)
  BY <1>1, <1>6 DEF ReadExpires, Read
<1>7. CASE ReadAsks(r)
  <2>1. PICK from \in 0 .. total : read' = [read EXCEPT ![r] = Begun(from)]
    BY <1>7 DEF ReadAsks
  <2>2. from \in 0 .. MaxBytes
    BY WindowBounds, WindowAssumption
  <2>3. Begun(from) \in Read
    BY <1>2, <2>2 DEF Begun, Read
  <2> QED BY <1>1, <2>1, <2>3
<1>8. CASE ReadEnds(r)
  BY <1>1, <1>2, <1>8 DEF ReadEnds
<1> QED BY <1>3, <1>4, <1>5, <1>6, <1>7, <1>8 DEF ReadStep

-----------------------------------------------------------------------------
(* Every step keeps the invariant *)

\* The steps that neither notify nor touch a read.
QuietStep ==
  \/ Forks \/ SessionStep \/ Lands \/ ReaderEnds \/ Reaps \/ LadderStep
  \/ CloseDrains \/ CloseFlags \/ TerminateAsks

(* A quiet step leaves reads, window and facts alone.                        *)
LEMMA QuietKeeps ==
  ASSUME QuietStep
  PROVE  UNCHANGED <<read, total, dropped, outcome>>
BY DEF QuietStep, Forks, SessionStep, Prints, ChildStarts, ChildrenEnd,
       LeaderEnds, Lands, ReaderEnds, Reaps, LadderStep, LadderGone,
       LadderEscalates, CloseDrains, CloseFlags, TerminateAsks, windowVars

(* And keeps the types and the table's part of the invariant.                *)
LEMMA QuietInv ==
  ASSUME AgentInv, QuietStep
  PROVE  AgentInv'
<1> USE DEF AgentInv
<1>1. UNCHANGED <<read, total, dropped, outcome>>
  BY QuietKeeps
<1>2. ReadsKnow'
  BY <1>1 DEF ReadsKnow
<1>3. AgentTypeOK'
  <2>1. dropped' = Larger(0, total' - Window)
    BY <1>1 DEF AgentTypeOK
  <2>2. printed' \in 0 .. MaxBytes /\ total' \in 0 .. printed'
    <3>1. printed' = printed \/ (printed < MaxBytes /\ printed' = printed + 1)
      BY DEF QuietStep, Forks, SessionStep, Prints, ChildStarts, ChildrenEnd,
             LeaderEnds, Lands, ReaderEnds, Reaps, LadderStep, LadderGone,
             LadderEscalates, CloseDrains, CloseFlags, TerminateAsks,
             sessionVars, windowVars, tableVars
    <3> QED BY <1>1, <3>1, WindowAssumption DEF AgentTypeOK
  <2>3. /\ leader' \in {"none", "running", "zombie", "reaped"}
        /\ members' \in BOOLEAN /\ killed' \in BOOLEAN
        /\ reader' \in {"off", "running", "ended"}
    BY DEF AgentTypeOK, QuietStep, Forks, SessionStep, Prints, ChildStarts, ChildrenEnd,
           LeaderEnds, Lands, ReaderEnds, Reaps, LadderStep, LadderGone,
           LadderEscalates, CloseDrains, CloseFlags, TerminateAsks,
           sessionVars, windowVars, tableVars
  <2>4. /\ table' \in {"none", "forked", "in", "gone"}
        /\ closed' \in BOOLEAN /\ drained' \in BOOLEAN
        /\ ladder' \in {"none", "term", "kill", "gone", "refused"}
    BY DEF AgentTypeOK, QuietStep, Forks, SessionStep, Prints, ChildStarts, ChildrenEnd,
           LeaderEnds, Lands, ReaderEnds, Reaps, LadderStep, LadderGone,
           LadderEscalates, CloseDrains, CloseFlags, TerminateAsks,
           sessionVars, windowVars, tableVars
  <2> QED BY <1>1, <2>1, <2>2, <2>3, <2>4 DEF AgentTypeOK
<1>4. DrainedIsClosed' /\ NoSurvivor'
  BY DEF AgentTypeOK, DrainedIsClosed, NoSurvivor, QuietStep, Forks,
         SessionStep, Prints, ChildStarts, ChildrenEnd, LeaderEnds, Lands,
         ReaderEnds, Reaps, LadderStep, LadderGone, LadderEscalates,
         CloseDrains, CloseFlags, TerminateAsks, sessionVars, windowVars,
         tableVars
<1> QED BY <1>2, <1>3, <1>4

(* After a notification no read that has looked is left unwoken.             *)
LEMMA WakeKnows ==
  ASSUME AgentTypeOK, Wake
  PROVE  ReadsKnow'
<1> SUFFICES ASSUME NEW r \in Reads, read'[r].phase \in {"looked", "asleep"}
             PROVE  read'[r].woken
  BY DEF ReadsKnow
<1>1. read[r] \in Read
  BY DEF AgentTypeOK
<1>2. read[r].phase \in {"looked", "asleep"}
  BY DEF Wake
<1> QED BY <1>1, <1>2 DEF Wake, Read

(* The reader's push and the reaper's record notify.                         *)
LEMMA NotifyingInv ==
  ASSUME AgentInv, Records \/ \E n \in 1 .. MaxBytes : ReaderPushes(n)
  PROVE  AgentInv'
<1> USE DEF AgentInv
<1>1. Wake
  BY DEF Records, ReaderPushes
<1>2. ReadsKnow'
  BY <1>1, WakeKnows
<1>3. read' \in [Reads -> Read]
  BY <1>1, WakeType DEF AgentTypeOK
<1>4. CASE Records
  <2>1. AgentTypeOK'
    BY <1>3, <1>4 DEF Records, AgentTypeOK, sessionVars, tableVars
  <2>2. DrainedIsClosed' /\ NoSurvivor'
    BY <1>4 DEF Records, DrainedIsClosed, NoSurvivor, sessionVars, tableVars
  <2> QED BY <1>2, <2>1, <2>2
<1>5. ASSUME NEW n \in 1 .. MaxBytes, ReaderPushes(n) PROVE AgentInv'
  <2>1. total' \in 0 .. printed /\ dropped' = Larger(0, total' - Window)
    BY <1>5, PushType DEF ReaderPushes
  <2>2. AgentTypeOK'
    BY <1>3, <1>5, <2>1
       DEF ReaderPushes, AgentTypeOK, sessionVars, tableVars, Larger
  <2>3. DrainedIsClosed' /\ NoSurvivor'
    BY <1>5 DEF ReaderPushes, DrainedIsClosed, NoSurvivor, sessionVars, tableVars
  <2> QED BY <1>2, <2>2, <2>3
<1> QED BY <1>4, <1>5

(* A read that looks learns the end of the window, and one that goes to      *)
(* sleep has seen that there are no exit facts.                              *)
LEMMA ReadKnows ==
  ASSUME AgentInv, NEW r \in Reads, ReadStep(r) \/ ReadAsks(r) \/ ReadEnds(r)
  PROVE  ReadsKnow'
<1> USE DEF AgentInv
<1>1. UNCHANGED <<total, outcome>>
  BY DEF ReadStep, ReadLooks, ReadDecides, ReadWakes, ReadExpires, ReadAsks,
         ReadEnds, RestOfAgent, windowVars
<1>2. \A q \in Reads : q # r => read'[q] = read[q]
  BY DEF AgentTypeOK, ReadStep, ReadLooks, ReadDecides, ReadWakes, ReadExpires,
         ReadAsks, ReadEnds
<1>3. read[r] \in Read
  BY DEF AgentTypeOK
<1>4. /\ read'[r].phase \in {"looked", "asleep"} /\ ~read'[r].woken =>
           read'[r].upto = total
      /\ read'[r].phase = "asleep" /\ ~read'[r].woken => ~outcome
  <2>1. CASE ReadLooks(r)
    BY <1>3, <2>1 DEF AgentTypeOK, ReadLooks, Read
  <2>2. CASE ReadDecides(r)
    BY <1>3, <2>2 DEF AgentTypeOK, ReadsKnow, ReadDecides, Answer, Answers, Read
  <2>3. CASE ReadWakes(r)
    BY <1>3, <2>3 DEF AgentTypeOK, ReadWakes, NoRead
  <2>4. CASE ReadExpires(r)
    BY <1>3, <2>4, SMTT(30) DEF AgentTypeOK, ReadsKnow, ReadExpires, Read
  <2>5. CASE ReadAsks(r)
    BY <2>5 DEF AgentTypeOK, ReadAsks, Begun, NoRead
  <2>6. CASE ReadEnds(r)
    BY <2>6 DEF AgentTypeOK, ReadEnds, NoRead
  <2> QED BY <2>1, <2>2, <2>3, <2>4, <2>5, <2>6 DEF ReadStep
<1> QED BY <1>1, <1>2, <1>4 DEF ReadsKnow

(* A step of a read changes nothing but the reads.                           *)
LEMMA ReadInv ==
  ASSUME AgentInv, NEW r \in Reads, ReadStep(r) \/ ReadAsks(r) \/ ReadEnds(r)
  PROVE  AgentInv'
<1> USE DEF AgentInv
<1>1. read' \in [Reads -> Read]
  BY ReadStepType
<1>2. UNCHANGED <<sessionVars, windowVars, tableVars, ladder>>
  BY DEF ReadStep, ReadLooks, ReadDecides, ReadWakes, ReadExpires, ReadAsks,
         ReadEnds, RestOfAgent
<1>3. AgentTypeOK'
  BY <1>1, <1>2 DEF AgentTypeOK, sessionVars, windowVars, tableVars
<1>4. DrainedIsClosed' /\ NoSurvivor'
  BY <1>2 DEF DrainedIsClosed, NoSurvivor, sessionVars, tableVars
<1> QED BY <1>3, <1>4, ReadKnows

(* The invariant holds at first.                                             *)
LEMMA InitAgentInv == AgentInit => AgentInv
<1> SUFFICES ASSUME AgentInit PROVE AgentInv
  OBVIOUS
<1>1. ReadsKnow
  BY DEF AgentInit, ReadsKnow, NoRead
<1>2. DrainedIsClosed /\ NoSurvivor
  BY DEF AgentInit, DrainedIsClosed, NoSurvivor
<1> QED BY <1>1, <1>2, AgentInitType DEF AgentInv

(* Every step of the daemon and of the session keeps it.                     *)
LEMMA NextAgentInv == AgentInv /\ [AgentNext]_agentVars => AgentInv'
<1> SUFFICES ASSUME AgentInv, [AgentNext]_agentVars PROVE AgentInv'
  OBVIOUS
<1>1. CASE QuietStep
  BY <1>1, QuietInv
<1>2. CASE Records \/ \E n \in 1 .. MaxBytes : ReaderPushes(n)
  BY <1>2, NotifyingInv
<1>3. CASE \E r \in Reads : ReadStep(r) \/ ReadAsks(r) \/ ReadEnds(r)
  BY <1>3, ReadInv
<1>4. CASE UNCHANGED agentVars
  BY <1>4 DEF AgentInv, AgentTypeOK, ReadsKnow, DrainedIsClosed, NoSurvivor,
              agentVars, sessionVars, windowVars, tableVars
<1> QED
  BY <1>1, <1>2, <1>3, <1>4
     DEF AgentNext, DaemonStep, QuietStep, ReaderStep, ReaperStep

(* It is an invariant of the specification.                                  *)
LEMMA AgentInvariant == AgentSpec => []AgentInv
BY InitAgentInv, NextAgentInv, PTL DEF AgentSpec

-----------------------------------------------------------------------------
(* The theorems *)

(* The window holds exactly the newest output up to its cap, for every size  *)
(* of it, and everything else has its declared shape (StreamBuffer).         *)
THEOREM AgentTypeCorrect == AgentSpec => []AgentTypeOK
<1>1. AgentInv => AgentTypeOK
  BY DEF AgentInv
<1> QED BY <1>1, AgentInvariant, PTL

(* No read sleeps through output or exit facts, however many reads there are *)
(* (TerminalBackend::read registers before it looks).                        *)
THEOREM NoReadOversleepsHolds == AgentSpec => []NoReadOversleeps
<1>1. AgentInv => NoReadOversleeps
  BY DEF AgentInv, ReadsKnow, NoReadOversleeps
<1> QED BY <1>1, AgentInvariant, PTL

(* No session is left behind by a close, in whichever order it lands (the    *)
(* table lock of TerminalBackend::spawn and close).                          *)
THEOREM NoSurvivorHolds == AgentSpec => []NoSurvivor
<1>1. AgentInv => NoSurvivor
  BY DEF AgentInv
<1> QED BY <1>1, AgentInvariant, PTL

-----------------------------------------------------------------------------
(* The inductive invariant of the proxy *)

\* A read asks for nothing that was not pushed yet, and one that has looked at
\* the window keeps two marks of it in their order.
ReadsWithin ==
  \A r \in Reads :
    /\ read[r].phase \in {"begun", "looked", "asleep", "answered"} =>
         read[r].from =< total
    /\ read[r].phase \in {"looked", "asleep", "answered"} =>
         /\ read[r].from =< read[r].upto
         /\ read[r].first =< read[r].upto
         /\ read[r].upto =< total

\* A pull that has noted or published its answer still holds it.
PullsHold ==
  \A p \in Reads :
    pull[p].phase \in {"noted", "published"} => read[p].phase = "answered"

\* Before a teardown the loop pulls alone and for as long as the handle is
\* not settled; it reads from the proxy's offset, and has noted what it lost.
LoopAlone ==
  ~releasing =>
    /\ stop \in {"no", "over"}
    /\ pull["last"].phase = "idle"
    /\ Finished => pull["follow"].phase = "over"
    /\ \/ pull["follow"].phase = "asked" /\ read["follow"].phase # "refused"
       \/ pull["follow"].phase = "noted"
       => read["follow"].from = offset
    /\ pull["follow"].phase = "noted" /\ Lossy("follow") =>
         stream # <<>> /\ stream[Len(stream)] = Note

\* No unit is in the sequence twice.
Once(s) ==
  \A i, j \in 1 .. Len(s) : i < j /\ s[i] # Note => s[i] # s[j]

\* The sequence is what was published up to an offset.
FitsUpTo(s, end) ==
  /\ Follows(s) /\ Once(s)
  /\ \A i \in 1 .. Len(s) : s[i] =< end
  /\ s = <<>> => end = 0
  /\ s # <<>> => s[Len(s)] \in {Note, end}

StreamFits == ~releasing => FitsUpTo(stream, offset)

\* The proxy's state beside the daemon's.
ProxyTypeOK ==
  /\ link \in BOOLEAN /\ flowing \in BOOLEAN /\ releasing \in BOOLEAN
  /\ offset \in 0 .. total
  /\ stream \in Seq(0 .. MaxBytes)
  /\ settled \in {"no", "facts", "none"}
  /\ pull \in [Reads -> Pull]
  /\ stop \in Stop

ProxyInv ==
  AgentInv /\ ProxyTypeOK /\ ReadsWithin /\ PullsHold /\ LoopAlone /\ StreamFits

-----------------------------------------------------------------------------
(* What is appended to the stream *)

(* A note fits behind any stream (pull: "[output lost: n bytes]").           *)
LEMMA NoteFits ==
  ASSUME NEW end \in Nat, NEW s \in Seq(0 .. MaxBytes), FitsUpTo(s, end)
  PROVE  /\ s \o <<Note>> \in Seq(0 .. MaxBytes)
         /\ FitsUpTo(s \o <<Note>>, end)
         /\ s \o <<Note>> # <<>>
         /\ (s \o <<Note>>)[Len(s \o <<Note>>)] = Note
<1> DEFINE t == s \o <<Note>>
<1>1. <<Note>> \in Seq(0 .. MaxBytes)
  BY WindowAssumption DEF Note
<1>2. /\ t \in Seq(0 .. MaxBytes)
      /\ Len(t) = Len(s) + 1
      /\ \A i \in 1 .. Len(s) : t[i] = s[i]
      /\ t[Len(s) + 1] = Note
  BY <1>1
<1> HIDE DEF t
<1>3. Len(s) \in Nat
  OBVIOUS
<1>4. \A i \in 1 .. Len(t) : t[i] # Note => i \in 1 .. Len(s) /\ t[i] = s[i]
  BY <1>2, <1>3
<1>5. Follows(t)
  BY <1>2, <1>3, <1>4 DEF FitsUpTo, Follows
<1>6. Once(t)
  <2> SUFFICES ASSUME NEW i \in 1 .. Len(t), NEW j \in 1 .. Len(t),
                      i < j, t[i] # Note
               PROVE  t[i] # t[j]
    BY DEF Once
  <2>1. i \in 1 .. Len(s) /\ t[i] = s[i]
    BY <1>4
  <2>2. CASE j \in 1 .. Len(s)
    BY <1>2, <2>1, <2>2 DEF FitsUpTo, Once
  <2>3. CASE j = Len(s) + 1
    BY <1>2, <2>3
  <2> QED BY <1>2, <1>3, <2>2, <2>3
<1>7. \A i \in 1 .. Len(t) : t[i] =< end
  BY <1>2, <1>3 DEF FitsUpTo, Note
<1>8. t # <<>> /\ t[Len(t)] = Note
  BY <1>2, <1>3
<1> QED BY <1>2, <1>5, <1>6, <1>7, <1>8 DEF FitsUpTo, t

(* The units from one offset to a later one fit behind a stream that ends at *)
(* the first, or behind the note of what was lost before it.                 *)
LEMMA UnitsFit ==
  ASSUME NEW end \in Nat, NEW b \in Nat, NEW n \in Nat,
         NEW s \in Seq(0 .. MaxBytes), FitsUpTo(s, end),
         end =< b, b + n =< MaxBytes,
         b # end => s # <<>> /\ s[Len(s)] = Note,
         NEW u, u = [i \in 1 .. n |-> b + i]
  PROVE  s \o u \in Seq(0 .. MaxBytes) /\ FitsUpTo(s \o u, b + n)
<1> DEFINE t == s \o u
<1>1. u \in Seq(0 .. MaxBytes) /\ Len(u) = n
  <2>1. \A i \in 1 .. n : b + i \in 0 .. MaxBytes
    BY WindowAssumption
  <2>2. u \in [1 .. n -> 0 .. MaxBytes]
    BY <2>1
  <2>3. u \in Seq(0 .. MaxBytes)
    BY <2>2, SeqDef
  <2>4. 1 .. Len(u) = 1 .. n /\ Len(u) \in Nat
    BY <2>2, <2>3, LenProperties
  <2> QED BY <2>3, <2>4
<1>2. /\ t \in Seq(0 .. MaxBytes)
      /\ Len(t) = Len(s) + n
      /\ \A i \in 1 .. Len(s) : t[i] = s[i]
  BY <1>1
<1>3. \A i \in 1 .. n : t[Len(s) + i] = b + i
  BY <1>1
<1>4. Len(s) \in Nat
  OBVIOUS
<1> HIDE DEF t
<1>5. \A i \in Len(s) + 1 .. Len(t) : t[i] = b + (i - Len(s))
  <2> SUFFICES ASSUME NEW i \in Len(s) + 1 .. Len(t)
               PROVE  t[i] = b + (i - Len(s))
    OBVIOUS
  <2>1. i - Len(s) \in 1 .. n /\ Len(s) + (i - Len(s)) = i
    BY <1>2, <1>4
  <2> QED BY <1>3, <2>1
<1>6. \A i \in 1 .. Len(s) : s[i] =< end /\ s[i] \in Int
  <2>1. \A i \in 1 .. Len(s) : s[i] \in 0 .. MaxBytes
    BY ElementOfSeq
  <2> QED BY <2>1, WindowAssumption DEF FitsUpTo
<1>7. Follows(t)
  <2> SUFFICES ASSUME NEW i \in 1 .. Len(t), t[i] # Note
               PROVE  \/ i = 1 /\ t[i] = 1
                      \/ i > 1 /\ (t[i - 1] = Note \/ t[i] = t[i - 1] + 1)
    BY DEF Follows
  <2>1. CASE i \in 1 .. Len(s)
    <3>1. i > 1 => i - 1 \in 1 .. Len(s)
      BY <2>1
    <3> QED BY <1>2, <2>1, <3>1 DEF FitsUpTo, Follows
  <2>2. CASE i = Len(s) + 1 /\ s = <<>>
    <3>1. end = 0 /\ b = 0 /\ Len(s) = 0
      BY <2>2 DEF FitsUpTo
    <3> QED BY <1>2, <1>5, <2>2, <3>1
  <2>3. CASE i = Len(s) + 1 /\ s # <<>>
    <3>1. Len(s) \in 1 .. Len(s)
      BY <1>4, <2>3
    <3>2. t[i - 1] = s[Len(s)] /\ t[i] = b + 1 /\ i > 1
      BY <1>2, <1>4, <1>5, <2>3, <3>1
    <3>3. s[Len(s)] = Note \/ (b = end /\ s[Len(s)] = end)
      BY <2>3 DEF FitsUpTo
    <3> QED BY <3>2, <3>3
  <2>4. CASE i > Len(s) + 1
    <3>1. i \in Len(s) + 1 .. Len(t) /\ i - 1 \in Len(s) + 1 .. Len(t)
      BY <1>2, <1>4, <2>4
    <3>2. t[i] = b + (i - Len(s)) /\ t[i - 1] = b + (i - 1 - Len(s))
      BY <1>5, <3>1
    <3> QED BY <1>4, <2>4, <3>2
  <2> QED BY <1>2, <1>4, <2>1, <2>2, <2>3, <2>4
<1>8. Once(t)
  <2> SUFFICES ASSUME NEW i \in 1 .. Len(t), NEW j \in 1 .. Len(t),
                      i < j, t[i] # Note
               PROVE  t[i] # t[j]
    BY DEF Once
  <2>1. CASE j \in 1 .. Len(s)
    <3>1. i \in 1 .. Len(s)
      BY <1>2, <1>4, <2>1
    <3> QED BY <1>2, <2>1, <3>1 DEF FitsUpTo, Once
  <2>2. CASE i \in 1 .. Len(s) /\ j \in Len(s) + 1 .. Len(t)
    BY <1>2, <1>4, <1>5, <1>6, <2>2
  <2>3. CASE i \in Len(s) + 1 .. Len(t) /\ j \in Len(s) + 1 .. Len(t)
    BY <1>4, <1>5, <2>3
  <2> QED BY <1>2, <1>4, <2>1, <2>2, <2>3
<1>9. \A i \in 1 .. Len(t) : t[i] =< b + n
  <2> SUFFICES ASSUME NEW i \in 1 .. Len(t) PROVE t[i] =< b + n
    OBVIOUS
  <2>1. CASE i \in 1 .. Len(s)
    BY <1>2, <1>6, <2>1
  <2>2. CASE i \in Len(s) + 1 .. Len(t)
    BY <1>2, <1>4, <1>5, <2>2
  <2> QED BY <1>2, <1>4, <2>1, <2>2
<1>10. t = <<>> => b + n = 0
  <2>1. ASSUME t = <<>> PROVE n = 0 /\ s = <<>>
    BY <1>2, <1>4, <2>1
  <2> QED BY <2>1 DEF FitsUpTo
<1>11. t # <<>> => t[Len(t)] \in {Note, b + n}
  <2>1. CASE n = 0
    <3>1. t # <<>> => Len(s) \in 1 .. Len(s) /\ s # <<>> /\ Len(t) = Len(s)
      BY <1>2, <1>4, <2>1
    <3> QED BY <1>2, <2>1, <3>1 DEF FitsUpTo
  <2>2. CASE n # 0
    BY <1>2, <1>4, <1>5, <2>2
  <2> QED BY <2>1, <2>2
<1> QED BY <1>2, <1>7, <1>8, <1>9, <1>10, <1>11 DEF FitsUpTo, t

-----------------------------------------------------------------------------
(* The daemon under the proxy *)

\* A read that was just asked for, is refused, or is none.
FreshRead == {q \in Read : /\ q.phase \in {"none", "begun", "refused"}
                           /\ q.from =< total}

(* The proxy's own requests leave the daemon's invariant alone: they replace *)
(* reads by fresh ones and touch nothing else of it.                         *)
LEMMA FreshReadsKeep ==
  ASSUME AgentInv, ReadsWithin, RestOfDaemon,
         read' \in [Reads -> Read],
         \A r \in Reads : read'[r] = read[r] \/ read'[r] \in FreshRead
  PROVE  AgentInv' /\ ReadsWithin'
<1>1. UNCHANGED <<sessionVars, windowVars, tableVars, ladder>>
  BY DEF RestOfDaemon
<1>2. AgentTypeOK'
  BY <1>1 DEF AgentInv, AgentTypeOK, sessionVars, windowVars, tableVars
<1>3. DrainedIsClosed' /\ NoSurvivor'
  BY <1>1 DEF AgentInv, DrainedIsClosed, NoSurvivor, sessionVars, tableVars
<1>4. ReadsKnow'
  BY <1>1 DEF AgentInv, ReadsKnow, FreshRead, windowVars
<1>5. ReadsWithin'
  BY <1>1 DEF ReadsWithin, FreshRead, windowVars
<1> QED BY <1>2, <1>3, <1>4, <1>5 DEF AgentInv

(* Nor does a step that leaves the daemon alone.                             *)
LEMMA IdleDaemonKeeps ==
  ASSUME AgentInv, ReadsWithin, UNCHANGED agentVars
  PROVE  AgentInv' /\ ReadsWithin'
<1>1. AgentInv'
  BY NextAgentInv
<1>2. ReadsWithin'
  BY DEF ReadsWithin, agentVars, windowVars
<1> QED BY <1>1, <1>2

(* What a step of the daemon does to the reads the proxy asked for: one that *)
(* is answered stays so, and none forgets where it was to read from.         *)
LEMMA DaemonReads ==
  ASSUME AgentInv, ReadsWithin, DaemonGoesOn
  PROVE  /\ AgentInv' /\ ReadsWithin'
         /\ total =< total'
         /\ \A r \in Reads :
              /\ read'[r].from = read[r].from
              /\ read'[r].phase = "refused" <=> read[r].phase = "refused"
              /\ read[r].phase = "answered" => read'[r] = read[r]
<1> USE DEF AgentInv
<1>1. AgentInv'
  BY NextAgentInv DEF DaemonGoesOn, AgentNext
<1>2. total \in Nat /\ total' \in Nat
  BY <1>1, WindowAssumption DEF AgentTypeOK
<1>3. \A r \in Reads : read[r] \in Read
  BY DEF AgentTypeOK
<1>4. CASE QuietStep
  <2>1. UNCHANGED <<read, total>>
    BY <1>4, QuietKeeps
  <2> QED BY <1>1, <1>2, <2>1 DEF ReadsWithin
<1>5. CASE Records \/ \E n \in 1 .. MaxBytes : ReaderPushes(n)
  <2>1. Wake
    BY <1>5 DEF Records, ReaderPushes
  <2>2. total =< total'
    BY <1>2, <1>5, WindowAssumption DEF Records, ReaderPushes, Push
  <2>3. \A r \in Reads : \/ read'[r] = read[r]
                         \/ read'[r] = [read[r] EXCEPT !.woken = TRUE] /\ read[r].phase # "answered"
    BY <2>1 DEF Wake
  <2>4. \A r \in Reads : /\ read'[r].phase = read[r].phase
                         /\ read'[r].from = read[r].from
                         /\ read'[r].first = read[r].first
                         /\ read'[r].upto = read[r].upto
                         /\ read[r].phase = "answered" => read'[r] = read[r]
    BY <1>3, <2>3 DEF Read
  <2>5. \A r \in Reads : read[r].from \in Int /\ read[r].upto \in Int
    <3>1. \A r \in Reads : read[r].from \in 0 .. MaxBytes /\ read[r].upto \in 0 .. MaxBytes
      BY <1>3 DEF Read
    <3>2. \A n \in 0 .. MaxBytes : n \in Int
      OBVIOUS
    <3> QED BY <3>1, <3>2, Zenon
  <2>6. ReadsWithin'
    <3> SUFFICES ASSUME NEW r \in Reads
                 PROVE  /\ read'[r].phase \in {"begun", "looked", "asleep", "answered"} =>
                             read'[r].from =< total'
                        /\ read'[r].phase \in {"looked", "asleep", "answered"} =>
                             /\ read'[r].from =< read'[r].upto
                             /\ read'[r].first =< read'[r].upto
                             /\ read'[r].upto =< total'
      BY DEF ReadsWithin
    <3> QED BY <1>2, <2>2, <2>4, <2>5 DEF ReadsWithin
  <2> QED BY <1>1, <2>2, <2>4, <2>6
<1>6. CASE \E r \in Reads : ReadStep(r)
  <2>1. PICK r \in Reads : ReadStep(r)
    BY <1>6
  <2>2. total' = total /\ dropped' = dropped
    BY <2>1 DEF ReadStep, ReadLooks, ReadDecides, ReadWakes, ReadExpires,
                RestOfAgent, windowVars
  <2>3. \A q \in Reads : q # r => read'[q] = read[q]
    BY <2>1 DEF AgentTypeOK, ReadStep, ReadLooks, ReadDecides, ReadWakes,
                ReadExpires
  <2>4. dropped =< total
    BY WindowAssumption DEF AgentTypeOK, Larger
  <2> DEFINE Kept == /\ read'[r].from = read[r].from
                     /\ read'[r].phase # "refused" /\ read[r].phase # "refused"
                     /\ read[r].phase # "answered"
             Within == /\ read'[r].phase \in {"begun", "looked", "asleep", "answered"} =>
                            read'[r].from =< total
                       /\ read'[r].phase \in {"looked", "asleep", "answered"} =>
                            /\ read'[r].from =< read'[r].upto
                            /\ read'[r].first =< read'[r].upto
                            /\ read'[r].upto =< total
  <2>5. ASSUME ReadLooks(r) PROVE Kept /\ Within
    <3>1. read'[r] = [read[r] EXCEPT !.phase = "looked", !.first = dropped,
                                     !.upto = total]
      BY <1>3, <2>5 DEF AgentTypeOK, ReadLooks
    <3>2. /\ read'[r].phase = "looked" /\ read'[r].first = dropped
          /\ read'[r].upto = total /\ read'[r].from = read[r].from
      BY <1>3, <3>1 DEF Read
    <3> QED BY <1>2, <2>4, <2>5, <3>2 DEF ReadLooks, ReadsWithin
  <2>6. ASSUME ReadDecides(r) PROVE Kept /\ Within
    <3>1. read'[r] \in {Answer(r), [read[r] EXCEPT !.phase = "asleep"]}
      BY <1>3, <2>6 DEF AgentTypeOK, ReadDecides
    <3>2. /\ read'[r].phase \in {"answered", "asleep"}
          /\ read'[r].first = read[r].first
          /\ read'[r].upto = read[r].upto /\ read'[r].from = read[r].from
      BY <1>3, <3>1 DEF Answer, Read
    <3> QED BY <2>6, <3>2 DEF ReadDecides, ReadsWithin
  <2>7. ASSUME ReadWakes(r) PROVE Kept /\ Within
    <3>1. read'[r].phase = "begun" /\ read'[r].from = read[r].from
      BY <1>3, <2>7 DEF AgentTypeOK, ReadWakes, NoRead
    <3> QED BY <2>7, <3>1 DEF ReadWakes, ReadsWithin
  <2>8. ASSUME ReadExpires(r) PROVE Kept /\ Within
    <3>1. read'[r] = [read[r] EXCEPT !.late = TRUE]
      BY <1>3, <2>8 DEF AgentTypeOK, ReadExpires
    <3>2. /\ read'[r].phase = read[r].phase
          /\ read'[r].first = read[r].first
          /\ read'[r].upto = read[r].upto /\ read'[r].from = read[r].from
      BY <1>3, <3>1 DEF Read
    <3> QED BY <2>8, <3>2 DEF ReadExpires, ReadsWithin
  <2>9. Kept /\ Within
    BY <2>1, <2>5, <2>6, <2>7, <2>8 DEF ReadStep
  <2>10. ReadsWithin'
    BY <2>2, <2>3, <2>9 DEF ReadsWithin
  <2> QED BY <1>1, <1>2, <2>2, <2>3, <2>9, <2>10
<1> QED
  BY <1>4, <1>5, <1>6
     DEF DaemonGoesOn, DaemonStep, QuietStep, ReaderStep, ReaperStep

(* The proxy's invariant survives whatever the daemon does meanwhile.        *)
LEMMA DaemonKeeps ==
  ASSUME ProxyInv, DaemonGoesOn
  PROVE  ProxyInv'
<1> USE DEF ProxyInv
<1>1. UNCHANGED proxyVars
  BY DEF DaemonGoesOn
<1>2. AgentInv' /\ ReadsWithin' /\ total =< total'
  BY DaemonReads
<1>3. ProxyTypeOK'
  <2>1. total \in Nat /\ total' \in Nat
    BY <1>2, WindowAssumption DEF AgentInv, AgentTypeOK
  <2>2. offset' \in 0 .. total'
    BY <1>1, <1>2, <2>1 DEF ProxyTypeOK, proxyVars
  <2> QED BY <1>1, <2>2 DEF ProxyTypeOK, proxyVars
<1>4. PullsHold'
  BY <1>1, DaemonReads DEF PullsHold, proxyVars
<1>5. LoopAlone'
  <2>1. "follow" \in Reads
    BY PullsAssumption
  <2>2. pull["follow"].phase = "noted" => read'["follow"] = read["follow"]
    BY <2>1, DaemonReads DEF PullsHold
  <2> QED BY <1>1, <2>1, <2>2, DaemonReads DEF LoopAlone, Lossy, Finished, proxyVars
<1>6. StreamFits'
  BY <1>1 DEF StreamFits, FitsUpTo, Follows, Once, proxyVars
<1> QED BY <1>2, <1>3, <1>4, <1>5, <1>6

-----------------------------------------------------------------------------
(* The steps of the proxy *)

(* A step that keeps the stream and the offset keeps what they say, and once *)
(* a teardown has begun nothing is claimed of them.                          *)
LEMMA StreamKeeps ==
  ASSUME StreamFits, UNCHANGED <<stream, offset>>, releasing => releasing'
  PROVE  StreamFits'
BY DEF StreamFits, FitsUpTo, Follows, Once

(* Publishing puts one pull into a phase and leaves the other one alone.     *)
LEMMA PublishPulls ==
  ASSUME ProxyTypeOK, NEW p \in Reads, NEW units, NEW phase \in {"noted", "published"},
         Publish(p, units, phase)
  PROVE  /\ pull' \in [Reads -> Pull]
         /\ pull'[p].phase = phase
         /\ \A q \in Reads : q # p => pull'[q] = pull[q]
         /\ Finished => stream' = stream
         /\ ~Finished => stream' = stream \o units
<1>1. PICK full \in BOOLEAN :
        pull' = [pull EXCEPT ![p] =
          [phase   |-> phase,
           blocked |-> full /\ (IF Finished THEN <<>> ELSE units) # <<>>]]
  BY DEF Publish
<1> DEFINE it == [phase   |-> phase,
                  blocked |-> full /\ (IF Finished THEN <<>> ELSE units) # <<>>]
<1>2. it \in Pull /\ it.phase = phase
  BY DEF Pull
<1>3. pull \in [Reads -> Pull]
  BY DEF ProxyTypeOK
<1>4. pull' = [pull EXCEPT ![p] = it]
  BY <1>1
<1> HIDE DEF it
<1>5. /\ pull' \in [Reads -> Pull]
      /\ pull'[p].phase = phase
      /\ \A q \in Reads : q # p => pull'[q] = pull[q]
  BY <1>2, <1>3, <1>4
<1>6. stream' = stream \o (IF Finished THEN <<>> ELSE units)
  BY DEF Publish
<1>7. Finished => stream' = stream
  <2>1. stream \in Seq(0 .. MaxBytes)
    BY DEF ProxyTypeOK
  <2> QED BY <1>6, <2>1, ConcatEmptySeq
<1> QED BY <1>5, <1>6, <1>7

(* An answered read: its marks are numbers, in their order.                  *)
LEMMA AnsweredMarks ==
  ASSUME ProxyInv, NEW p \in Reads, read[p].phase = "answered"
  PROVE  /\ read[p].from \in Nat /\ read[p].first \in Nat /\ read[p].upto \in Nat
         /\ read[p].from =< read[p].upto
         /\ read[p].first =< read[p].upto
         /\ read[p].upto =< total
         /\ total \in 0 .. MaxBytes
<1> USE DEF ProxyInv
<1>1. read[p] \in Read /\ total \in 0 .. MaxBytes
  BY WindowBounds DEF AgentInv, AgentTypeOK
<1>2. /\ read[p].from \in 0 .. MaxBytes /\ read[p].first \in 0 .. MaxBytes
      /\ read[p].upto \in 0 .. MaxBytes
  BY <1>1 DEF Read
<1>3. \A n \in 0 .. MaxBytes : n \in Nat
  OBVIOUS
<1> QED BY <1>1, <1>2, <1>3 DEF ReadsWithin

(* A loss is noted behind what was published (pull).                         *)
LEMMA AnsweredKeeps ==
  ASSUME ProxyInv, NEW p \in Reads, Answered(p)
  PROVE  ProxyInv'
<1> USE DEF ProxyInv
<1> DEFINE noted == IF Lossy(p) THEN <<Note>> ELSE <<>>
<1>1. Publish(p, noted, "noted") /\ pull[p].phase = "asked" /\ read[p].phase = "answered"
  BY DEF Answered
<1>2. UNCHANGED agentVars /\ UNCHANGED <<offset, link, flowing, settled, releasing, stop>>
  BY DEF Answered, RestOfProxy
<1>3. UNCHANGED <<read, total>>
  BY <1>2 DEF agentVars, windowVars
<1> HIDE DEF noted
<1>4. AgentInv' /\ ReadsWithin'
  BY <1>2, IdleDaemonKeeps
<1>5. /\ pull' \in [Reads -> Pull]
      /\ pull'[p].phase = "noted"
      /\ \A q \in Reads : q # p => pull'[q] = pull[q]
      /\ Finished => stream' = stream
      /\ ~Finished => stream' = stream \o noted
  BY <1>1, PublishPulls
<1>6. stream \in Seq(0 .. MaxBytes) /\ noted \in {<<>>, <<Note>>}
  BY DEF ProxyTypeOK, noted
<1>7. stream' \in Seq(0 .. MaxBytes)
  <2>1. <<>> \in Seq(0 .. MaxBytes) /\ <<Note>> \in Seq(0 .. MaxBytes)
    BY WindowAssumption DEF Note
  <2> QED BY <1>5, <1>6, <2>1, ConcatProperties
<1>8. ProxyTypeOK'
  BY <1>2, <1>3, <1>5, <1>7 DEF ProxyTypeOK
<1>9. PullsHold'
  BY <1>1, <1>3, <1>5 DEF PullsHold
<1>10. CASE releasing
  BY <1>2, <1>4, <1>8, <1>9, <1>10 DEF LoopAlone, StreamFits
<1>11. CASE ~releasing
  <2>1. p = "follow" /\ "follow" \in Reads /\ "last" \in Reads
    BY <1>1, <1>11, PullsAssumption DEF LoopAlone
  <2>2. ~Finished /\ read["follow"].from = offset
    BY <1>1, <1>11, <2>1 DEF LoopAlone
  <2>3. offset \in Nat /\ FitsUpTo(stream, offset)
    BY <1>11 DEF ProxyTypeOK, StreamFits
  <2>4. stream' = stream \o noted
    BY <1>5, <2>2
  <2>5. /\ FitsUpTo(stream', offset)
        /\ Lossy(p) => stream' # <<>> /\ stream'[Len(stream')] = Note
    <3>1. CASE Lossy(p)
      BY <1>6, <2>3, <2>4, <3>1, NoteFits DEF noted
    <3>2. CASE ~Lossy(p)
      BY <1>6, <2>3, <2>4, <3>2, ConcatEmptySeq DEF noted
    <3> QED BY <3>1, <3>2
  <2>6. StreamFits'
    BY <1>2, <2>5 DEF StreamFits, FitsUpTo, Follows, Once
  <2>7. LoopAlone'
    BY <1>2, <1>3, <1>5, <1>11, <2>1, <2>2, <2>5 DEF LoopAlone, Lossy, Finished
  <2> QED BY <1>4, <1>8, <1>9, <2>6, <2>7
<1> QED BY <1>10, <1>11

(* What an answer brings is published behind it: from where the window       *)
(* began, if that is later than what was asked for, to its end.              *)
LEMMA TakesKeeps ==
  ASSUME ProxyInv, NEW p \in Reads, Takes(p)
  PROVE  ProxyInv'
<1> USE DEF ProxyInv
<1> DEFINE begin == Larger(read[p].from, read[p].first)
           n     == read[p].upto - begin
<1>1. Publish(p, Units(p), "published") /\ pull[p].phase = "noted" /\ offset' = read[p].upto
  BY DEF Takes
<1>2. UNCHANGED agentVars /\ UNCHANGED <<link, flowing, settled, releasing, stop>>
  BY DEF Takes, RestOfProxy
<1>3. UNCHANGED <<read, total>>
  BY <1>2 DEF agentVars, windowVars
<1>4. AgentInv' /\ ReadsWithin'
  BY <1>2, IdleDaemonKeeps
<1>5. read[p].phase = "answered"
  BY <1>1 DEF PullsHold
<1>6. /\ read[p].from \in Nat /\ read[p].first \in Nat /\ read[p].upto \in Nat
      /\ read[p].from =< read[p].upto /\ read[p].first =< read[p].upto
      /\ read[p].upto =< total /\ total \in 0 .. MaxBytes
  BY <1>5, AnsweredMarks
<1>7. /\ begin \in Nat /\ n \in Nat /\ begin + n = read[p].upto
      /\ begin >= read[p].from /\ begin + n =< MaxBytes
      /\ Larger(0, n) = n
      /\ ~Lossy(p) => begin = read[p].from
  BY <1>6, WindowAssumption DEF Larger, Lossy
<1>8. Units(p) = [i \in 1 .. n |-> begin + i]
  BY <1>7 DEF Units
<1> HIDE DEF begin, n
<1>9. /\ pull' \in [Reads -> Pull]
      /\ pull'[p].phase = "published"
      /\ \A q \in Reads : q # p => pull'[q] = pull[q]
      /\ Finished => stream' = stream
      /\ ~Finished => stream' = stream \o Units(p)
  BY <1>1, PublishPulls
<1>10. stream \in Seq(0 .. MaxBytes)
  BY DEF ProxyTypeOK
<1>11. stream' \in Seq(0 .. MaxBytes)
  <2>1. \A i \in 1 .. n : begin + i \in 0 .. MaxBytes
    BY <1>7, WindowAssumption
  <2>2. Units(p) \in [1 .. n -> 0 .. MaxBytes]
    BY <1>8, <2>1
  <2>3. Units(p) \in Seq(0 .. MaxBytes)
    BY <1>7, <2>2, SeqDef
  <2> QED BY <1>9, <1>10, <2>3, ConcatProperties
<1>12. offset' \in 0 .. total'
  BY <1>1, <1>3, <1>6
<1>13. ProxyTypeOK'
  BY <1>2, <1>9, <1>11, <1>12 DEF ProxyTypeOK
<1>14. PullsHold'
  BY <1>3, <1>5, <1>9 DEF PullsHold
<1>15. CASE releasing
  BY <1>2, <1>4, <1>13, <1>14, <1>15 DEF LoopAlone, StreamFits
<1>16. CASE ~releasing
  <2>1. p = "follow" /\ "follow" \in Reads /\ "last" \in Reads
    BY <1>1, <1>16, PullsAssumption DEF LoopAlone
  <2>2. ~Finished /\ read["follow"].from = offset
    BY <1>1, <1>16, <2>1 DEF LoopAlone
  <2>3. offset \in Nat /\ FitsUpTo(stream, offset)
    BY <1>16 DEF ProxyTypeOK, StreamFits
  <2>4. begin # offset => stream # <<>> /\ stream[Len(stream)] = Note
    BY <1>1, <1>7, <1>16, <2>1, <2>2 DEF LoopAlone
  <2>5. stream' = stream \o Units(p) /\ offset =< begin
    BY <1>7, <1>9, <2>1, <2>2
  <2>6. FitsUpTo(stream \o Units(p), begin + n)
    BY <1>7, <1>8, <1>10, <2>3, <2>4, <2>5, UnitsFit
  <2>7. FitsUpTo(stream', offset')
    BY <1>1, <1>7, <2>5, <2>6
  <2>8. StreamFits'
    BY <2>7 DEF StreamFits, FitsUpTo, Follows, Once
  <2>9. LoopAlone'
    BY <1>2, <1>9, <1>16, <2>1, <2>2 DEF LoopAlone, Finished
  <2> QED BY <1>4, <1>13, <1>14, <2>8, <2>9
<1> QED BY <1>15, <1>16

(* A request begun or rejected is a fresh read.                              *)
LEMMA FreshReads ==
  ASSUME ProxyInv
  PROVE  /\ Begun(offset) \in Read /\ Begun(offset) \in FreshRead
         /\ Begun(offset).phase # "refused" => Begun(offset).from = offset
         /\ [NoRead EXCEPT !.phase = "refused"] \in Read
         /\ [NoRead EXCEPT !.phase = "refused"] \in FreshRead
         /\ [NoRead EXCEPT !.phase = "refused"].phase = "refused"
         /\ NoRead \in Read /\ NoRead \in FreshRead
<1> USE DEF ProxyInv
<1>1. total \in 0 .. MaxBytes /\ offset \in 0 .. total
  BY WindowBounds DEF AgentInv, ProxyTypeOK
<1>2. offset \in 0 .. MaxBytes /\ 0 \in 0 .. MaxBytes /\ 0 =< total /\ offset =< total
  BY <1>1, WindowAssumption
<1>3. NoRead \in Read
  BY <1>2 DEF NoRead, Read
<1>4. NoRead \in FreshRead
  BY <1>2, <1>3 DEF NoRead, FreshRead
<1>5. Begun(offset) \in Read /\ Begun(offset).phase \in {"begun", "refused"}
        /\ Begun(offset).from = offset
  BY <1>2 DEF Begun, NoRead, Read
<1>6. [NoRead EXCEPT !.phase = "refused"] \in Read
        /\ [NoRead EXCEPT !.phase = "refused"].phase = "refused"
        /\ [NoRead EXCEPT !.phase = "refused"].from = 0
  BY <1>2 DEF NoRead, Read
<1> QED BY <1>2, <1>3, <1>4, <1>5, <1>6 DEF FreshRead

(* A pull that asks reads from the proxy's offset, unless it is rejected.    *)
LEMMA AsksKeeps ==
  ASSUME ProxyInv, NEW p \in Reads, Asks(p), RestOfDaemon
  PROVE  /\ AgentInv' /\ ReadsWithin'
         /\ pull' \in [Reads -> Pull]
         /\ pull'[p].phase = "asked"
         /\ \A q \in Reads : q # p => pull'[q] = pull[q] /\ read'[q] = read[q]
         /\ read'[p].phase # "refused" => read'[p].from = offset
<1> USE DEF ProxyInv
<1>1. read \in [Reads -> Read] /\ pull \in [Reads -> Pull]
  BY DEF AgentInv, AgentTypeOK, ProxyTypeOK
<1>2. [phase |-> "asked", blocked |-> FALSE] \in Pull
  BY DEF Pull
<1>3. /\ pull' \in [Reads -> Pull]
      /\ pull'[p].phase = "asked"
      /\ \A q \in Reads : q # p => pull'[q] = pull[q]
  BY <1>1, <1>2 DEF Asks
<1>4. PICK q \in {Begun(offset), [NoRead EXCEPT !.phase = "refused"]} :
        read' = [read EXCEPT ![p] = q]
  BY DEF Asks
<1>5. q \in Read /\ q \in FreshRead /\ (q.phase # "refused" => q.from = offset)
  BY FreshReads
<1>6. /\ read' \in [Reads -> Read] /\ read'[p] = q
      /\ \A r \in Reads : r # p => read'[r] = read[r]
  BY <1>1, <1>4, <1>5
<1>7. AgentInv' /\ ReadsWithin'
  BY <1>5, <1>6, FreshReadsKeep
<1> QED BY <1>3, <1>5, <1>6, <1>7

(* A pull that is over has given up its read.                                *)
LEMMA OverKeeps ==
  ASSUME ProxyInv, NEW p \in Reads, RestOfDaemon,
         pull' = [pull EXCEPT ![p].phase = "over"],
         read' = [read EXCEPT ![p] = NoRead]
  PROVE  /\ AgentInv' /\ ReadsWithin'
         /\ pull' \in [Reads -> Pull]
         /\ pull'[p].phase = "over"
         /\ \A q \in Reads : q # p => pull'[q] = pull[q] /\ read'[q] = read[q]
         /\ PullsHold'
<1> USE DEF ProxyInv
<1>1. read \in [Reads -> Read] /\ pull \in [Reads -> Pull]
  BY DEF AgentInv, AgentTypeOK, ProxyTypeOK
<1>2. [pull[p] EXCEPT !.phase = "over"] \in Pull
        /\ [pull[p] EXCEPT !.phase = "over"].phase = "over"
  BY <1>1 DEF Pull
<1>3. /\ pull' \in [Reads -> Pull]
      /\ pull'[p].phase = "over"
      /\ \A q \in Reads : q # p => pull'[q] = pull[q]
  BY <1>1, <1>2
<1>4. /\ read' \in [Reads -> Read] /\ read'[p] = NoRead
      /\ \A r \in Reads : r # p => read'[r] = read[r]
  BY <1>1, FreshReads
<1>5. AgentInv' /\ ReadsWithin'
  BY <1>4, FreshReads, FreshReadsKeep
<1>6. PullsHold'
  BY <1>3, <1>4 DEF PullsHold
<1> QED BY <1>3, <1>4, <1>5, <1>6

(* The daemon's part of the state is untouched: the offset stays within it.  *)
LEMMA SameTotal ==
  ASSUME RestOfDaemon \/ UNCHANGED agentVars
  PROVE  total' = total
BY DEF RestOfDaemon, agentVars, windowVars

(* A transport that drops rejects what was asked, and nothing else.          *)
LEMMA LinkDropsKeeps ==
  ASSUME ProxyInv, LinkDrops
  PROVE  ProxyInv'
<1> USE DEF ProxyInv
<1> DEFINE rejected == [NoRead EXCEPT !.phase = "refused"]
<1>1. RestOfDaemon /\ UNCHANGED <<offset, stream, flowing, settled, releasing, pull, stop>>
  BY DEF LinkDrops, RestOfDaemon
<1>2. rejected \in Read /\ rejected \in FreshRead /\ rejected.phase = "refused"
  BY FreshReads
<1>3. read' = [r \in Reads |-> IF pull[r].phase = "asked" THEN rejected ELSE read[r]]
  BY DEF LinkDrops
<1> HIDE DEF rejected
<1>4. read \in [Reads -> Read]
  BY DEF AgentInv, AgentTypeOK
<1>5. read' \in [Reads -> Read]
  BY <1>2, <1>3, <1>4
<1>6. \A r \in Reads : read'[r] = IF pull[r].phase = "asked" THEN rejected ELSE read[r]
  BY <1>3
<1>7. AgentInv' /\ ReadsWithin'
  BY <1>1, <1>2, <1>5, <1>6, FreshReadsKeep
<1>8. ProxyTypeOK'
  BY <1>1, SameTotal DEF LinkDrops, ProxyTypeOK
<1>9. PullsHold'
  BY <1>1, <1>6 DEF PullsHold
<1>10. LoopAlone'
  BY <1>1, <1>2, <1>6, PullsAssumption DEF LoopAlone, Lossy, Finished
<1> QED BY <1>1, <1>7, <1>8, <1>9, <1>10, StreamKeeps

(* Draining and pacing change whether somebody waits, and nothing else.      *)
LEMMA FlowKeeps ==
  ASSUME ProxyInv, Drains \/ Paces
  PROVE  ProxyInv'
<1> USE DEF ProxyInv
<1>1. UNCHANGED agentVars /\ UNCHANGED <<link, offset, stream, settled, releasing, stop>>
  BY DEF Drains, Paces
<1>2. AgentInv' /\ ReadsWithin' /\ UNCHANGED <<read, total>>
  BY <1>1, IdleDaemonKeeps DEF agentVars, windowVars
<1>3. pull \in [Reads -> Pull]
  BY DEF ProxyTypeOK
<1>4. pull' \in [Reads -> Pull] /\ \A p \in Reads : pull'[p].phase = pull[p].phase
  <2>1. CASE Drains
    <3>1. \A p \in Reads : /\ [pull[p] EXCEPT !.blocked = FALSE] \in Pull
                           /\ [pull[p] EXCEPT !.blocked = FALSE].phase = pull[p].phase
      BY <1>3 DEF Pull
    <3> QED BY <1>3, <2>1, <3>1 DEF Drains
  <2>2. CASE Paces
    BY <1>3, <2>2 DEF Paces
  <2> QED BY <2>1, <2>2
<1>5. flowing' \in BOOLEAN
  BY DEF Drains, Paces, ProxyTypeOK
<1>6. ProxyTypeOK'
  BY <1>1, <1>2, <1>4, <1>5 DEF ProxyTypeOK
<1>7. PullsHold'
  BY <1>2, <1>4 DEF PullsHold
<1>8. LoopAlone'
  BY <1>1, <1>2, <1>4, PullsAssumption DEF LoopAlone, Lossy, Finished
<1> QED BY <1>1, <1>2, <1>6, <1>7, <1>8, StreamKeeps

(* The loop begins, or goes round again.                                     *)
LEMMA LoopAsksKeeps ==
  ASSUME ProxyInv, Started \/ FollowGoesOn
  PROVE  ProxyInv'
<1> USE DEF ProxyInv
<1>1. /\ Asks("follow") /\ RestOfDaemon
      /\ UNCHANGED <<offset, stream, link, flowing, settled, releasing, stop>>
      /\ pull["follow"].phase \in {"idle", "published"}
  BY DEF Started, FollowGoesOn, Back, RestOfProxy
<1>2. "follow" \in Reads /\ "last" \in Reads /\ "last" # "follow"
  BY PullsAssumption
<1>3. /\ AgentInv' /\ ReadsWithin'
      /\ pull' \in [Reads -> Pull]
      /\ pull'["follow"].phase = "asked"
      /\ \A q \in Reads : q # "follow" => pull'[q] = pull[q] /\ read'[q] = read[q]
      /\ read'["follow"].phase # "refused" => read'["follow"].from = offset
  BY <1>1, <1>2, AsksKeeps
<1>4. ProxyTypeOK'
  BY <1>1, <1>3, SameTotal DEF ProxyTypeOK
<1>5. PullsHold'
  BY <1>3 DEF PullsHold
<1>6. LoopAlone'
  BY <1>1, <1>2, <1>3 DEF LoopAlone, Finished
<1> QED BY <1>1, <1>3, <1>4, <1>5, <1>6, StreamKeeps

(* The loop ends; it settles the handle, or leaves that to the teardown.     *)
LEMMA LoopEndsKeeps ==
  ASSUME ProxyInv, FollowEnds \/ FollowRejected
  PROVE  ProxyInv'
<1> USE DEF ProxyInv
<1>1. /\ pull' = [pull EXCEPT !["follow"].phase = "over"]
      /\ read' = [read EXCEPT !["follow"] = NoRead]
      /\ RestOfDaemon
      /\ UNCHANGED <<link, offset, stream, flowing, releasing, stop>>
  BY DEF FollowEnds, FollowRejected
<1>2. "follow" \in Reads /\ "last" \in Reads /\ "last" # "follow"
  BY PullsAssumption
<1>3. /\ AgentInv' /\ ReadsWithin' /\ PullsHold'
      /\ pull' \in [Reads -> Pull]
      /\ pull'["follow"].phase = "over"
      /\ \A q \in Reads : q # "follow" => pull'[q] = pull[q] /\ read'[q] = read[q]
  BY <1>1, <1>2, OverKeeps
<1>4. settled' \in {"no", "facts", "none"}
  BY DEF ProxyTypeOK, FollowEnds, FollowRejected, Finish
<1>5. ProxyTypeOK'
  BY <1>1, <1>3, <1>4, SameTotal DEF ProxyTypeOK
<1>6. LoopAlone'
  BY <1>1, <1>2, <1>3 DEF LoopAlone
<1> QED BY <1>1, <1>3, <1>5, <1>6, StreamKeeps

(* terminate: a teardown begins, unless the handle has settled.              *)
LEMMA TerminateKeeps ==
  ASSUME ProxyInv, Terminate
  PROVE  ProxyInv'
<1> USE DEF ProxyInv
<1>1. UNCHANGED <<link, offset, stream, flowing, settled, pull>>
  BY DEF Terminate
<1>2. AgentInv' /\ ReadsWithin' /\ UNCHANGED <<read, total>>
  <2>1. CASE UNCHANGED agentVars
    BY <2>1, IdleDaemonKeeps DEF agentVars, windowVars
  <2>2. CASE TerminateAsks
    <3>1. QuietStep
      BY <2>2 DEF QuietStep
    <3>2. UNCHANGED <<read, total>>
      BY <3>1, QuietKeeps
    <3> QED BY <3>1, <3>2, QuietInv DEF ReadsWithin
  <2> QED BY <2>1, <2>2 DEF Terminate
<1>3. /\ stop' \in Stop /\ releasing' \in BOOLEAN
      /\ ~releasing' => ~releasing /\ stop' = "over"
      /\ releasing => releasing'
  BY DEF Terminate, Stop, ProxyTypeOK
<1>4. ProxyTypeOK'
  BY <1>1, <1>2, <1>3 DEF ProxyTypeOK
<1>5. PullsHold'
  BY <1>1, <1>2 DEF PullsHold
<1>6. LoopAlone'
  BY <1>1, <1>2, <1>3 DEF LoopAlone, Lossy, Finished
<1> QED BY <1>1, <1>2, <1>3, <1>4, <1>5, <1>6, StreamKeeps

(* The steps of a teardown that has begun.                                   *)
LEMMA TeardownKeeps ==
  ASSUME ProxyInv,
         TerminateAnswered \/ TerminateRejected \/ LastEnds \/ OutcomeAnswered
  PROVE  ProxyInv'
<1> USE DEF ProxyInv
<1>1. /\ UNCHANGED <<link, offset, stream, flowing, releasing>>
      /\ RestOfDaemon \/ UNCHANGED agentVars
  BY DEF TerminateAnswered, TerminateRejected, LastEnds, OutcomeAnswered
<1>2. "last" \in Reads
  BY PullsAssumption
<1>3. releasing
  BY DEF TerminateAnswered, TerminateRejected, LastEnds, OutcomeAnswered, Back, LoopAlone
<1>4. stop' \in Stop /\ settled' \in {"no", "facts", "none"}
  BY DEF TerminateAnswered, TerminateRejected, LastEnds, OutcomeAnswered,
         Finish, ProxyTypeOK, Stop
<1>5. AgentInv' /\ ReadsWithin' /\ PullsHold' /\ pull' \in [Reads -> Pull]
  <2>1. CASE TerminateAnswered
    <3>1. Asks("last") /\ RestOfDaemon
      BY <2>1 DEF TerminateAnswered
    <3>2. /\ AgentInv' /\ ReadsWithin' /\ pull' \in [Reads -> Pull]
          /\ pull'["last"].phase = "asked"
          /\ \A q \in Reads : q # "last" => pull'[q] = pull[q] /\ read'[q] = read[q]
      BY <1>2, <3>1, AsksKeeps
    <3> QED BY <3>2 DEF PullsHold
  <2>2. CASE LastEnds
    BY <1>2, <2>2, OverKeeps DEF LastEnds
  <2>3. CASE TerminateRejected \/ OutcomeAnswered
    <3>1. UNCHANGED agentVars /\ UNCHANGED pull
      BY <2>3 DEF TerminateRejected, OutcomeAnswered
    <3>2. AgentInv' /\ ReadsWithin' /\ UNCHANGED read
      BY <3>1, IdleDaemonKeeps DEF agentVars
    <3> QED BY <3>1, <3>2 DEF PullsHold, ProxyTypeOK
  <2> QED BY <2>1, <2>2, <2>3
<1>6. ProxyTypeOK'
  BY <1>1, <1>4, <1>5, SameTotal DEF ProxyTypeOK
<1>7. LoopAlone' /\ StreamFits'
  BY <1>1, <1>3 DEF LoopAlone, StreamFits
<1> QED BY <1>5, <1>6, <1>7

-----------------------------------------------------------------------------
(* The invariant *)

(* It holds at first.                                                        *)
LEMMA InitProxyInv == TtyInit => ProxyInv
<1> SUFFICES ASSUME TtyInit PROVE ProxyInv
  OBVIOUS
<1> USE DEF TtyInit
<1>1. AgentInv
  BY InitAgentInv
<1>2. read = [r \in Reads |-> NoRead] /\ total = 0
  BY DEF AgentInit
<1>3. "follow" \in Reads /\ "last" \in Reads
  BY PullsAssumption
<1>4. Idle \in Pull /\ Idle.phase = "idle"
  BY DEF Idle, Pull
<1>5. stream \in Seq(0 .. MaxBytes) /\ Len(stream) = 0
  BY EmptySeq
<1>6. ProxyTypeOK
  <2>1. offset \in 0 .. total
    BY <1>2
  <2>2. pull \in [Reads -> Pull]
    BY <1>4
  <2> QED BY <1>5, <2>1, <2>2 DEF ProxyTypeOK, Stop
<1>7. ReadsWithin /\ PullsHold
  BY <1>2, <1>4 DEF ReadsWithin, PullsHold, NoRead
<1>8. LoopAlone
  BY <1>2, <1>3, <1>4 DEF LoopAlone, Finished
<1>9. StreamFits
  BY <1>5 DEF StreamFits, FitsUpTo, Follows, Once
<1> QED BY <1>1, <1>6, <1>7, <1>8, <1>9 DEF ProxyInv

(* Every step keeps it.                                                      *)
LEMMA NextProxyInv == ProxyInv /\ [TtyNext]_ttyVars => ProxyInv'
<1> SUFFICES ASSUME ProxyInv, [TtyNext]_ttyVars PROVE ProxyInv'
  OBVIOUS
<1>1. "follow" \in Reads /\ "last" \in Reads
  BY PullsAssumption
<1>2. CASE DaemonGoesOn
  BY <1>2, DaemonKeeps
<1>3. CASE LinkDrops
  BY <1>3, LinkDropsKeeps
<1>4. CASE Terminate
  BY <1>4, TerminateKeeps
<1>5. CASE Drains \/ Paces
  BY <1>5, FlowKeeps
<1>6. CASE \E p \in Reads : PullStep(p)
  BY <1>6, AnsweredKeeps, TakesKeeps DEF PullStep
<1>7. CASE Started \/ FollowGoesOn
  BY <1>7, LoopAsksKeeps
<1>8. CASE FollowEnds \/ FollowRejected
  BY <1>8, LoopEndsKeeps
<1>9. CASE TerminateAnswered \/ TerminateRejected \/ LastEnds \/ OutcomeAnswered
  BY <1>9, TeardownKeeps
<1>10. CASE UNCHANGED ttyVars
  <2>1. AgentInv' /\ ReadsWithin' /\ UNCHANGED <<read, total>>
    BY <1>10, IdleDaemonKeeps DEF ProxyInv, ttyVars, agentVars, windowVars
  <2>2. UNCHANGED proxyVars
    BY <1>10 DEF ttyVars
  <2>3. ProxyTypeOK' /\ PullsHold' /\ LoopAlone'
    BY <2>1, <2>2 DEF ProxyInv, ProxyTypeOK, PullsHold, LoopAlone, Lossy,
                      Finished, proxyVars
  <2>4. StreamFits'
    BY <2>2, StreamKeeps DEF ProxyInv, proxyVars
  <2> QED BY <2>1, <2>3, <2>4 DEF ProxyInv
<1> QED
  BY <1>1, <1>2, <1>3, <1>4, <1>5, <1>6, <1>7, <1>8, <1>9, <1>10
     DEF TtyNext, FollowStep, StopStep

(* It is an invariant of the specification, whatever the daemon's reads and  *)
(* threads do between the proxy's steps.                                     *)
THEOREM ProxySound == TtySpec => []ProxyInv
BY InitProxyInv, NextProxyInv, PTL DEF TtySpec

-----------------------------------------------------------------------------
(* The theorems about the proxy *)

(* For any amount of output and any window, the offset never runs ahead of   *)
(* what the daemon has read, and until a teardown begins the stream is the   *)
(* whole output, once and in order, with a note wherever some of it was lost *)
(* (pull, createRemoteTty). From the moment a teardown releases the loop     *)
(* nothing is claimed of the order: its own pull and the loop's publish the  *)
(* same bytes twice.                                                         *)
THEOREM ProxyPublishesInOrder == TtySpec => []TtyInv
<1>1. ProxyInv => TtyInv
  BY DEF ProxyInv, AgentInv, ProxyTypeOK, StreamFits, FitsUpTo, Once, TtyInv,
         TtyTypeOK, NoSilentGap, NothingTwice
<1> QED BY <1>1, ProxySound, PTL

(* What the daemon promises of its reads and its table it keeps under the    *)
(* proxy's requests and a transport that drops (TerminalBackend).            *)
THEOREM DaemonKeepsItsWord == TtySpec => [](NoReadOversleeps /\ NoSurvivor)
<1>1. ProxyInv => NoReadOversleeps /\ NoSurvivor
  BY DEF ProxyInv, AgentInv, ReadsKnow, NoReadOversleeps
<1> QED BY <1>1, ProxySound, PTL

(* Nothing is written to a stream that has ended, whatever was in flight     *)
(* when the handle settled (publish).                                        *)
THEOREM NothingFollowsTheEnd == TtySpec => NothingAfterEnd
<1>1. ProxyInv /\ [TtyNext]_ttyVars => [Finished => stream' = stream]_ttyVars
  <2> SUFFICES ASSUME ProxyInv, TtyNext, Finished PROVE stream' = stream
    BY DEF ttyVars
  <2>1. CASE DaemonGoesOn \/ LinkDrops \/ Terminate \/ Drains \/ Paces
    BY <2>1 DEF DaemonGoesOn, proxyVars, LinkDrops, Terminate, Drains, Paces
  <2>2. ASSUME NEW p \in Reads, PullStep(p) PROVE stream' = stream
    <3>1. CASE Answered(p)
      <4>1. Publish(p, IF Lossy(p) THEN <<Note>> ELSE <<>>, "noted")
        BY <3>1 DEF Answered
      <4> QED BY <4>1, PublishPulls DEF ProxyInv
    <3>2. CASE Takes(p)
      <4>1. Publish(p, Units(p), "published")
        BY <3>2 DEF Takes
      <4> QED BY <4>1, PublishPulls DEF ProxyInv
    <3> QED BY <2>2, <3>1, <3>2 DEF PullStep
  <2>3. CASE Started \/ FollowGoesOn \/ FollowEnds \/ FollowRejected
    BY <2>3 DEF Started, FollowGoesOn, FollowEnds, FollowRejected
  <2>4. CASE TerminateAnswered \/ TerminateRejected \/ LastEnds \/ OutcomeAnswered
    BY <2>4 DEF TerminateAnswered, TerminateRejected, LastEnds, OutcomeAnswered
  <2> QED BY <2>1, <2>2, <2>3, <2>4, PullsAssumption
             DEF TtyNext, FollowStep, StopStep
<1> QED BY <1>1, ProxySound, PTL DEF TtySpec, NothingAfterEnd

=============================================================================
