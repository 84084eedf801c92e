---------------------------- MODULE ProgramHost ----------------------------
(***************************************************************************)
(* The program host of a remote workspace, src/ptc-host: the frame loop of *)
(* main.rs, the frame routing, codec, output ledger and bindings of        *)
(* program.js, and the channel between them and the harness.               *)
(*                                                                         *)
(* The isolate runs one program.  What the program does is free: it logs,  *)
(* calls bindings, leaves work of its own behind and returns or throws at  *)
(* any point of a drain.  The harness's end (dsh-ptc-runtime-node) is the  *)
(* environment: it boots, answers calls in any order and closes.           *)
(*                                                                         *)
(* A value is a tree (ValueCodec), a line a sequence of character costs, a *)
(* completion its serialized cost; message texts are left out.             *)
(***************************************************************************)
EXTENDS ValueCodec, FiniteSets

CONSTANTS
  MaxOutput,   \* data.maxOutputBytes
  MaxCalls,    \* bound: binding calls of the program
  MaxLines,    \* bound: lines the program logs while the budget lasts
  Lines,       \* lines, as sequences of characterCost
  Completions, \* serialized costs of a completion's value or message
  Wires        \* token streams the harness answers each call with

Calls == 1 .. MaxCalls

ASSUME BudgetAssumption == {MaxOutput, MaxCalls, MaxLines} \subseteq Nat
ASSUME CostsAssumption ==
  Lines \subseteq Seq(Nat \ {0}) /\ Completions \subseteq Nat

\* Depth and Arity bound what the streams nest, read to whatever token.
ASSUME WiresAssumption ==
  \A id \in Calls : \A wire \in Wires[id] :
    /\ wire \in Seq(Tokens)
    /\ \A n \in 0 .. Len(wire) : Len(Read(wire)[n].open) <= Depth

VARIABLES
  loop,      \* the frame loop: running the isolate, reading, or how it exited
  body,      \* main(): unborn, running, returned, finished, or none to run
  result,    \* what the body settled with
  ledger,    \* the output ledger
  replies,   \* ids of the calls whose promise waits
  settled,   \* how each call's promise settled
  sent,      \* the frames written to the channel
  inbox,     \* the frames on their way in: 0 the boot, else a call's reply
  answered,  \* what the harness said to each call
  closed     \* the harness has closed its end

vars == <<loop, body, result, ledger, replies, settled, sent, inbox,
          answered, closed>>

-----------------------------------------------------------------------------
(* The output ledger.                                                        *)

\* jsonStringBytes: two quotes and the characters.
Bytes(line) ==
  LET sum[n \in 0 .. Len(line)] == IF n = 0 THEN 2 ELSE sum[n - 1] + line[n]
  IN  sum[Len(line)]

\* jsonStringBytesUpTo answers a number.
Fits(line, limit) == limit >= 2 /\ Bytes(line) <= limit

\* truncateJsonString: the longest prefix that fits.
Truncated(line, limit) ==
  LET fitting == {n \in 0 .. Len(line) : Fits(SubSeq(line, 1, n), limit)}
  IN  IF fitting = {}
        THEN <<>>
        ELSE SubSeq(line, 1, CHOOSE n \in fitting : \A m \in fitting : m <= n)

Separator == IF ledger.entries > 0 THEN 1 ELSE 0

Available == MaxOutput - ledger.bytes - Separator

Charged(line) ==
  [ledger EXCEPT !.bytes = @ + Bytes(line) + Separator, !.entries = @ + 1]

\* ledger.remaining()
Remaining == MaxOutput - ledger.bytes

-----------------------------------------------------------------------------
Frame(type, cost) == [type |-> type, cost |-> cost]

\* A frame that cannot be written ends the process (host_send).
Write(frames) ==
  IF closed
    THEN sent' = sent /\ loop' = "failed"
    ELSE sent' = sent \o frames /\ loop' = loop

Running == loop = "running"

ProgramStart ==
  /\ loop = "running"
  /\ body = "unborn"
  /\ result = [kind |-> "undefined", cost |-> 0]
  /\ ledger = [bytes |-> 2, entries |-> 0, truncated |-> FALSE]
  /\ replies = {}
  /\ settled = [id \in Calls |-> [how |-> "unused", value |-> Undefined]]
  /\ sent = <<Frame("ready", 0)>>
  /\ inbox = <<>>
  /\ answered = [id \in Calls |-> [said |-> "nothing", wire |-> <<>>]]
  /\ closed = FALSE

NextId == 1 + Cardinality({id \in Calls : settled[id].how # "unused"})

(* The program: its body and whatever work it left behind share the drain.   *)

Active == Running /\ body \in {"running", "returned", "finished"}

LogLine(line) ==
  /\ Active
  /\ ~ledger.truncated
  /\ ledger.entries < MaxLines
  /\ Fits(line, Available)
  /\ ledger' = Charged(line)
  /\ Write(<<Frame("log", Bytes(line))>>)
  /\ UNCHANGED <<body, result, replies, settled, inbox, answered, closed>>

\* The line beyond the budget: what fits of it, then the limit, once.
LogBeyond(line) ==
  LET prefix == Truncated(line, Available) IN
  /\ Active
  /\ ~ledger.truncated
  /\ ledger.entries < MaxLines
  /\ ~Fits(line, Available)
  /\ IF prefix = <<>>
       THEN /\ ledger' = [ledger EXCEPT !.truncated = TRUE]
            /\ Write(<<Frame("output-limit", 0)>>)
       ELSE /\ ledger' = [Charged(prefix) EXCEPT !.truncated = TRUE]
            /\ Write(<<Frame("log", Bytes(prefix)), Frame("output-limit", 0)>>)
  /\ UNCHANGED <<body, result, replies, settled, inbox, answered, closed>>

\* Arguments that do not flatten are refused on the spot, without an id.
Call ==
  /\ Active
  /\ NextId \in Calls
  /\ replies' = replies \cup {NextId}
  /\ settled' = [settled EXCEPT ![NextId].how = "waiting"]
  /\ Write(<<Frame("call", NextId)>>)
  /\ UNCHANGED <<body, result, ledger, inbox, answered, closed>>

\* Arguments larger than a frame end the process: host_send does not throw.
CallTooLarge ==
  /\ Active
  /\ NextId \in Calls
  /\ loop' = "failed"
  /\ UNCHANGED <<body, result, ledger, replies, settled, sent, inbox,
                 answered, closed>>

Returns(kind, cost) ==
  /\ Running
  /\ body = "running"
  /\ body' = "returned"
  /\ result' = [kind |-> kind, cost |-> cost]
  /\ UNCHANGED <<loop, ledger, replies, settled, sent, inbox, answered, closed>>

\* Mutant: the budget of before the body ran.
CompletionEarly ==
  IF result.kind = "undefined" \/ result.cost <= MaxOutput - 2
    THEN <<Frame("done", result.cost)>>
    ELSE <<Frame("overflow", 0)>>

\* completion, exception and failure: what does not fit is an overflow.
Completion ==
  IF result.kind = "undefined" \/ result.cost <= Remaining
    THEN <<Frame("done", result.cost)>>
    ELSE <<Frame("overflow", 0)>>

SendsDone ==
  /\ Running
  /\ body = "returned"
  /\ body' = "finished"
  /\ Write(Completion)
  /\ UNCHANGED <<result, ledger, replies, settled, inbox, answered, closed>>

-----------------------------------------------------------------------------
(* The frame loop.                                                           *)

\* The drain is over: the root promise decides between reading and leaving.
Polls ==
  /\ Running
  /\ body # "returned"
  /\ loop' = IF body = "finished" THEN "exited" ELSE "reading"
  /\ UNCHANGED <<body, result, ledger, replies, settled, sent, inbox,
                 answered, closed>>

ReadsBoot ==
  /\ loop = "reading"
  /\ inbox # <<>>
  /\ Head(inbox) = 0
  /\ inbox' = Tail(inbox)
  /\ body' = "running"
  /\ loop' = "running"
  /\ UNCHANGED <<result, ledger, replies, settled, sent, answered, closed>>

Outcome(said, wire) ==
  LET value == IF said = "value" THEN Unflatten(wire) ELSE Undefined
  IN  [how |-> IF value = Undefined THEN "rejected" ELSE "resolved",
       value |-> value]

\* Mutant: a reply settles the call that has waited longest.
ReplyToOldest(id) ==
  LET oldest == CHOOSE x \in replies : \A y \in replies : x <= y IN
  /\ replies' = replies \ {oldest}
  /\ settled' = [settled EXCEPT
                   ![oldest] = Outcome(answered[id].said, answered[id].wire)]

\* deliverReply
Reply(id) ==
  /\ replies' = replies \ {id}
  /\ settled' = IF id \in replies
                  THEN [settled EXCEPT
                          ![id] = Outcome(answered[id].said, answered[id].wire)]
                  ELSE settled

ReadsReply ==
  /\ loop = "reading"
  /\ inbox # <<>>
  /\ Head(inbox) # 0
  /\ inbox' = Tail(inbox)
  /\ Reply(Head(inbox))
  /\ loop' = "running"
  /\ UNCHANGED <<body, result, ledger, sent, answered, closed>>

\* Mutant: the loop goes round until the root promise has settled.
EndOfChannel ==
  /\ loop' = IF body = "unborn" THEN "exited" ELSE "running"
  /\ body' = IF body = "unborn" THEN "none" ELSE body

\* The close handler ends a wait for the boot; the loop breaks in any case.
ChannelEnds ==
  /\ loop' = "exited"
  /\ body' = IF body = "unborn" THEN "none" ELSE body

ReadsEnd ==
  /\ loop = "reading"
  /\ inbox = <<>>
  /\ closed
  /\ ChannelEnds
  /\ UNCHANGED <<result, ledger, replies, settled, sent, inbox, answered,
                 closed>>

-----------------------------------------------------------------------------
(* The harness.                                                              *)

Gone == loop \in {"exited", "failed"}

Booted == body # "unborn" \/ inbox # <<>>

Boots ==
  /\ ~Gone /\ ~closed /\ ~Booted
  /\ inbox' = Append(inbox, 0)
  /\ UNCHANGED <<loop, body, result, ledger, replies, settled, sent, answered,
                 closed>>

Called == {sent[i].cost : i \in {j \in DOMAIN sent : sent[j].type = "call"}}

Answers(id, said, wire) ==
  /\ ~Gone /\ ~closed
  /\ id \in Called
  /\ answered[id].said = "nothing"
  /\ answered' = [answered EXCEPT ![id] = [said |-> said, wire |-> wire]]
  /\ inbox' = Append(inbox, id)
  /\ UNCHANGED <<loop, body, result, ledger, replies, settled, sent, closed>>

Closes ==
  /\ ~Gone /\ ~closed
  /\ closed' = TRUE
  /\ UNCHANGED <<loop, body, result, ledger, replies, settled, sent, inbox,
                 answered>>

Next ==
  \/ \E line \in Lines : LogLine(line) \/ LogBeyond(line)
  \/ Call
  \/ CallTooLarge
  \/ \E cost \in Completions : Returns("value", cost) \/ Returns("threw", cost)
  \/ Returns("undefined", 0)
  \/ SendsDone
  \/ Polls
  \/ ReadsBoot
  \/ ReadsReply
  \/ ReadsEnd
  \/ Boots
  \/ \E id \in Calls :
       \/ \E wire \in Wires[id] : Answers(id, "value", wire)
       \/ Answers(id, "failure", <<>>)
  \/ Closes

ProgramSpec == ProgramStart /\ [][Next]_vars

HostStep == SendsDone \/ Polls \/ ReadsBoot \/ ReadsReply \/ ReadsEnd

\* The process runs while it can: a drain ends, a waiting frame is read.
FairProgramSpec == ProgramSpec /\ WF_vars(HostStep)

-----------------------------------------------------------------------------
(* The shape of the state.  The ledger never holds more than the budget, the *)
(* comma between two entries included (Ledger.push).                         *)
ProgramTypeOK ==
  /\ loop \in {"running", "reading", "exited", "failed"}
  /\ body \in {"unborn", "running", "returned", "finished", "none"}
  /\ result \in [kind : {"undefined", "value", "threw"},
                 cost : Completions \cup {0}]
  /\ ledger.bytes = 2 \/ ledger.bytes <= MaxOutput
  /\ ledger.entries \in 0 .. MaxLines
  /\ replies = {id \in Calls : settled[id].how = "waiting"}
  /\ \A id \in Calls : settled[id].value \in Values
  /\ \A i \in DOMAIN inbox : inbox[i] \in 0 .. MaxCalls
  /\ closed \in BOOLEAN

Positions(type) == {i \in DOMAIN sent : sent[i].type = type}

\* What the lines among some frames come to, brackets and commas included.
Logged(frames) ==
  LET sum[n \in 0 .. Len(frames)] ==
        IF n = 0
          THEN 2
          ELSE IF frames[n].type = "log"
                 THEN sum[n - 1] + frames[n].cost
                        + (IF sum[n - 1] = 2 THEN 0 ELSE 1)
                 ELSE sum[n - 1]
  IN  sum[Len(frames)]

LoggedBefore(n) == Logged(SubSeq(sent, 1, n))

(* "Every captured line is charged against the same combined budget the host *)
(* accounts for" (program.js, the ledger): the lines written before the      *)
(* completion and the completion together keep within maxOutputBytes, when   *)
(* work the body left behind logs between its return and the completion too. *)
OutputWithinBudget ==
  \A i \in Positions("done") :
    sent[i].cost > 0 => LoggedBefore(i) + sent[i].cost <= MaxOutput

(* The limit is told once, and no line follows it: neither of the body nor   *)
(* of the work it left behind (Ledger.push, onLimit).                        *)
LimitEndsLog ==
  /\ Cardinality(Positions("output-limit")) <= 1
  /\ \A i \in Positions("output-limit"), j \in Positions("log") : j < i

(* A call settles by the reply that names it, whatever order replies come    *)
(* in, and a value crosses whole: the call has the one value whose tokens    *)
(* are the reply's, and is rejected when the stream is no value's: cut       *)
(* short, run on, or with a marker that is none (deliverReply, unflatten).   *)
RepliesArriveWhole ==
  \A id \in Calls :
    LET said == answered[id] IN
    /\ settled[id].how = "resolved" =>
         said.said = "value" /\ Flatten[settled[id].value] = said.wire
    /\ settled[id].how = "rejected" =>
         \/ said.said = "failure"
         \/ said.said = "value" /\ said.wire \notin Lossless

(* A run that exits with success has said how it ended, unless the harness   *)
(* closed the channel first, and says so once (runProgram, the frame loop).  *)
SuccessIsReported ==
  /\ loop = "exited" =>
       closed \/ Positions("done") \cup Positions("overflow") # {}
  /\ Cardinality(Positions("done") \cup Positions("overflow")) <= 1

(* The output a run reports is accounted for: within the budget, the limit   *)
(* told once, and the end of it said.                                        *)
OutputAccounted ==
  /\ ProgramTypeOK
  /\ OutputWithinBudget
  /\ LimitEndsLog
  /\ SuccessIsReported

(* "The host closing the channel ends the run" (main.rs), whatever the       *)
(* program was waiting for.                                                  *)
CloseEndsRun == closed ~> Gone

=============================================================================
