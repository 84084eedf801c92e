-------------------------- MODULE TerminalRegistry --------------------------
(***************************************************************************)
(* The terminal table of src/src/terminal/host/registry.ts: the shells the *)
(* tabs have open, their retained output, who watches them, who waits on   *)
(* them, and the ways they end.                                            *)
(*                                                                         *)
(* Output is counted in units: a data event carries one or more, a ring    *)
(* buffer keeps the last Cap, and offsets are absolute.  A handler that    *)
(* runs to its end without an await is one action; a chunk handed to the   *)
(* sinks, a resize and a wait are asynchronous and end in a later one.     *)
(* The process behind a terminal is external (ctx.tty).                    *)
(***************************************************************************)
EXTENDS Integers, FiniteSets

CONSTANTS
  Terminals,   \* ordinals 1 .. n: terminals registered at most
  Sinks,       \* consumers of output
  Sessions,    \* Session identities
  Waits,       \* bound: waits of the tool at a time
  Resizes,     \* bound: resizes in flight at a time
  Sizes,       \* geometries
  Cap,         \* BUFFER_BYTES
  Tail,        \* what the default read keeps, DEFAULT_READ_LINES
  MaxBytes,    \* bound: units of output one terminal produces
  Valve,       \* whether detachGraceMs is positive
  None         \* undefined

ASSUME TerminalsAssumption ==
  \A t \in Terminals : t \in Nat \ {0} /\ \A n \in 1 .. t : n \in Terminals
ASSUME CapAssumption == Cap \in Nat \ {0} /\ Tail \in Nat /\ MaxBytes \in Nat
ASSUME ValveAssumption == Valve \in BOOLEAN
ASSUME TerminalNoneAssumption == None \notin Terminals \cup Sinks \cup Sessions
                                               \cup Sizes

VARIABLES
  term,         \* the entries, by ordinal
  nextOrdinal,  \* the last ordinal given out
  heard,        \* history: what each sink was handed of its terminal
  wait,         \* the tool's waits
  resizing      \* resizes asked of the provider

registryVars == <<term, nextOrdinal, heard, wait, resizing>>

-----------------------------------------------------------------------------

Term == [table    : BOOLEAN,                \* in the lookup table
         state    : {"running", "detached", "exited"},
         owner    : Sessions \cup {None},
         attaches : SUBSET Sinks,
         timer    : BOOLEAN,                \* the detach valve is pending
         bytes    : 0 .. MaxBytes,
         dropped  : 0 .. MaxBytes,
         paused   : BOOLEAN,                \* handle.output is paused
         flying   : SUBSET Sinks,           \* still taking the last chunk
         cut      : BOOLEAN,                \* history: last sink left mid-chunk
         size     : Sizes \cup {None},
         pty      : Sizes \cup {None}]      \* the provider's own geometry

Heard == [of : Terminals \cup {None}, upto : 0 .. MaxBytes,
          whole : BOOLEAN, told : BOOLEAN]

Wait == [phase : {"idle", "waiting", "match", "exit", "timeout", "aborted"},
         of : Terminals \cup {None}, start : 0 .. MaxBytes,
         needle : 0 .. MaxBytes]

Resize == [phase : {"idle", "asked", "accepted", "refused"},
           of : Terminals \cup {None}, size : Sizes \cup {None}]

NoTerm == [table |-> FALSE, state |-> "exited", owner |-> None, attaches |-> {},
           timer |-> FALSE, bytes |-> 0, dropped |-> 0, paused |-> FALSE,
           flying |-> {}, cut |-> FALSE, size |-> None, pty |-> None]
NoHeard == [of |-> None, upto |-> 0, whole |-> TRUE, told |-> FALSE]
NoWait == [phase |-> "idle", of |-> None, start |-> 0, needle |-> 0]
NoResize == [phase |-> "idle", of |-> None, size |-> None]

Larger(m, n) == IF m > n THEN m ELSE n

-----------------------------------------------------------------------------
(* Retained output *)

\* append: n units arrive and the oldest beyond the cap are dropped.
Appended(x, n) ==
  [x EXCEPT !.bytes = @ + n, !.dropped = Larger(@, x.bytes + n - Cap)]

\* textFrom: whether unit u is in the text retained from an offset on.
Retains(x, from, u) == u >= Larger(from, x.dropped) /\ u < x.bytes

\* retainedStart: where the tail of a default read begins.
RetainedStart(x) == Larger(x.dropped, x.bytes - Tail)

-----------------------------------------------------------------------------
(* Waits *)

\* A wait that has its answer; nothing reads what it waited for any more.
Answered(reason) == [NoWait EXCEPT !.phase = reason]

\* check of one wait against an entry.
Checked(w, x) ==
  IF Retains(x, w.start, w.needle) THEN Answered("match")
  ELSE IF x.state = "exited" THEN Answered("exit")
  ELSE w

Awaits(w, ts) == wait[w].phase = "waiting" /\ wait[w].of \in ts

NotifiedOnData(ts, now) ==  \* mutant: an exit does not wake the waits
  wait' = [w \in Waits |-> IF Awaits(w, ts) /\ now[wait[w].of].state # "exited"
                             THEN Checked(wait[w], now[wait[w].of])
                             ELSE wait[w]]

\* notify: the waits on terminals ts check what these are now.
Notify(ts, now) ==
  wait' = [w \in Waits |-> IF Awaits(w, ts) THEN Checked(wait[w], now[wait[w].of])
                                            ELSE wait[w]]

-----------------------------------------------------------------------------
(* Ending *)

\* What is left of an entry out of the table: the chunk still being taken.
Killed(x) == [NoTerm EXCEPT !.flying = x.flying, !.paused = x.paused]

\* kill, for every terminal of ts still in the table.
Kill(ts) ==
  LET gone == {t \in ts : term[t].table}
  IN  /\ term' = [t \in Terminals |->
                    IF t \in gone THEN Killed(term[t]) ELSE term[t]]
      /\ Notify(gone, [t \in Terminals |-> [term[t] EXCEPT !.state = "exited"]])

-----------------------------------------------------------------------------
(* Actions *)

RegistryInit ==
  /\ term = [t \in Terminals |-> NoTerm]
  /\ nextOrdinal = 0
  /\ heard = [k \in Sinks |-> NoHeard]
  /\ wait = [w \in Waits |-> NoWait]
  /\ resizing = [c \in Resizes |-> NoResize]

\* A terminal as it is registered.
Spawned(s, size) == [NoTerm EXCEPT !.table = TRUE, !.state = "running",
                                   !.owner = s, !.size = size, !.pty = size]

\* open, from the answer of the provider's spawn on.
Open(s, size) ==
  /\ nextOrdinal + 1 \in Terminals
  /\ nextOrdinal' = nextOrdinal + 1
  /\ term' = [term EXCEPT ![nextOrdinal + 1] = Spawned(s, size)]
  /\ UNCHANGED <<heard, wait, resizing>>

\* A sink is an object of one socket: it attaches once, and is another one
\* when nothing of the first is left.
Fresh(k) == \A t \in Terminals : k \notin term[t].attaches \cup term[t].flying

Attachable(t) == term[t].table /\ term[t].state # "exited"

\* The retained output, handed over at once.
Replayed(t) == [of |-> t, upto |-> term[t].bytes, whole |-> TRUE, told |-> FALSE]

WatchedKeepsValve(t, k) ==  \* mutant: the pending valve is not cancelled
  /\ Attachable(t)
  /\ Fresh(k)
  /\ term' = [term EXCEPT ![t] = [@ EXCEPT !.state = "running",
                                           !.attaches = @ \cup {k}]]
  /\ heard' = [heard EXCEPT ![k] = Replayed(t)]

\* An entry with one more sink: the valve is cancelled.
Viewed(x, k) == [x EXCEPT !.timer = FALSE, !.state = "running",
                          !.attaches = @ \cup {k}]

\* What attach does to the table and to what the sink has been handed: the
\* retained output is replayed.
Watched(t, k) ==
  /\ Attachable(t)
  /\ Fresh(k)
  /\ term' = [term EXCEPT ![t] = Viewed(term[t], k)]
  /\ heard' = [heard EXCEPT ![k] = Replayed(t)]

\* attach
Attach(t, k) == Watched(t, k) /\ UNCHANGED <<nextOrdinal, wait, resizing>>

\* The last sink of a live terminal leaves it detached, perhaps with a valve.
Unwatched(x) == [x EXCEPT !.state = "detached", !.timer = @ \/ Valve,
                          !.cut = @ \/ x.flying # {}]

DetachKeepsCorpse(t, k) ==  \* mutant: an exited terminal is not released
  LET left == [term[t] EXCEPT !.attaches = @ \ {k}]
      last == left.table /\ left.attaches = {}
  IN  /\ heard' = [heard EXCEPT ![k] = NoHeard]
      /\ term' = [term EXCEPT ![t] = IF last /\ left.state # "exited"
                                       THEN Unwatched(left) ELSE left]
      /\ UNCHANGED <<nextOrdinal, wait, resizing>>

\* detach: an exited terminal goes with its last sink.
Detach(t, k) ==
  LET left == [term[t] EXCEPT !.attaches = @ \ {k}]
      last == left.table /\ left.attaches = {}
  IN  /\ heard' = [heard EXCEPT ![k] = NoHeard]
      /\ \/ last /\ left.state = "exited" /\ Kill({t})
         \/ /\ ~(last /\ left.state = "exited")
            /\ term' = [term EXCEPT ![t] = IF last THEN Unwatched(left) ELSE left]
            /\ UNCHANGED wait
      /\ UNCHANGED <<nextOrdinal, resizing>>

\* The valve expires.
ValveExpires(t) ==
  /\ term[t].timer
  /\ Kill({t})
  /\ UNCHANGED <<nextOrdinal, heard, resizing>>

\* The chunk is handed to every sink attached when it arrived.
Delivered(t, x, n) ==
  [k \in Sinks |-> IF k \notin x.attaches THEN heard[k]
                     ELSE [heard[k] EXCEPT !.upto = x.bytes + n,
                             !.whole = @ /\ heard[k].upto = x.bytes]]

\* An entry whose last chunk its sinks are taking.
Handing(x) == [x EXCEPT !.paused = TRUE, !.flying = x.attaches]

\* A data event (pump): append, wake the waits, hand the chunk to the sinks
\* and pause until each has taken it.
Data(t, n) ==
  /\ term[t].table
  /\ ~term[t].paused
  /\ term[t].bytes + n <= MaxBytes
  /\ LET x == Appended(term[t], n)
     IN  /\ term' = [term EXCEPT ![t] = IF x.attaches = {} THEN x ELSE Handing(x)]
         /\ Notify({t}, term')
         /\ heard' = Delivered(t, term[t], n)
  /\ UNCHANGED <<nextOrdinal, resizing>>

\* The last sink to take the chunk resumes the stream, if it is running.
TakenBy(x, k) ==
  [x EXCEPT !.flying = @ \ {k},
            !.paused = @ /\ ~(x.flying = {k} /\ x.state = "running")]

\* A sink has taken the chunk.
Taken(t, k) ==
  /\ k \in term[t].flying
  /\ term' = [term EXCEPT ![t] = TakenBy(term[t], k)]
  /\ UNCHANGED <<nextOrdinal, heard, wait, resizing>>

\* The process ended (done): report to the sinks, wake the waits, and release
\* the entry if nobody watches.
Exit(t) ==
  /\ Attachable(t)
  /\ heard' = [k \in Sinks |-> IF k \in term[t].attaches
                                 THEN [heard[k] EXCEPT !.told = TRUE]
                                 ELSE heard[k]]
  /\ IF term[t].attaches = {}
       THEN Kill({t})
       ELSE LET x == [term[t] EXCEPT !.state = "exited"]
            IN  /\ term' = [term EXCEPT ![t] = x]
                /\ Notify({t}, term')
  /\ UNCHANGED <<nextOrdinal, resizing>>

\* The close route, a Session ending, the plugin's teardown.
End(ts) ==
  /\ \E t \in ts : term[t].table
  /\ Kill(ts)
  /\ UNCHANGED <<nextOrdinal, heard, resizing>>

Close(t) == End({t})
ReleaseSession(s) == End({t \in Terminals : term[t].owner = s})
DisposeAll == End(Terminals)

\* wait: registered, then checked at once.
WaitBegins(w, t, given) ==
  /\ wait[w].phase = "idle"
  /\ term[t].table
  /\ \E needle \in 0 .. MaxBytes, offset \in 0 .. term[t].bytes :
       LET start == IF given THEN offset ELSE RetainedStart(term[t])
       IN  wait' = [wait EXCEPT ![w] =
             Checked([phase |-> "waiting", of |-> t, start |-> start,
                      needle |-> needle], term[t])]
  /\ UNCHANGED <<term, nextOrdinal, heard, resizing>>

\* The budget runs out, or the caller cancels.
WaitStops(w, reason) ==
  /\ wait[w].phase = "waiting"
  /\ wait' = [wait EXCEPT ![w] = Answered(reason)]
  /\ UNCHANGED <<term, nextOrdinal, heard, resizing>>

\* The tool takes the answer.
WaitAnswered(w) ==
  /\ wait[w].phase \notin {"idle", "waiting"}
  /\ wait' = [wait EXCEPT ![w] = NoWait]
  /\ UNCHANGED <<term, nextOrdinal, heard, resizing>>

\* resize: asked, taken or refused by the provider, adopted when it answers
\* (an entry out of the table is garbage, and its geometry with it).
AskResize(c, t, size) ==
  /\ resizing[c].phase = "idle"
  /\ term[t].table
  /\ resizing' = [resizing EXCEPT ![c] = [phase |-> "asked", of |-> t, size |-> size]]

ProviderResizes(c, ok) ==
  /\ resizing[c].phase = "asked"
  /\ resizing' = [resizing EXCEPT ![c] =
       IF ok THEN [@ EXCEPT !.phase = "accepted"]
             ELSE [NoResize EXCEPT !.phase = "refused"]]
  /\ LET t == resizing[c].of
     IN  term' = IF ok /\ term[t].table
                   THEN [term EXCEPT ![t] = [@ EXCEPT !.pty = resizing[c].size]]
                   ELSE term
  /\ UNCHANGED <<nextOrdinal, heard, wait>>

ResizeAnswered(c) ==
  /\ resizing[c].phase \in {"accepted", "refused"}
  /\ resizing' = [resizing EXCEPT ![c] = NoResize]
  /\ LET t == resizing[c].of
     IN  term' = IF resizing[c].phase = "accepted" /\ term[t].table
                   THEN [term EXCEPT ![t] = [@ EXCEPT !.size = resizing[c].size]]
                   ELSE term
  /\ UNCHANGED <<nextOrdinal, heard, wait>>

-----------------------------------------------------------------------------

ToolStep(w) ==
  \/ \E t \in Terminals, given \in BOOLEAN : WaitBegins(w, t, given)
  \/ \E reason \in {"timeout", "aborted"} : WaitStops(w, reason)
  \/ WaitAnswered(w)

ResizeStep(c) ==
  \/ \E ok \in BOOLEAN : ProviderResizes(c, ok)
  \/ ResizeAnswered(c)

-----------------------------------------------------------------------------
(* Safety *)

(* The table has its declared shape, and the ring buffer keeps exactly the   *)
(* newest output up to its cap, whatever sizes the chunks came in (append).  *)
RegistryTypeOK ==
  /\ term \in [Terminals -> Term]
  /\ nextOrdinal \in Terminals \cup {0}
  /\ heard \in [Sinks -> Heard]
  /\ wait \in [Waits -> Wait]
  /\ resizing \in [Resizes -> Resize]
  /\ \A t \in Terminals : term[t].dropped = Larger(0, term[t].bytes - Cap)

(* A pending detach valve belongs to a live terminal nobody watches: it can  *)
(* not end one that was reattached, and a killed one leaves none behind.     *)
ValveMeansUnwatched ==
  \A t \in Terminals : term[t].timer =>
    term[t].table /\ term[t].state = "detached" /\ term[t].attaches = {}

(* An exited terminal is in the table only for those still viewing it, and   *)
(* one that reads as detached has no viewer (settle, detach).                *)
NoCorpse ==
  \A t \in Terminals :
    /\ term[t].table /\ term[t].state = "exited" => term[t].attaches # {}
    /\ term[t].state = "detached" => term[t].attaches = {}

(* A sink has been handed its terminal's output without a gap or a repeat,   *)
(* from what was retained when it attached up to the newest unit: attach's   *)
(* replay and pump's snapshot of the sinks fit together.                     *)
HandedInOrder ==
  \A t \in Terminals : \A k \in term[t].attaches :
    heard[k].of = t /\ heard[k].whole /\ heard[k].upto = term[t].bytes

(* "One chunk in flight per sink" (pump): no data event while a sink is      *)
(* still taking the last chunk, however sinks come and go meanwhile.         *)
OneChunkInFlight ==
  \A t \in Terminals : term[t].flying # {} => term[t].paused

(* A watched terminal is paused only for a chunk some sink is still taking,  *)
(* unless its last sink had left in the middle of one (cut): that shell      *)
(* stays paused, see terminal_pause.cfg, and of it nothing is claimed.       *)
PauseEnds ==
  \A t \in Terminals :
    term[t].paused /\ term[t].state = "running" /\ ~term[t].cut =>
      term[t].flying # {}

(* The table agrees with itself and with what its sinks were handed,         *)
(* whatever order sinks, output, exits and kills come in: the ring buffer,   *)
(* the valve, the release of an exited terminal, the order of the output and *)
(* the pacing of the stream.                                                 *)
TableInv ==
  /\ RegistryTypeOK
  /\ ValveMeansUnwatched
  /\ NoCorpse
  /\ HandedInOrder
  /\ OneChunkInFlight
  /\ PauseEnds

(* "Its output keeps filling the ring buffer": a detached terminal whose last *)
(* chunk has been taken is not left paused, so its shell can go on.          *)
DetachedKeepsFilling ==
  \A t \in Terminals :
    term[t].table /\ term[t].state = "detached" /\ term[t].paused =>
      term[t].flying # {}

(* A wait still pending has missed nothing: its text is not in what is       *)
(* retained from its start on, and its terminal has not ended.               *)
NoWaitMissed ==
  \A w \in Waits : wait[w].phase = "waiting" =>
    LET x == term[wait[w].of]
    IN  /\ x.table /\ x.state # "exited"
        /\ ~Retains(x, wait[w].start, wait[w].needle)

=============================================================================
