-------------------------- MODULE WorktreesProofs --------------------------
(***************************************************************************)
(* Proofs about Worktrees, for any repositories, names, hand-cut checkouts *)
(* and any number of changes left half done.                               *)
(*                                                                         *)
(* They are of one request at a time and of names without a slash: two     *)
(* creates of one path at a time, and a name that is not one segment, do   *)
(* break what is proved here (anchors.ts 347 and 71).                      *)
(***************************************************************************)
EXTENDS Worktrees, SequenceTheorems, TLAPS

\* The premises.
OneCaller == \A c, d \in Callers : c = d

PlainNames == /\ Parent = [n \in Names \cup Hand |-> None]
              /\ None \notin Names \cup Hand \cup {".self"}

-----------------------------------------------------------------------------
(* Types.                                                                  *)

\* What a request has left to do, at any moment of it.
Creating  == {<<"add", "write", "record", "enter">>, <<"write", "record", "enter">>,
              <<"add", "record", "enter">>, <<"record", "enter">>, <<"enter">>}
Adopting  == {<<"write", "openOrDrop">>, <<"openOrDrop">>, <<"drop">>}
Entering  == {<<"open">>, <<"leaveOrFail">>}
Releasing == {<<"leaveOrFail", "drop">>, <<"drop">>, <<"leave", "drop">>, <<"leave">>}
Removing  == {<<"cut">>, <<"cut", "leave">>, <<"cut", "leave", "drop">>,
              <<"leave", "drop">>, <<"leave">>, <<"drop">>}
Listing   == {<<"record">>, <<"forget">>, <<"leave", "forget">>, <<"drop", "forget">>,
              <<"leave", "drop", "forget">>, <<"unlist", "purge">>, <<"purge">>}

Shapes == {<<>>} \cup Creating \cup Adopting \cup Entering \cup Releasing
            \cup Removing \cup Listing

Ops == {"create", "adopt", "open", "close", "release", "remove", "addRepo",
        "deleteRepo", "deleteNode", "answered"}

Requests ==
  {q \in [op : Ops, anchor : Rows \cup {None}, steps : Shapes, next : SUBSET Repos,
          ok : BOOLEAN] : q.steps # <<>> => q.anchor \in Rows}

NoneIsNothing == None \notin Requests /\ None \notin Anchors

Types ==
  /\ checkouts \subseteq [repo : Repos, path : Paths]
  /\ anchors \subseteq Anchors
  /\ repos \subseteq Repos
  /\ entries \subseteq {a.slot : a \in Rows}
  /\ known \in BOOLEAN
  /\ request \in [Callers -> Requests \cup {None}]
  /\ meta = anchors
  /\ repoFile = repos

-----------------------------------------------------------------------------
(* The inductive invariant.                                                *)

Here(a) == a.slot[1] = "here"

\* One directory, one anchor.
SlotsDiffer == \A a, b \in anchors : a.slot = b.slot => a = b

Slipped(kind, x) == <<kind, x>> \in slips

Cuts(c) == request[c].op = "remove" /\ request[c].steps \in {<<"leave", "drop">>, <<"drop">>}

\* An anchor without its checkout is being removed, or its removal slipped;
\* two anchors of one checkout are what such a slip leaves room for.
CheckoutsThere == \A a \in anchors : a.kind = "worktree" =>
  /\ \/ Checkout(a) \in checkouts \/ Slipped("cut", Checkout(a))
     \/ \E c \in Callers : ~Idle(c) /\ Cuts(c) /\ request[c].anchor = a
  /\ \A b \in anchors : b.kind = "worktree" /\ Checkout(b) = Checkout(a) =>
       a = b \/ Slipped("cut", Checkout(a))

\* The repository of an anchor is recorded, or is about to be.
ReposThere == known => \A a \in anchors : a.kind = "worktree" =>
  \/ a.repo \in repos \/ Slipped("record", a.repo)
  \/ \E c \in Callers : /\ ~Idle(c) /\ request[c].steps = <<"record", "enter">>
                        /\ request[c].anchor.repo = a.repo

\* An entry of an anchor has it, or its removal slipped.
EntriesThere == \A e \in entries :
  e[1] = "here" \/ Slipped("entry", e) \/ \E a \in anchors : a.slot = e

NoEntry(a) == Here(a) \/ a.slot \notin entries \/ Slipped("entry", a.slot)

Writes == {"record", "forget", "purge"}

\* What is still to come of a request's steps.
Dropping == {<<"drop">>, <<"drop", "forget">>, <<"leaveOrFail", "drop">>,
             <<"leave", "drop">>, <<"leave", "drop", "forget">>, <<"cut", "leave", "drop">>}

Forgetting == {<<"forget">>, <<"drop", "forget">>, <<"leave", "forget">>,
               <<"leave", "drop", "forget">>}

\* What a request may rely on at each of its steps, nobody else being at work.
ReliesAdding(q) == Head(q.steps) = "add" =>
  /\ q.anchor.kind = "worktree" /\ q.anchor.path \in Paths
  /\ IF q.steps = <<"add", "record", "enter">> THEN Here(q.anchor) ELSE q.anchor \in Anchors

ReliesWriting(q) == Head(q.steps) = "write" =>
  /\ q.anchor \in Anchors /\ ~Owned(q.anchor.slot) /\ NoEntry(q.anchor)
  /\ q.anchor.kind = "worktree" =>
       /\ Checkout(q.anchor) \in checkouts
       /\ \A b \in anchors : b.kind = "worktree" /\ Checkout(b) = Checkout(q.anchor) =>
            Slipped("cut", Checkout(q.anchor))
       /\ q.steps = <<"write", "openOrDrop">> => q.anchor.repo \in repos

ReliesEntering(q) ==
  Head(q.steps) \in {"enter", "open", "openOrDrop"} \/ q.steps = <<"record", "enter">> =>
    Here(q.anchor) \/ q.anchor \in anchors

ReliesDropping(q) ==
  /\ q.steps \in Dropping \/ Head(q.steps) = "openOrDrop" => q.anchor \in Anchors
  /\ Head(q.steps) \in {"drop", "openOrDrop"} => NoEntry(q.anchor) \/ q.anchor \notin anchors

ReliesCutting(q) == Head(q.steps) = "cut" =>
  /\ q.op = "remove" /\ q.anchor.path \in Paths
  /\ q.steps = <<"cut">> =>
       \A b \in anchors : b.kind = "worktree" => Checkout(b) # Checkout(q.anchor)
  /\ q.steps = <<"cut", "leave">> => q.anchor.repo \in Local
  /\ q.steps = <<"cut", "leave", "drop">> => q.anchor \in anchors /\ q.anchor.kind = "worktree"

ReliesForgetting(q) ==
  /\ q.steps \in Forgetting =>
       \A b \in anchors : b.kind = "worktree" => b.repo # q.anchor.repo
  /\ Head(q.steps) = "purge" => ~known

Entitled(q) == /\ ReliesAdding(q) /\ ReliesWriting(q) /\ ReliesEntering(q)
               /\ ReliesDropping(q) /\ ReliesCutting(q) /\ ReliesForgetting(q)

\* The list a document write publishes is the one it should still publish.
ListIsFresh(q) == Head(q.steps) \in Writes => q.next = Target(q)

Relies(q) == Entitled(q) /\ ListIsFresh(q)

Agree == /\ SlotsDiffer /\ CheckoutsThere /\ ReposThere /\ EntriesThere
         /\ \A c \in Callers : ~Idle(c) => Relies(request[c])

-----------------------------------------------------------------------------
(* Requests *)

(* The first step says what else there is to do.                             *)
LEMMA HeadTells ==
  ASSUME NEW s \in Shapes, s # <<>>
  PROVE  /\ Head(s) \in {"add", "write", "record", "enter", "open", "openOrDrop",
                        "leaveOrFail", "leave", "drop", "cut", "forget", "unlist", "purge"}
         /\ Head(s) = "add" => s \in {<<"add", "write", "record", "enter">>,
                                      <<"add", "record", "enter">>}
         /\ Head(s) = "write" => s \in {<<"write", "record", "enter">>,
                                        <<"write", "openOrDrop">>}
         /\ Head(s) = "record" => s \in {<<"record", "enter">>, <<"record">>}
         /\ Head(s) = "enter" => s \in {<<"enter">>}
         /\ Head(s) = "open" => s \in {<<"open">>}
         /\ Head(s) = "openOrDrop" => s \in {<<"openOrDrop">>}
         /\ Head(s) = "leaveOrFail" => s \in {<<"leaveOrFail">>,
                                              <<"leaveOrFail", "drop">>}
         /\ Head(s) = "leave" => s \in {<<"leave">>,
                                        <<"leave", "drop">>, <<"leave", "forget">>,
                                        <<"leave", "drop", "forget">>}
         /\ Head(s) = "drop" => s \in {<<"drop">>, <<"drop", "forget">>}
         /\ Head(s) = "cut" => s \in {<<"cut">>,
                                      <<"cut", "leave">>, <<"cut", "leave", "drop">>}
         /\ Head(s) = "forget" => s \in {<<"forget">>}
         /\ Head(s) = "unlist" => s \in {<<"unlist", "purge">>}
         /\ Head(s) = "purge" => s \in {<<"purge">>}
BY DEF Shapes, Creating, Adopting, Entering, Releasing, Removing, Listing

(* A few steps without the first.                                            *)
LEMMA Tails ==
  /\ \A x : Tail(<<x>>) = <<>>
  /\ \A x, y : Tail(<<x, y>>) = <<y>>
  /\ \A x, y, z : Tail(<<x, y, z>>) = <<y, z>>
  /\ \A x, y, z, w : Tail(<<x, y, z, w>>) = <<y, z, w>>
OBVIOUS

(* Joining a few steps.                                                      *)
LEMMA JoinOneOne ==
  ASSUME NEW x, NEW y
  PROVE  <<x>> \o <<y>> = <<x, y>>
<1> DEFINE s == <<x>> \o <<y>>
           t == <<x, y>>
<1>1. s \in Seq({x, y}) /\ t \in Seq({x, y}) /\ Len(s) = 2 /\ Len(t) = 2
  OBVIOUS
<1>2. \A i \in 1 .. 2 : s[i] = t[i]
  <2>1. s[1] = x /\ s[2] = y
    OBVIOUS
  <2> QED BY <2>1
<1> HIDE DEF s, t
<1> QED BY <1>1, <1>2, SeqEqual DEF s, t

LEMMA JoinOneTwo ==
  ASSUME NEW x, NEW y, NEW z
  PROVE  <<x>> \o <<y, z>> = <<x, y, z>>
<1> DEFINE s == <<x>> \o <<y, z>>
           t == <<x, y, z>>
<1>1. s \in Seq({x, y, z}) /\ t \in Seq({x, y, z}) /\ Len(s) = 3 /\ Len(t) = 3
  OBVIOUS
<1>2. \A i \in 1 .. 3 : s[i] = t[i]
  <2>1. s[1] = x /\ s[2] = y /\ s[3] = z
    OBVIOUS
  <2> QED BY <2>1
<1> HIDE DEF s, t
<1> QED BY <1>1, <1>2, SeqEqual DEF s, t

LEMMA JoinTwoOne ==
  ASSUME NEW x, NEW y, NEW z
  PROVE  <<x, y>> \o <<z>> = <<x, y, z>>
<1> DEFINE s == <<x, y>> \o <<z>>
           t == <<x, y, z>>
<1>1. s \in Seq({x, y, z}) /\ t \in Seq({x, y, z}) /\ Len(s) = 3 /\ Len(t) = 3
  OBVIOUS
<1>2. \A i \in 1 .. 3 : s[i] = t[i]
  <2>1. s[1] = x /\ s[2] = y /\ s[3] = z
    OBVIOUS
  <2> QED BY <2>1
<1> HIDE DEF s, t
<1> QED BY <1>1, <1>2, SeqEqual DEF s, t

(* What is left after the first step, by what that step is.                  *)
LEMMA AfterAdd ==
  ASSUME NEW s \in Shapes, s # <<>>, Head(s) = "add"
  PROVE  \/ s = <<"add", "write", "record", "enter">> /\ Tail(s) = <<"write", "record", "enter">>
         \/ s = <<"add", "record", "enter">> /\ Tail(s) = <<"record", "enter">>
<1>1. s \in {<<"add", "write", "record", "enter">>, <<"add", "record", "enter">>}
  BY HeadTells
<1>2. CASE s = <<"add", "write", "record", "enter">>
  <2>1. Tail(s) = <<"write", "record", "enter">>
    BY <1>2
  <2> QED BY <1>2, <2>1
<1>3. CASE s = <<"add", "record", "enter">>
  <2>1. Tail(s) = <<"record", "enter">>
    BY <1>3
  <2> QED BY <1>3, <2>1
<1> QED BY <1>1, <1>2, <1>3

LEMMA AfterWrite ==
  ASSUME NEW s \in Shapes, s # <<>>, Head(s) = "write"
  PROVE  \/ s = <<"write", "record", "enter">> /\ Tail(s) = <<"record", "enter">>
         \/ s = <<"write", "openOrDrop">> /\ Tail(s) = <<"openOrDrop">>
<1>1. s \in {<<"write", "record", "enter">>, <<"write", "openOrDrop">>}
  BY HeadTells
<1>2. CASE s = <<"write", "record", "enter">>
  <2>1. Tail(s) = <<"record", "enter">>
    BY <1>2
  <2> QED BY <1>2, <2>1
<1>3. CASE s = <<"write", "openOrDrop">>
  <2>1. Tail(s) = <<"openOrDrop">>
    BY <1>3, Tails, Zenon
  <2> QED BY <1>3, <2>1
<1> QED BY <1>1, <1>2, <1>3

LEMMA AfterRecord ==
  ASSUME NEW s \in Shapes, s # <<>>, Head(s) = "record"
  PROVE  \/ s = <<"record", "enter">> /\ Tail(s) = <<"enter">>
         \/ s = <<"record">> /\ Tail(s) = <<>>
<1>1. s \in {<<"record", "enter">>, <<"record">>}
  BY HeadTells
<1> QED BY <1>1, Tails, Zenon

LEMMA AfterLeaveOrFail ==
  ASSUME NEW s \in Shapes, s # <<>>, Head(s) = "leaveOrFail"
  PROVE  \/ s = <<"leaveOrFail">> /\ Tail(s) = <<>>
         \/ s = <<"leaveOrFail", "drop">> /\ Tail(s) = <<"drop">>
<1>1. s \in {<<"leaveOrFail">>, <<"leaveOrFail", "drop">>}
  BY HeadTells
<1> QED BY <1>1, Tails, Zenon

LEMMA AfterLeave ==
  ASSUME NEW s \in Shapes, s # <<>>, Head(s) = "leave"
  PROVE  \/ s = <<"leave">> /\ Tail(s) = <<>>
         \/ s = <<"leave", "drop">> /\ Tail(s) = <<"drop">>
         \/ s = <<"leave", "forget">> /\ Tail(s) = <<"forget">>
         \/ s = <<"leave", "drop", "forget">> /\ Tail(s) = <<"drop", "forget">>
<1>1. s \in {<<"leave">>, <<"leave", "drop">>, <<"leave", "forget">>, <<"leave", "drop", "forget">>}
  BY HeadTells
<1>2. CASE s = <<"leave">>
  <2>1. Tail(s) = <<>>
    BY <1>2, Tails, Zenon
  <2> QED BY <1>2, <2>1
<1>3. CASE s = <<"leave", "drop">>
  <2>1. Tail(s) = <<"drop">>
    BY <1>3, Tails, Zenon
  <2> QED BY <1>3, <2>1
<1>4. CASE s = <<"leave", "forget">>
  <2>1. Tail(s) = <<"forget">>
    BY <1>4, Tails, Zenon
  <2> QED BY <1>4, <2>1
<1>5. CASE s = <<"leave", "drop", "forget">>
  <2>1. Tail(s) = <<"drop", "forget">>
    BY <1>5
  <2> QED BY <1>5, <2>1
<1> QED BY <1>1, <1>2, <1>3, <1>4, <1>5

LEMMA AfterDrop ==
  ASSUME NEW s \in Shapes, s # <<>>, Head(s) = "drop"
  PROVE  \/ s = <<"drop">> /\ Tail(s) = <<>>
         \/ s = <<"drop", "forget">> /\ Tail(s) = <<"forget">>
<1>1. s \in {<<"drop">>, <<"drop", "forget">>}
  BY HeadTells
<1> QED BY <1>1, Tails, Zenon

LEMMA AfterCut ==
  ASSUME NEW s \in Shapes, s # <<>>, Head(s) = "cut"
  PROVE  \/ s = <<"cut">> /\ Tail(s) = <<>>
         \/ s = <<"cut", "leave">> /\ Tail(s) = <<"leave">>
         \/ s = <<"cut", "leave", "drop">> /\ Tail(s) = <<"leave", "drop">>
<1>1. s \in {<<"cut">>, <<"cut", "leave">>, <<"cut", "leave", "drop">>}
  BY HeadTells
<1>2. CASE s = <<"cut">>
  <2>1. Tail(s) = <<>>
    BY <1>2, Tails, Zenon
  <2> QED BY <1>2, <2>1
<1>3. CASE s = <<"cut", "leave">>
  <2>1. Tail(s) = <<"leave">>
    BY <1>3, Tails, Zenon
  <2> QED BY <1>3, <2>1
<1>4. CASE s = <<"cut", "leave", "drop">>
  <2>1. Tail(s) = <<"leave", "drop">>
    BY <1>4
  <2> QED BY <1>4, <2>1
<1> QED BY <1>1, <1>2, <1>3, <1>4

LEMMA AfterLast ==
  ASSUME NEW s \in Shapes, s # <<>>,
         Head(s) \in {"enter", "open", "openOrDrop", "forget", "purge"}
  PROVE  Tail(s) = <<>>
<1>1. s \in {<<"enter">>, <<"open">>, <<"openOrDrop">>, <<"forget">>, <<"purge">>}
  BY HeadTells
<1> QED BY <1>1, Tails, Zenon

LEMMA AfterUnlist ==
  ASSUME NEW s \in Shapes, s # <<>>, Head(s) = "unlist"
  PROVE  Tail(s) = <<"purge">>
<1>1. s \in {<<"unlist", "purge">>}
  BY HeadTells
<1> QED BY <1>1, Tails, Zenon

(* What is left of a request is one of the shapes.                           *)
LEMMA TailShape ==
  ASSUME NEW s \in Shapes, s # <<>>
  PROVE  Tail(s) \in Shapes
<1>1. CASE Head(s) \in {"add", "write", "record"}
  BY <1>1, AfterAdd, AfterWrite, AfterRecord DEF Shapes, Creating, Adopting
<1>2. CASE Head(s) \in {"enter", "open", "openOrDrop", "forget", "purge"}
  BY <1>2, AfterLast DEF Shapes
<1>3. CASE Head(s) \in {"leave", "leaveOrFail", "drop", "unlist"}
  BY <1>3, AfterLeave, AfterLeaveOrFail, AfterDrop, AfterUnlist DEF Shapes, Adopting, Listing
<1>4. CASE Head(s) = "cut"
  BY <1>4, AfterCut DEF Shapes, Removing
<1> QED BY <1>1, <1>2, <1>3, <1>4, HeadTells

(* A row belongs to a repository.                                            *)
LEMMA RowTypes ==
  /\ \A a \in Rows : a.repo \in Repos
  /\ \A a \in Anchors : a \in Rows /\ a.repo \in Remote
<1>1. \A a \in Anchors : a.repo \in Remote
  BY DEF Anchors, Anchor
<1>2. \A r \in Repos : DirectoryRow(r).repo \in Repos
  BY DEF DirectoryRow, LocalRow
<1>3. \A r \in Local, p \in Paths : LocalRow(r, "worktree", p).repo \in Local
  BY DEF LocalRow
<1> QED BY <1>1, <1>2, <1>3 DEF Rows, Repos

LEMMA TargetType ==
  ASSUME repos \subseteq Repos, NEW q \in Requests, q.steps # <<>>, Head(q.steps) \in Writes
  PROVE  Target(q) \subseteq Repos
<1>1. q.anchor \in Rows
  BY DEF Requests
<1>2. q.anchor.repo \in Repos
  BY <1>1, RowTypes
<1> QED BY <1>2 DEF Target, Writes

(* A request that is answered.                                               *)
LEMMA AnsweredIs ==
  ASSUME NEW ok \in BOOLEAN
  PROVE  Answered(ok) \in Requests /\ Answered(ok).steps = <<>> /\ Answered(ok).ok = ok
BY DEF Answered, Ask, Requests, Ops, Shapes

(* A request stands before its next await; one that writes what is written   *)
(* already stands behind it.                                                 *)
LEMMA ReadyIs ==
  ASSUME repos \subseteq Repos, NEW q \in Requests
  PROVE  LET n == Ready(q)
         IN  /\ n \in Requests /\ n.ok = q.ok
             /\ \/ /\ n.steps = <<>>
                   /\ \/ q.steps = <<>>
                      \/ /\ Tail(q.steps) = <<>> /\ Head(q.steps) \in Writes
                         /\ Target(q) = repos
                \/ n.steps = q.steps
                \/ /\ q.steps = <<"record", "enter">> /\ n.steps = <<"enter">>
                   /\ q.anchor.repo \in repos
             /\ n.steps # <<>> => /\ n.anchor = q.anchor /\ n.op = q.op
                                  /\ Head(n.steps) \in Writes => n.next = Target(n)
<1> DEFINE n == Ready(q)
<1>1. /\ q.ok \in BOOLEAN /\ q.steps \in Shapes /\ q.op \in Ops
      /\ q.steps # <<>> => q.anchor \in Rows
  BY DEF Requests
<1>2. CASE q.steps = <<>>
  <2>1. n = Answered(q.ok)
    BY <1>2 DEF Ready
  <2> QED BY <1>1, <1>2, <2>1, AnsweredIs
<1>3. CASE q.steps # <<>> /\ Head(q.steps) \notin Writes
  <2>1. n = [q EXCEPT !.steps = q.steps, !.next = {}]
    BY <1>3 DEF Ready, Writes
  <2> QED BY <1>1, <1>3, <2>1 DEF Requests
<1>4. CASE q.steps # <<>> /\ Head(q.steps) \in Writes /\ Target(q) # repos
  <2>1. n = [q EXCEPT !.steps = q.steps, !.next = Target(q)]
    BY <1>4 DEF Ready, Writes
  <2>2. n \in Requests /\ n.steps = q.steps /\ n.anchor = q.anchor /\ n.op = q.op
        /\ n.ok = q.ok /\ n.next = Target(q)
    BY <1>1, <1>4, <2>1, TargetType DEF Requests
  <2>3. Target(n) = Target(q)
    BY <2>2 DEF Target
  <2> QED BY <2>2, <2>3
<1>5. CASE q.steps # <<>> /\ Head(q.steps) \in Writes /\ Target(q) = repos
  <2>1. \/ q.steps = <<"record", "enter">> /\ Tail(q.steps) = <<"enter">>
        \/ Tail(q.steps) = <<>>
    BY <1>1, <1>5, AfterRecord, AfterLast DEF Writes
  <2>2. CASE Tail(q.steps) = <<>>
    <3>1. n = Answered(q.ok)
      BY <1>5, <2>2 DEF Ready, Writes
    <3> QED BY <1>1, <1>5, <2>2, <3>1, AnsweredIs
  <2>3. CASE q.steps = <<"record", "enter">> /\ Tail(q.steps) = <<"enter">>
    <3>1. n = [q EXCEPT !.steps = <<"enter">>, !.next = {}]
      BY <1>5, <2>3 DEF Ready, Writes
    <3>2. q.anchor.repo \in repos
      BY <1>5, <2>3 DEF Target
    <3>3. <<"enter">> \in Shapes
      BY DEF Shapes, Creating
    <3>4. n \in Requests /\ n.steps = <<"enter">> /\ n.anchor = q.anchor /\ n.op = q.op
          /\ n.ok = q.ok
      BY <1>1, <1>5, <3>1, <3>3 DEF Requests
    <3>5. Head(n.steps) \notin Writes
      BY <3>4 DEF Writes
    <3> QED BY <2>3, <3>2, <3>4, <3>5
  <2> QED BY <2>1, <2>2, <2>3
<1> QED BY <1>2, <1>3, <1>4, <1>5
(* What the steps of a request begin with.                                   *)
LEMMA Heads ==
  /\ \A x : Head(<<x>>) = x /\ <<x>> # <<>>
  /\ \A x, y : Head(<<x, y>>) = x /\ <<x, y>> # <<>>
  /\ \A x, y, z : Head(<<x, y, z>>) = x /\ <<x, y, z>> # <<>>
  /\ \A x, y, z, w : Head(<<x, y, z, w>>) = x /\ <<x, y, z, w>> # <<>>
OBVIOUS

(* What the sets of steps begin with.                                        *)
LEMMA SetsTell ==
  /\ \A s \in Dropping : Head(s) \in {"drop", "leave", "leaveOrFail", "cut"}
  /\ \A s \in Forgetting : Head(s) \in {"forget", "drop", "leave"}
<1>1. \A s \in Dropping : Head(s) \in {"drop", "leave", "leaveOrFail", "cut"}
  BY DEF Dropping
<1>2. \A s \in Forgetting : Head(s) \in {"forget", "drop", "leave"}
  BY DEF Forgetting
<1> QED BY <1>1, <1>2

LEMMA HeadExcludes ==
  ASSUME NEW s
  PROVE  /\ Head(s) \notin {"drop", "leave", "leaveOrFail", "cut"} => s \notin Dropping
         /\ Head(s) \notin {"forget", "drop", "leave"} => s \notin Forgetting
         /\ Head(s) # "record" => s # <<"record", "enter">>
<1>1. Head(s) # "record" => s # <<"record", "enter">>
  BY Heads, Zenon
<1> QED BY <1>1, SetsTell

(* A request that goes on, or is answered; its caller's data is as it was.   *)
Leads(q, n) ==
  /\ n \in Requests /\ n.ok = q.ok
  /\ \/ /\ n.steps = <<>>
        /\ \/ q.steps = <<>>
           \/ Tail(q.steps) = <<>> /\ Head(q.steps) \in Writes /\ Target(q) = repos
     \/ n.steps = q.steps
     \/ /\ q.steps = <<"record", "enter">> /\ n.steps = <<"enter">>
        /\ q.anchor.repo \in repos
  /\ n.steps # <<>> => n.anchor = q.anchor /\ n.op = q.op /\ ListIsFresh(n)

LEMMA StartLeads ==
  ASSUME Types, NoneIsNothing, NEW c \in Callers, NEW q \in Requests, Start(c, q)
  PROVE  /\ request' \in [Callers -> Requests \cup {None}]
         /\ request'[c] # None
         /\ Leads(q, request'[c])
<1>1. request'[c] = Ready(q)
  BY DEF Start, Types
<1>2. Leads(q, Ready(q))
  BY ReadyIs DEF Types, Leads, ListIsFresh
<1> QED BY <1>1, <1>2 DEF Start, Types, Leads, NoneIsNothing

LEMMA GoLeads ==
  ASSUME Types, NoneIsNothing, NEW c \in Callers, ~Idle(c), Go(c)
  PROVE  /\ request' \in [Callers -> Requests \cup {None}]
         /\ request'[c] # None
         /\ Leads(Rest(request[c]), request'[c])
<1> DEFINE q == Rest(request[c])
<1>1. /\ request[c] \in Requests /\ request[c].steps # <<>>
  BY DEF Types, Idle
<1>2. Tail(request[c].steps) \in Shapes
  BY <1>1, TailShape DEF Requests
<1>3. q \in Requests
  BY <1>1, <1>2 DEF Requests, Rest
<1>4. request'[c] = Ready(q)
  BY DEF Go, Types
<1>5. Leads(q, Ready(q))
  BY <1>3, ReadyIs DEF Types, Leads, ListIsFresh
<1> QED BY <1>4, <1>5 DEF Go, Types, Leads, NoneIsNothing

LEMMA FailLeads ==
  ASSUME Types, NoneIsNothing, NEW c \in Callers, Fail(c)
  PROVE  /\ request' \in [Callers -> Requests \cup {None}]
         /\ request'[c] # None
         /\ request'[c].steps = <<>> /\ ~request'[c].ok
<1>1. Answered(FALSE) \in Requests /\ Answered(FALSE).steps = <<>> /\ Answered(FALSE).ok = FALSE
  BY AnsweredIs
<1> QED BY <1>1 DEF Fail, Types, NoneIsNothing

(* A request under way is a request with a row and a first step.             *)
LEMMA Pending ==
  ASSUME Types, NEW c \in Callers, ~Idle(c)
  PROVE  /\ request[c] \in Requests /\ request[c].steps \in Shapes
         /\ request[c].steps # <<>> /\ request[c].anchor \in Rows
BY DEF Types, Idle, Requests

LEMMA AtIs ==
  ASSUME Types, NEW c \in Callers, NEW S, At(c, S)
  PROVE  /\ ~Idle(c) /\ Head(request[c].steps) \in S
         /\ request[c] \in Requests /\ request[c].steps \in Shapes
         /\ request[c].steps # <<>> /\ request[c].anchor \in Rows
BY DEF Types, Idle, Requests, At

-----------------------------------------------------------------------------
(* Slots of plain names lie in no other.                                     *)

LEMMA SlotOfAnchor ==
  ASSUME PlainNames, NEW a \in Anchors
  PROVE  /\ a.slot[2] # None
         /\ a.kind = "worktree" => a.slot[2] \in Names \cup Hand
         /\ a.kind \in {"worktree", "directory"}
         /\ a.kind = "worktree" => a.path \in Paths
         /\ a.repo \in Remote
<1>1. CASE a \in {Anchor(r, "worktree", p, n) : r \in Remote, p \in Paths, n \in Names \cup Hand}
  <2>1. PICK r \in Remote, p \in Paths, n \in Names \cup Hand : a = Anchor(r, "worktree", p, n)
    BY <1>1
  <2>2. a.slot = <<Base[r], n>> /\ a.kind = "worktree" /\ a.path = p /\ a.repo = r
    BY <2>1 DEF Anchor, Slot
  <2> QED BY <2>2 DEF PlainNames
<1>2. CASE a \in {Anchor(r, "directory", <<Base[r], ".self">>, None) : r \in Remote}
  <2>1. PICK r \in Remote : a = Anchor(r, "directory", <<Base[r], ".self">>, None)
    BY <1>2
  <2>2. a.slot = <<Base[r], ".self">> /\ a.kind = "directory" /\ a.repo = r
    BY <2>1 DEF Anchor, Slot
  <2> QED BY <2>2 DEF PlainNames
<1> QED BY <1>1, <1>2 DEF Anchors

LEMMA WithinIsEqual ==
  ASSUME PlainNames, NEW a \in Anchors, NEW b
  PROVE  IsWithin(a.slot, b) <=> b = a.slot
<1>1. a.slot[2] # None
  BY SlotOfAnchor
<1>2. \A n \in DOMAIN Parent : Parent[n] = None
  BY DEF PlainNames
<1> QED BY <1>1, <1>2 DEF IsWithin

LEMMA LoadedIsMeta ==
  ASSUME PlainNames, Types
  PROVE  Loaded = anchors
<1>1. \A a \in meta : a.kind = "directory" \/ Parent[a.slot[2]] = None
  BY SlotOfAnchor DEF Types, PlainNames
<1> QED BY <1>1 DEF Loaded, Types

(* What can be held is an anchor, or a row of this host.                     *)
LEMMA HeldIs ==
  ASSUME Types, NEW a \in Held
  PROVE  /\ a \in Rows
         /\ a \in anchors \/ (Here(a) /\ a.repo \in Local
                               /\ (a.kind = "worktree" => a.path \in Paths))
<1>1. CASE a \in anchors
  BY <1>1, RowTypes DEF Types
<1>2. CASE \E r \in repos \cap Local : a = DirectoryRow(r)
  <2>1. PICK r \in repos \cap Local : a = DirectoryRow(r)
    BY <1>2
  <2>2. a \in Rows
    BY <2>1 DEF Rows, Types
  <2>3. a.slot = <<"here">> \o <<Base[r], ".self">> /\ a.repo = r /\ a.kind = "directory"
    BY <2>1 DEF DirectoryRow, LocalRow
  <2>4. (<<"here">> \o <<Base[r], ".self">>)[1] = "here"
    OBVIOUS
  <2> QED BY <2>2, <2>3, <2>4 DEF Here
<1>3. CASE \E k \in checkouts : k.repo \in repos \cap Local /\ a = LocalRow(k.repo, "worktree", k.path)
  <2>1. PICK k \in checkouts : k.repo \in repos \cap Local /\ a = LocalRow(k.repo, "worktree", k.path)
    BY <1>3
  <2>2. k.path \in Paths /\ k.repo \in Local
    BY <2>1 DEF Types
  <2>3. a \in Rows
    BY <2>1, <2>2 DEF Rows
  <2>4. a.slot = <<"here">> \o k.path /\ a.repo = k.repo /\ a.path = k.path
    BY <2>1 DEF LocalRow
  <2>5. (<<"here">> \o k.path)[1] = "here"
    <3>1. k.path \in Seq({k.path[1], k.path[2]})
      <4>1. PICK x, y : k.path = <<x, y>>
        BY <2>2 DEF Paths, Managed, Elsewhere
      <4> QED BY <4>1
    <3> QED BY <3>1
  <2> QED BY <2>2, <2>3, <2>4, <2>5 DEF Here
<1> QED BY <1>1, <1>2, <1>3 DEF Held, LocalRows
-----------------------------------------------------------------------------
(* What a request may rely on when it is asked.                              *)

Asked(c, q) == /\ q \in Requests /\ Start(c, q)
               /\ q.steps # <<>> => Entitled(q) /\ q.steps # <<"record", "enter">>

LEMMA AskIs ==
  ASSUME NEW op \in Ops, NEW a \in Rows, NEW s \in Shapes
  PROVE  /\ Ask(op, a, s) \in Requests
         /\ Ask(op, a, s).op = op /\ Ask(op, a, s).anchor = a /\ Ask(op, a, s).steps = s
BY DEF Ask, Requests

(* No entry without its anchor, while nobody holds the directory.            *)
LEMMA UnownedHasNoEntry ==
  ASSUME EntriesThere, NEW a, ~Owned(a.slot)
  PROVE  NoEntry(a)
BY DEF EntriesThere, Owned, NoEntry, Here

(* What a request relies on is there as long as no list, entry or slip        *)
(* changes and no checkout goes.                                             *)
LEMMA ReliesStays ==
  ASSUME NEW m, Relies(m), UNCHANGED <<anchors, repos, entries, known, slips>>,
         checkouts \subseteq checkouts'
  PROVE  Relies(m)'
<1>1. ReliesAdding(m)' /\ ReliesEntering(m)' /\ ReliesForgetting(m)' /\ ListIsFresh(m)'
  BY DEF Relies, Entitled, ReliesAdding, ReliesEntering, ReliesForgetting, ListIsFresh, Target
<1>2. ReliesWriting(m)'
  BY DEF Relies, Entitled, ReliesWriting, Owned, NoEntry, Slipped
<1>3. ReliesDropping(m)' /\ ReliesCutting(m)'
  BY DEF Relies, Entitled, ReliesDropping, ReliesCutting, NoEntry, Slipped
<1> QED BY <1>1, <1>2, <1>3 DEF Relies, Entitled

LEMMA PathIs ==
  ASSUME NEW p \in Paths
  PROVE  Segment(p) \in Names \cup Hand
BY DEF Paths, Managed, Elsewhere, Segment

LEMMA CreateAsks ==
  ASSUME Types, NEW c \in Callers, Create(c)
  PROVE  \E q : Asked(c, q)
<1>1. PICK r \in Repos, n \in Names, path \in Paths :
        /\ path \in {Managed(r, n)} \cup Elsewhere
        /\ r \in Remote => known
        /\ Start(c, Ask("create", IF r \in Local THEN LocalRow(r, "worktree", path)
                                  ELSE Anchor(r, "worktree", path, n), CreateSteps(r)))
  BY DEF Create
<1>2. CASE r \in Local
  <2> DEFINE a == LocalRow(r, "worktree", path)
             q == Ask("create", a, <<"add", "record", "enter">>)
  <2>1. a \in Rows
    BY <1>2 DEF Rows
  <2>2. <<"add", "record", "enter">> \in Shapes
    BY DEF Shapes, Creating
  <2>3. /\ q \in Requests /\ q.anchor = a /\ q.steps = <<"add", "record", "enter">>
    BY <2>1, <2>2, AskIs DEF Ops
  <2>4. Start(c, q)
    BY <1>1, <1>2 DEF CreateSteps
  <2>5. a.kind = "worktree" /\ a.path \in Paths /\ a.slot = <<"here">> \o path
    BY DEF LocalRow
  <2>6. Here(a)
    <3>1. PICK x, y : path = <<x, y>>
      BY DEF Paths, Managed, Elsewhere
    <3>2. (<<"here">> \o <<x, y>>)[1] = "here"
      OBVIOUS
    <3> QED BY <2>5, <3>1, <3>2 DEF Here
  <2>7. Head(q.steps) = "add"
    BY <2>3
  <2>8. q.steps \notin Dropping /\ q.steps \notin Forgetting /\ q.steps # <<"record", "enter">>
    BY <2>7, HeadExcludes
  <2> HIDE DEF q, a
  <2>9. Entitled(q)
    BY <2>3, <2>5, <2>6, <2>7, <2>8
       DEF Entitled, ReliesAdding, ReliesWriting, ReliesEntering, ReliesDropping,
           ReliesCutting, ReliesForgetting
  <2> QED BY <2>3, <2>4, <2>8, <2>9 DEF Asked
<1>3. CASE r \notin Local
  <2> DEFINE a == Anchor(r, "worktree", path, n)
             q == Ask("create", a, <<"add", "write", "record", "enter">>)
  <2>1. a \in Anchors /\ a \in Rows
    BY <1>3 DEF Rows, Anchors, Repos
  <2>2. <<"add", "write", "record", "enter">> \in Shapes
    BY DEF Shapes, Creating
  <2>3. /\ q \in Requests /\ q.anchor = a /\ q.steps = <<"add", "write", "record", "enter">>
    BY <2>1, <2>2, AskIs DEF Ops
  <2>4. Start(c, q)
    BY <1>1, <1>3 DEF CreateSteps
  <2>5. a.kind = "worktree" /\ a.path \in Paths
    BY DEF Anchor
  <2>6. <<"add", "write", "record", "enter">> # <<"add", "record", "enter">>
    OBVIOUS
  <2>7. Head(q.steps) = "add"
    BY <2>3
  <2>8. q.steps \notin Dropping /\ q.steps \notin Forgetting /\ q.steps # <<"record", "enter">>
    BY <2>7, HeadExcludes
  <2> HIDE DEF q, a
  <2>9. Entitled(q)
    BY <2>1, <2>3, <2>5, <2>6, <2>7, <2>8
       DEF Entitled, ReliesAdding, ReliesWriting, ReliesEntering, ReliesDropping,
           ReliesCutting, ReliesForgetting
  <2> QED BY <2>3, <2>4, <2>8, <2>9 DEF Asked
<1> QED BY <1>2, <1>3
LEMMA AnsweredAsks ==
  ASSUME NEW c, Start(c, Answered(FALSE))
  PROVE  Asked(c, Answered(FALSE))
BY AnsweredIs DEF Asked

LEMMA OpenAsks ==
  ASSUME Types, NEW c, NEW a, a \in anchors \/ (a \in Rows /\ Here(a)),
         Start(c, Ask("open", a, <<"open">>))
  PROVE  \E q : Asked(c, q)
<1> DEFINE q == Ask("open", a, <<"open">>)
<1>1. a \in Rows
  BY RowTypes DEF Types
<1>2. <<"open">> \in Shapes
  BY DEF Shapes, Entering
<1>3. q \in Requests /\ q.anchor = a /\ q.steps = <<"open">>
  BY <1>1, <1>2, AskIs DEF Ops
<1> HIDE DEF q
<1>4. Head(q.steps) = "open"
  BY <1>3
<1>5. q.steps \notin Dropping /\ q.steps \notin Forgetting /\ q.steps # <<"record", "enter">>
  BY <1>4, HeadExcludes
<1>6. Entitled(q)
  BY <1>3, <1>4, <1>5
     DEF Entitled, ReliesAdding, ReliesWriting, ReliesEntering, ReliesDropping,
         ReliesCutting, ReliesForgetting
<1>7. Start(c, q)
  BY DEF q
<1> QED BY <1>3, <1>5, <1>6, <1>7 DEF Asked

LEMMA AdoptAsks ==
  ASSUME Types, EntriesThere, NEW c, NEW a \in Anchors, ~Owned(a.slot),
         a.kind = "worktree" =>
           /\ Checkout(a) \in checkouts /\ a.repo \in repos
           /\ \A b \in anchors : b.kind = "worktree" => Checkout(b) # Checkout(a),
         Start(c, Ask("adopt", a, <<"write", "openOrDrop">>))
  PROVE  \E q : Asked(c, q)
<1> DEFINE q == Ask("adopt", a, <<"write", "openOrDrop">>)
<1>1. a \in Rows /\ NoEntry(a)
  BY RowTypes, UnownedHasNoEntry
<1>2. <<"write", "openOrDrop">> \in Shapes
  BY DEF Shapes, Adopting
<1>3. q \in Requests /\ q.anchor = a /\ q.steps = <<"write", "openOrDrop">>
  BY <1>1, <1>2, AskIs DEF Ops
<1> HIDE DEF q
<1>4. Head(q.steps) = "write"
  BY <1>3
<1>5. q.steps \notin Dropping /\ q.steps \notin Forgetting /\ q.steps # <<"record", "enter">>
  BY <1>4, HeadExcludes
<1>6. Entitled(q)
  BY <1>1, <1>3, <1>4, <1>5
     DEF Entitled, ReliesAdding, ReliesWriting, ReliesEntering, ReliesDropping,
         ReliesCutting, ReliesForgetting
<1>7. Start(c, q)
  BY DEF q
<1> QED BY <1>3, <1>5, <1>6, <1>7 DEF Asked

(* A request that gives something up, or writes a list.                      *)
LEMMA LaterAsks ==
  ASSUME NEW c, NEW op \in Ops, NEW a \in Rows, NEW s \in Shapes, s # <<"record", "enter">>,
         Head(s) \in {"leave", "leaveOrFail", "forget", "record", "unlist"},
         s \in Dropping => a \in Anchors,
         s \in Forgetting => \A b \in anchors : b.kind = "worktree" => b.repo # a.repo,
         Start(c, Ask(op, a, s))
  PROVE  \E q : Asked(c, q)
<1> DEFINE q == Ask(op, a, s)
<1>1. q \in Requests /\ q.anchor = a /\ q.steps = s
  BY AskIs
<1> HIDE DEF q
<1>2. Entitled(q)
  BY <1>1 DEF Entitled, ReliesAdding, ReliesWriting, ReliesEntering, ReliesDropping,
              ReliesCutting, ReliesForgetting
<1>3. Start(c, q)
  BY DEF q
<1> QED BY <1>1, <1>2, <1>3 DEF Asked

LEMMA CutAsks ==
  ASSUME NEW c, NEW a \in Rows, a.path \in Paths,
         NEW s \in {<<"cut">>, <<"cut", "leave">>, <<"cut", "leave", "drop">>},
         s = <<"cut">> => \A b \in anchors : b.kind = "worktree" => Checkout(b) # Checkout(a),
         s = <<"cut", "leave">> => a.repo \in Local,
         s = <<"cut", "leave", "drop">> => a \in anchors /\ a \in Anchors /\ a.kind = "worktree",
         Start(c, Ask("remove", a, s))
  PROVE  \E q : Asked(c, q)
<1> DEFINE q == Ask("remove", a, s)
<1>1. s \in Shapes
  BY DEF Shapes, Removing
<1>2. q \in Requests /\ q.anchor = a /\ q.steps = s /\ q.op = "remove"
  BY <1>1, AskIs DEF Ops
<1> HIDE DEF q
<1>3. Head(s) = "cut"
  OBVIOUS
<1>4. s \notin Forgetting /\ s # <<"record", "enter">>
  BY <1>3, HeadExcludes
<1>5. <<"cut">> \notin Dropping /\ <<"cut", "leave">> \notin Dropping
  BY DEF Dropping
<1>6. Entitled(q)
  BY <1>2, <1>3, <1>4, <1>5
     DEF Entitled, ReliesAdding, ReliesWriting, ReliesEntering, ReliesDropping,
         ReliesCutting, ReliesForgetting
<1>7. Start(c, q)
  BY DEF q
<1> QED BY <1>2, <1>4, <1>6, <1>7 DEF Asked
LaterSteps == {<<"leave">>, <<"leave", "drop">>, <<"leaveOrFail">>, <<"leaveOrFail", "drop">>,
               <<"forget">>, <<"leave", "forget">>, <<"leave", "drop", "forget">>,
               <<"record">>, <<"unlist", "purge">>}

LEMMA LaterShapes ==
  ASSUME NEW s \in LaterSteps
  PROVE  /\ s \in Shapes /\ s # <<"record", "enter">>
         /\ Head(s) \in {"leave", "leaveOrFail", "forget", "record", "unlist"}
         /\ s \in Dropping => s \in {<<"leave", "drop">>, <<"leaveOrFail", "drop">>,
                                    <<"leave", "drop", "forget">>}
         /\ s \in Forgetting =>
              s \in {<<"forget">>, <<"leave", "forget">>, <<"leave", "drop", "forget">>}
<1>1. s \in Shapes
  BY DEF Shapes, Entering, Releasing, Listing, LaterSteps
<1>2. Head(s) \in {"leave", "leaveOrFail", "forget", "record", "unlist"}
  BY DEF LaterSteps
<1>3. s # <<"record", "enter">>
  BY DEF LaterSteps
<1>4. s \in Dropping => s \in {<<"leave", "drop">>, <<"leaveOrFail", "drop">>,
                              <<"leave", "drop", "forget">>}
  BY DEF Dropping, LaterSteps
<1>5. s \in Forgetting =>
        s \in {<<"forget">>, <<"leave", "forget">>, <<"leave", "drop", "forget">>}
  BY DEF Forgetting, LaterSteps
<1> QED BY <1>1, <1>2, <1>3, <1>4, <1>5

(* Where a directory's own workspace stands.                                 *)
LEMMA DirectoryOfIs ==
  ASSUME Types, NEW r \in repos
  PROVE  /\ DirectoryOf(r) \in Rows /\ DirectoryOf(r).repo = r
         /\ r \notin Local /\ DirectoryAnchorOf(r) # {} => DirectoryOf(r) \in Anchors
<1>1. CASE r \in Local \/ DirectoryAnchorOf(r) = {}
  <2>1. DirectoryOf(r) = DirectoryRow(r)
    BY <1>1 DEF DirectoryOf
  <2>2. DirectoryRow(r).repo = r
    BY DEF DirectoryRow, LocalRow
  <2>3. DirectoryRow(r) \in Rows
    BY DEF Rows, Types
  <2> QED BY <1>1, <2>1, <2>2, <2>3
<1>2. CASE r \notin Local /\ DirectoryAnchorOf(r) # {}
  <2>1. DirectoryOf(r) \in DirectoryAnchorOf(r)
    BY <1>2 DEF DirectoryOf
  <2> QED BY <1>2, <2>1, RowTypes DEF DirectoryAnchorOf, Types
<1> QED BY <1>1, <1>2

(* Every route, up to its first decision, asks what it may rely on.          *)
LEMMA OpsAsk ==
  ASSUME Types, EntriesThere, NEW c \in Callers,
         \/ Create(c) \/ Adopt(c) \/ Open(c) \/ Close(c) \/ Release(c) \/ Remove(c)
         \/ OpenDirectory(c) \/ CloseDirectory(c) \/ AddRepo(c) \/ DeleteRepo(c)
         \/ DeleteNode(c)
  PROVE  \E q : Asked(c, q)
<1>1. CASE Create(c)
  BY <1>1, CreateAsks
<1>2. CASE Adopt(c)
  <2> DEFINE a(k) == Anchor(k.repo, "worktree", k.path, Segment(k.path))
  <2>1. PICK k \in Discovered :
          \/ /\ HeldRemote(k) # {}
             /\ Start(c, Ask("open", CHOOSE h \in HeldRemote(k) : TRUE, <<"open">>))
          \/ Owned(a(k).slot) /\ Start(c, Answered(FALSE))
          \/ /\ ~Owned(a(k).slot)
             /\ Start(c, Ask("adopt", a(k), <<"write", "openOrDrop">>))
    BY <1>2 DEF Adopt
  <2>2. /\ k \in checkouts /\ k.repo \in repos \cap Remote /\ k.path \in Paths
        /\ k = [repo |-> k.repo, path |-> k.path]
        /\ \A b \in anchors : b.kind = "worktree" => b.path # k.path
    BY DEF Discovered, Types
  <2>3. CASE HeldRemote(k) # {} /\ Start(c, Ask("open", CHOOSE h \in HeldRemote(k) : TRUE, <<"open">>))
    BY <2>3, OpenAsks DEF HeldRemote
  <2>4. CASE Owned(a(k).slot) /\ Start(c, Answered(FALSE))
    BY <2>4, AnsweredAsks
  <2>5. CASE ~Owned(a(k).slot) /\ Start(c, Ask("adopt", a(k), <<"write", "openOrDrop">>))
    <3>1. a(k) \in Anchors
      BY <2>2, PathIs DEF Anchors
    <3>2. a(k).kind = "worktree" /\ a(k).repo = k.repo /\ a(k).path = k.path
      BY DEF Anchor
    <3>3. Checkout(a(k)) = k
      BY <2>2, <3>2 DEF Checkout
    <3>4. \A b \in anchors : b.kind = "worktree" => Checkout(b) # Checkout(a(k))
      BY <2>2, <3>2 DEF Checkout
    <3> HIDE DEF a
    <3> QED BY <2>2, <2>5, <3>1, <3>2, <3>3, <3>4, AdoptAsks
  <2> QED BY <2>1, <2>3, <2>4, <2>5
<1>3. CASE Open(c)
  BY <1>3, HeldIs, OpenAsks DEF Open
<1>4. CASE Close(c)
  <2>1. PICK a \in Held : Start(c, Ask("close", a, <<"leaveOrFail">>))
    BY <1>4 DEF Close
  <2>2. <<"leaveOrFail">> \in LaterSteps
    BY DEF LaterSteps
  <2>3. <<"leaveOrFail">> \notin Dropping /\ <<"leaveOrFail">> \notin Forgetting
    BY DEF Dropping, Forgetting
  <2> QED BY <2>1, <2>2, <2>3, LaterShapes, HeldIs, LaterAsks DEF Ops
<1>5. CASE Release(c)
  <2>1. PICK a \in Held : Start(c, Ask("release", a, IF a.repo \in Local THEN <<"leaveOrFail">>
                                                     ELSE <<"leaveOrFail", "drop">>))
    BY <1>5 DEF Release
  <2>2. <<"leaveOrFail">> \in LaterSteps /\ <<"leaveOrFail", "drop">> \in LaterSteps
    BY DEF LaterSteps
  <2>3. <<"leaveOrFail">> \notin Dropping /\ <<"leaveOrFail">> \notin Forgetting
        /\ <<"leaveOrFail", "drop">> \notin Forgetting
    BY DEF Dropping, Forgetting
  <2>4. a \in Rows /\ (a.repo \notin Local => a \in Anchors)
    BY HeldIs DEF Types
  <2> DEFINE s == IF a.repo \in Local THEN <<"leaveOrFail">> ELSE <<"leaveOrFail", "drop">>
  <2>5. /\ s \in LaterSteps /\ s \notin Forgetting
        /\ s \in Dropping => a \in Anchors
    BY <2>2, <2>3, <2>4
  <2> HIDE DEF s
  <2>6. Start(c, Ask("release", a, s)) /\ "release" \in Ops
    BY <2>1 DEF s, Ops
  <2> QED BY <2>4, <2>5, <2>6, LaterShapes, LaterAsks
<1>6. CASE Remove(c)
  <2>1. CASE \E a \in Held :
               /\ a.kind = "worktree"
               /\ Start(c, Ask("remove", a, IF a.repo \in Local THEN <<"cut", "leave">>
                                            ELSE <<"cut">> \o Teardown))
    <3>1. PICK a \in Held :
            /\ a.kind = "worktree"
            /\ Start(c, Ask("remove", a, IF a.repo \in Local THEN <<"cut", "leave">>
                                         ELSE <<"cut">> \o Teardown))
      BY <2>1
    <3>2. <<"cut">> \o Teardown = <<"cut", "leave", "drop">>
      BY JoinOneTwo DEF Teardown
    <3>3. \A b \in Anchors : b.kind = "worktree" => b.path \in Paths /\ b.repo \in Remote
      BY DEF Anchors, Anchor
    <3>4. a \in Rows /\ a.path \in Paths /\ (a.repo \notin Local => a \in anchors /\ a \in Anchors)
      BY <3>1, <3>3, HeldIs DEF Types
    <3>5. /\ <<"cut", "leave">> # <<"cut">> /\ <<"cut", "leave">> # <<"cut", "leave", "drop">>
          /\ <<"cut", "leave", "drop">> # <<"cut">>
      OBVIOUS
    <3>6. CASE a.repo \in Local
      <4>1. Start(c, Ask("remove", a, <<"cut", "leave">>))
        BY <3>1, <3>6
      <4> QED BY <3>4, <3>5, <3>6, <4>1, CutAsks
    <3>7. CASE a.repo \notin Local
      <4>1. Start(c, Ask("remove", a, <<"cut", "leave", "drop">>))
        BY <3>1, <3>2, <3>7
      <4> QED BY <3>1, <3>4, <3>5, <3>7, <4>1, CutAsks
    <3> QED BY <3>6, <3>7
  <2>2. CASE \E k \in Discovered :
               Start(c, Ask("remove", Anchor(k.repo, "worktree", k.path, Segment(k.path)),
                            <<"cut">>))
    <3>1. PICK k \in Discovered :
            Start(c, Ask("remove", Anchor(k.repo, "worktree", k.path, Segment(k.path)),
                         <<"cut">>))
      BY <2>2
    <3> DEFINE a == Anchor(k.repo, "worktree", k.path, Segment(k.path))
    <3>2. /\ k.repo \in Remote /\ k.path \in Paths
          /\ \A b \in anchors : b.kind = "worktree" => b.path # k.path
      BY DEF Discovered, Types
    <3>3. a \in Anchors /\ a.path = k.path
      BY <3>2, PathIs DEF Anchors, Anchor
    <3>4. \A b \in anchors : b.kind = "worktree" => Checkout(b) # Checkout(a)
      BY <3>2, <3>3 DEF Checkout
    <3>5. <<"cut", "leave">> # <<"cut">> /\ <<"cut", "leave", "drop">> # <<"cut">>
      OBVIOUS
    <3>6. Start(c, Ask("remove", a, <<"cut">>))
      BY <3>1
    <3> HIDE DEF a
    <3> QED BY <3>2, <3>3, <3>4, <3>5, <3>6, RowTypes, CutAsks
  <2> QED BY <1>6, <2>1, <2>2 DEF Remove
<1>7. CASE OpenDirectory(c)
  <2> DEFINE a(r) == Anchor(r, "directory", <<Base[r], ".self">>, None)
  <2>1. PICK r \in repos :
          \/ r \in Local /\ Start(c, Ask("open", DirectoryRow(r), <<"open">>))
          \/ \E d \in DirectoryAnchorOf(r) : Start(c, Ask("open", d, <<"open">>))
          \/ r \in Remote /\ Owned(a(r).slot) /\ Start(c, Answered(FALSE))
          \/ /\ r \in Remote /\ ~Owned(a(r).slot)
             /\ Start(c, Ask("adopt", a(r), <<"write", "openOrDrop">>))
    BY <1>7 DEF OpenDirectory
  <2>2. CASE r \in Local /\ Start(c, Ask("open", DirectoryRow(r), <<"open">>))
    <3>1. DirectoryRow(r) \in Rows
      BY DEF Rows, Types
    <3>2. DirectoryRow(r).slot = <<"here">> \o <<Base[r], ".self">>
      BY DEF DirectoryRow, LocalRow
    <3>3. (<<"here">> \o <<Base[r], ".self">>)[1] = "here"
      OBVIOUS
    <3> QED BY <2>2, <3>1, <3>2, <3>3, OpenAsks DEF Here
  <2>3. CASE \E d \in DirectoryAnchorOf(r) : Start(c, Ask("open", d, <<"open">>))
    BY <2>3, OpenAsks DEF DirectoryAnchorOf
  <2>4. CASE r \in Remote /\ Owned(a(r).slot) /\ Start(c, Answered(FALSE))
    BY <2>4, AnsweredAsks
  <2>5. CASE /\ r \in Remote /\ ~Owned(a(r).slot)
             /\ Start(c, Ask("adopt", a(r), <<"write", "openOrDrop">>))
    <3>1. a(r) \in Anchors /\ a(r).kind # "worktree"
      BY <2>5 DEF Anchors, Anchor
    <3> HIDE DEF a
    <3> QED BY <2>5, <3>1, AdoptAsks
  <2> QED BY <2>1, <2>2, <2>3, <2>4, <2>5
<1>8. CASE CloseDirectory(c)
  <2>1. PICK r \in repos : Start(c, Ask("release", DirectoryOf(r), Closing(r)))
    BY <1>8 DEF CloseDirectory
  <2>2. CASE Closing(r) = <<>>
    <3>1. <<>> \in Shapes /\ "release" \in Ops
      BY DEF Shapes, Ops
    <3> QED BY <2>1, <2>2, <3>1, DirectoryOfIs, AskIs DEF Asked
  <2>3. CASE Closing(r) # <<>>
    <3>1. /\ Closing(r) \in {<<"leave">>, <<"leave", "drop">>}
          /\ Closing(r) = <<"leave", "drop">> => r \notin Local /\ DirectoryAnchorOf(r) # {}
      BY <2>3 DEF Closing, Teardown
    <3>2. <<"leave">> \in LaterSteps /\ <<"leave", "drop">> \in LaterSteps
      BY DEF LaterSteps
    <3>3. <<"leave">> \notin Dropping /\ <<"leave">> \notin Forgetting
          /\ <<"leave", "drop">> \notin Forgetting
      BY DEF Dropping, Forgetting
    <3>4. "release" \in Ops
      BY DEF Ops
    <3>5. /\ Closing(r) \in LaterSteps /\ Closing(r) \notin Forgetting
          /\ Closing(r) \in Dropping => DirectoryOf(r) \in Anchors
      BY <3>1, <3>2, <3>3, DirectoryOfIs
    <3> QED BY <2>1, <3>4, <3>5, DirectoryOfIs, LaterShapes, LaterAsks
  <2> QED BY <2>2, <2>3
<1>9. CASE AddRepo(c)
  <2>1. PICK r \in Repos : Start(c, Ask("addRepo", DirectoryRow(r), <<"record">>))
    BY <1>9 DEF AddRepo
  <2>2. DirectoryRow(r) \in Rows /\ "addRepo" \in Ops
    BY DEF Rows, Ops
  <2>3. <<"record">> \in LaterSteps
    BY DEF LaterSteps
  <2>4. <<"record">> \notin Dropping /\ <<"record">> \notin Forgetting
    BY DEF Dropping, Forgetting
  <2> QED BY <2>1, <2>2, <2>3, <2>4, LaterShapes, LaterAsks
<1>10. CASE DeleteRepo(c)
  <2>1. PICK r \in repos :
          /\ HeldIn(r) = {}
          /\ Start(c, Ask("deleteRepo", DirectoryOf(r), Closing(r) \o <<"forget">>))
    BY <1>10 DEF DeleteRepo
  <2> DEFINE s == Closing(r) \o <<"forget">>
  <2>2. /\ s \in {<<"forget">>, <<"leave", "forget">>, <<"leave", "drop", "forget">>}
        /\ s = <<"leave", "drop", "forget">> => r \notin Local /\ DirectoryAnchorOf(r) # {}
    <3>1. /\ <<>> \o <<"forget">> = <<"forget">>
          /\ <<"leave">> \o <<"forget">> = <<"leave", "forget">>
          /\ <<"leave", "drop">> \o <<"forget">> = <<"leave", "drop", "forget">>
      <4>1. <<>> \o <<"forget">> = <<"forget">>
        OBVIOUS
      <4> QED BY <4>1, JoinOneOne, JoinTwoOne
    <3>2. /\ <<"leave", "drop", "forget">> # <<"forget">>
          /\ <<"leave", "drop", "forget">> # <<"leave", "forget">>
      OBVIOUS
    <3> QED BY <3>1, <3>2 DEF Closing, Teardown
  <2>3. s \in LaterSteps
    BY <2>2 DEF LaterSteps
  <2>4. <<"forget">> \notin Dropping /\ <<"leave", "forget">> \notin Dropping
    BY DEF Dropping
  <2>5. \A b \in anchors : b.kind = "worktree" => b.repo # DirectoryOf(r).repo
    BY <2>1, DirectoryOfIs DEF HeldIn, Held
  <2>6. "deleteRepo" \in Ops /\ Start(c, Ask("deleteRepo", DirectoryOf(r), s))
    BY <2>1 DEF Ops
  <2>7. s \in Dropping => DirectoryOf(r) \in Anchors
    BY <2>2, <2>4, DirectoryOfIs
  <2> HIDE DEF s
  <2> QED BY <2>3, <2>5, <2>6, <2>7, DirectoryOfIs, LaterShapes, LaterAsks
<1>11. CASE DeleteNode(c)
  <2>1. PICK r \in Remote : Start(c, Ask("deleteNode", DirectoryRow(r), <<"unlist", "purge">>))
    BY <1>11 DEF DeleteNode
  <2>2. DirectoryRow(r) \in Rows /\ "deleteNode" \in Ops
    BY DEF Rows, Ops, Repos
  <2>3. <<"unlist", "purge">> \in LaterSteps
    BY DEF LaterSteps
  <2>4. <<"unlist", "purge">> \notin Dropping /\ <<"unlist", "purge">> \notin Forgetting
    BY DEF Dropping, Forgetting
  <2> QED BY <2>1, <2>2, <2>3, <2>4, LaterShapes, LaterAsks
<1> QED BY <1>1, <1>2, <1>3, <1>4, <1>5, <1>6, <1>7, <1>8, <1>9, <1>10, <1>11
-----------------------------------------------------------------------------
(* Every step keeps the types and the invariant.                             *)

(* What a request may rely on is a matter of what it is about and has to do. *)
LEMMA EntitledSame ==
  ASSUME NEW q, NEW n, n.steps = q.steps, n.anchor = q.anchor, n.op = q.op, Entitled(q)
  PROVE  Entitled(n)
BY DEF Entitled, ReliesAdding, ReliesWriting, ReliesEntering, ReliesDropping,
       ReliesCutting, ReliesForgetting

LEMMA NewRequestKeeps ==
  ASSUME OneCaller, NoneIsNothing, Types, Agree, NEW c \in Callers, NewRequest(c)
  PROVE  Types' /\ Agree'
<1> DEFINE n == request'[c]
<1> USE DEF NewRequest
<1>1. PICK q : Asked(c, q)
  BY OpsAsk DEF Agree
<1>2. /\ request' \in [Callers -> Requests \cup {None}] /\ n # None
      /\ Leads(q, n)
  BY <1>1, StartLeads DEF Asked
<1>3. Types'
  BY <1>2 DEF Types
<1>4. Idle(c) /\ \A d \in Callers : d = c
  BY DEF Idle, OneCaller
<1>5. (SlotsDiffer /\ EntriesThere)'
  BY DEF Agree, SlotsDiffer, EntriesThere, Slipped
<1>6. CheckoutsThere'
  BY <1>4 DEF Agree, CheckoutsThere, Slipped
<1>7. ReposThere'
  BY <1>4 DEF Agree, ReposThere, Slipped
<1>8. ASSUME ~Idle(c)'
      PROVE  Relies(request[c])'
  <2>1. PICK m : m = request'[c]
    OBVIOUS
  <2>2. m.steps # <<>>
    BY <1>2, <1>8, <2>1 DEF Idle
  <2>3. m.steps = q.steps /\ m.anchor = q.anchor /\ m.op = q.op /\ ListIsFresh(m)
    BY <1>1, <1>2, <2>1, <2>2 DEF Leads, Asked
  <2>4. Entitled(m)
    BY <1>1, <2>2, <2>3, EntitledSame DEF Asked
  <2>5. Relies(m)'
    BY <2>3, <2>4 DEF Relies, Entitled, ReliesAdding, ReliesWriting, ReliesEntering,
       ReliesDropping, ReliesCutting, ReliesForgetting, Owned, NoEntry, Slipped,
       ListIsFresh, Target
  <2> QED BY <2>1, <2>5
<1> QED BY <1>3, <1>4, <1>5, <1>6, <1>7, <1>8 DEF Agree
LEMMA AnswerKeeps ==
  ASSUME OneCaller, NoneIsNothing, Types, Agree, NEW c \in Callers, Answer(c)
  PROVE  Types' /\ Agree'
<1> USE DEF Answer
<1>1. Idle(c)' /\ Idle(c) /\ \A d \in Callers : d = c
  BY DEF Idle, OneCaller, Types
<1>2. Types'
  BY DEF Types
<1>3. (SlotsDiffer /\ EntriesThere)'
  BY DEF Agree, SlotsDiffer, EntriesThere, Slipped
<1>4. CheckoutsThere'
  BY <1>1 DEF Agree, CheckoutsThere, Slipped
<1>5. ReposThere'
  BY <1>1 DEF Agree, ReposThere, Slipped
<1> QED BY <1>1, <1>2, <1>3, <1>4, <1>5 DEF Agree

LEMMA CutByHandKeeps ==
  ASSUME Types, Agree, CutByHand
  PROVE  Types' /\ Agree'
<1>1. PICK r \in Remote, path \in Elsewhere :
        /\ checkouts' = checkouts \cup {[repo |-> r, path |-> path]}
        /\ UNCHANGED <<anchors, meta, repos, repoFile, entries, known, request, slips>>
  BY DEF CutByHand
<1>2. Types'
  BY <1>1 DEF Types, Repos, Paths
<1>3. (SlotsDiffer /\ EntriesThere)'
  BY <1>1 DEF Agree, SlotsDiffer, EntriesThere, Slipped
<1>4. CheckoutsThere'
  BY <1>1 DEF Agree, CheckoutsThere, Slipped, Idle, Cuts
<1>5. ReposThere'
  BY <1>1 DEF Agree, ReposThere, Slipped, Idle
<1>6. ASSUME NEW c \in Callers, ~Idle(c)'
      PROVE  Relies(request[c])'
  <2>1. Relies(request[c])
    BY <1>1, <1>6 DEF Agree, Idle
  <2>2. PICK m : m = request[c]
    OBVIOUS
  <2>3. Relies(m)'
    BY <1>1, <2>1, <2>2, ReliesStays
  <2> QED BY <1>1, <2>2, <2>3
<1> QED BY <1>2, <1>3, <1>4, <1>5, <1>6 DEF Agree

(* A stop in the middle is what a slip says: what is on disk is what there   *)
(* was in memory.                                                            *)
LEMMA RestartKeeps ==
  ASSUME PlainNames, Types, Agree, Restart
  PROVE  Types' /\ Agree'
<1> USE DEF Restart
<1>1. /\ anchors' = anchors /\ repos' = repos /\ slips' = slips \cup CutShort
      /\ \A c \in Callers : request'[c] = None
  BY LoadedIsMeta DEF Types, Slip
<1>2. \A c \in Callers : Idle(c)'
  BY <1>1 DEF Idle
<1>3. Types'
  BY <1>1 DEF Types
<1>4. (SlotsDiffer /\ EntriesThere)'
  BY <1>1 DEF Agree, SlotsDiffer, EntriesThere, Slipped
<1>5. ASSUME NEW c \in Callers, ~Idle(c), Cuts(c)
      PROVE  <<"cut", Checkout(request[c].anchor)>> \in CutShort
  <2>1. request[c] # None /\ request[c].op = "remove"
    BY <1>5 DEF Idle, Cuts
  <2>2. Left(c, "drop") /\ ~Left(c, "cut")
    <3>1. CASE request[c].steps = <<"leave", "drop">>
      BY <3>1 DEF Left
    <3>2. CASE request[c].steps = <<"drop">>
      BY <3>2 DEF Left
    <3> QED BY <1>5, <3>1, <3>2 DEF Cuts
  <2> QED BY <2>1, <2>2 DEF CutShort
<1>6. CheckoutsThere'
  BY <1>1, <1>5 DEF Agree, CheckoutsThere, Slipped
<1>7. ASSUME NEW c \in Callers, ~Idle(c), request[c].steps = <<"record", "enter">>
      PROVE  <<"record", request[c].anchor.repo>> \in CutShort
  <2>1. request[c] # None
    BY <1>7 DEF Idle
  <2>2. Left(c, "record")
    BY <1>7 DEF Left
  <2> QED BY <2>1, <2>2 DEF CutShort
<1>8. ReposThere'
  BY <1>1, <1>7 DEF Agree, ReposThere, Slipped
<1> QED BY <1>2, <1>3, <1>4, <1>6, <1>8 DEF Agree

(* A request that is over leaves the rest to what it was.                    *)
LEMMA AddWorktreeKeeps ==
  ASSUME OneCaller, NoneIsNothing, Types, Agree, NEW c \in Callers, AddWorktree(c)
  PROVE  Types' /\ Agree'
<1> DEFINE q == request[c]
           a == q.anchor
<1>0. UNCHANGED <<anchors, meta, repos, repoFile, entries, known, slips>>
  BY DEF AddWorktree
<1>1. /\ ~Idle(c) /\ Head(q.steps) = "add" /\ q \in Requests /\ a \in Rows
      /\ q.steps \in Shapes /\ q.steps # <<>>
  BY AtIs DEF AddWorktree
<1>2. ReliesAdding(q) /\ \A d \in Callers : d = c
  BY <1>1 DEF Agree, Relies, Entitled, OneCaller
<1>3. q.steps # <<"record", "enter">> /\ ~Cuts(c)
  BY <1>1, Heads DEF Cuts
<1>4. a.repo \in Repos
  BY <1>1, RowTypes
<1>5. \/ checkouts' = checkouts
      \/ /\ checkouts' = checkouts \cup {Checkout(a)}
         /\ ~Taken(a.repo, a.path)
  BY DEF AddWorktree
<1>6. checkouts' \subseteq [repo : Repos, path : Paths]
  BY <1>1, <1>2, <1>4, <1>5 DEF Types, ReliesAdding, Checkout
<1>7. (SlotsDiffer /\ EntriesThere)'
  BY <1>0 DEF Agree, SlotsDiffer, EntriesThere, Slipped
<1>8. CheckoutsThere'
  BY <1>0, <1>2, <1>3, <1>5 DEF Agree, CheckoutsThere, Slipped
<1>9. ReposThere'
  BY <1>0, <1>2, <1>3 DEF Agree, ReposThere, Slipped
<1>10. CASE Fail(c)
  <2>1. Idle(c)' /\ request' \in [Callers -> Requests \cup {None}]
    BY <1>10, FailLeads DEF Idle
  <2> QED BY <1>0, <1>2, <1>6, <1>7, <1>8, <1>9, <2>1 DEF Agree, Types
<1>11. CASE ~Fail(c)
  <2>1. /\ checkouts' = checkouts \cup {Checkout(a)} /\ ~Taken(a.repo, a.path)
        /\ Go(c) /\ (a.repo \in Remote => ~Owned(a.slot))
    BY <1>11 DEF AddWorktree
  <2>2. PICK m : m = request'[c]
    OBVIOUS
  <2>3. Leads(Rest(q), m) /\ request' \in [Callers -> Requests \cup {None}]
    BY <1>1, <2>1, <2>2, GoLeads
  <2>4. ASSUME m.steps # <<>>
        PROVE  Relies(m)'
    <3>1. /\ m.anchor = a /\ m.op = q.op /\ ListIsFresh(m)
          /\ \/ m.steps = Tail(q.steps)
             \/ Tail(q.steps) = <<"record", "enter">> /\ m.steps = <<"enter">>
      BY <1>1, <2>3, <2>4 DEF Leads, Rest, Requests
    <3>2. ListIsFresh(m)'
      BY <1>0, <3>1 DEF ListIsFresh, Target
    <3>3. CASE m.steps = <<"write", "record", "enter">>
      <4>1. q.steps # <<"add", "record", "enter">>
        BY <1>1, <3>1, <3>3, AfterAdd
      <4>2. a \in Anchors /\ a.kind = "worktree" /\ a.path \in Paths
        BY <1>1, <1>2, <4>1 DEF ReliesAdding
      <4>3. ~Owned(a.slot) /\ NoEntry(a)
        BY <2>1, <4>2, RowTypes, UnownedHasNoEntry DEF Agree
      <4>4. \A b \in anchors : b.kind = "worktree" /\ Checkout(b) = Checkout(a) =>
              Slipped("cut", Checkout(a))
        <5>1. Checkout(a) \notin checkouts
          BY <2>1 DEF Taken, Checkout
        <5>2. CheckoutsThere
          BY DEF Agree
        <5> QED BY <1>2, <1>3, <5>1, <5>2 DEF CheckoutsThere
      <4>5. Head(m.steps) = "write" /\ m.steps # <<"write", "openOrDrop">>
        BY <3>3
      <4>6. m.steps \notin Dropping /\ m.steps \notin Forgetting /\ m.steps # <<"record", "enter">>
        BY <4>5, HeadExcludes
      <4> QED BY <1>0, <2>1, <3>1, <3>2, <4>2, <4>3, <4>4, <4>5, <4>6
              DEF Relies, Entitled, ReliesAdding, ReliesWriting, ReliesEntering,
                  ReliesDropping, ReliesCutting, ReliesForgetting, Owned, NoEntry, Slipped
    <3>4. CASE m.steps \in {<<"record", "enter">>, <<"enter">>}
      <4>1. Head(m.steps) \in {"record", "enter"}
        BY <3>4
      <4>2. q.steps = <<"add", "record", "enter">>
        <5>1. Head(<<"record", "enter">>) = "record"
              /\ Head(<<"write", "record", "enter">>) = "write"
          OBVIOUS
        <5> QED BY <1>1, <3>1, <4>1, <5>1, AfterAdd
      <4>3. Here(a)
        BY <1>1, <1>2, <4>2 DEF ReliesAdding
      <4>4. m.steps \notin Dropping /\ m.steps \notin Forgetting
        BY <4>1, HeadExcludes
      <4> QED BY <3>1, <3>2, <4>3, <4>1, <4>4
              DEF Relies, Entitled, ReliesAdding, ReliesWriting, ReliesEntering,
                  ReliesDropping, ReliesCutting, ReliesForgetting
    <3> QED BY <1>1, <3>1, <3>3, <3>4, AfterAdd
  <2>5. ~Idle(c)' => Relies(request[c])'
    BY <2>2, <2>4 DEF Idle
  <2> QED BY <1>0, <1>2, <1>6, <1>7, <1>8, <1>9, <2>3, <2>5 DEF Agree, Types
<1> QED BY <1>10, <1>11
LEMMA WriteAnchorKeeps ==
  ASSUME OneCaller, NoneIsNothing, Types, Agree, NEW c \in Callers, WriteAnchor(c)
  PROVE  Types' /\ Agree'
<1> PICK q : q = request[c]
  OBVIOUS
<1> PICK a : a = q.anchor
  OBVIOUS
<1>1. UNCHANGED <<checkouts, repos, repoFile, entries, known, slips>>
  BY DEF WriteAnchor
<1>2. /\ ~Idle(c) /\ Head(q.steps) = "write" /\ q \in Requests /\ a \in Rows
      /\ q.steps \in Shapes /\ q.steps # <<>>
  BY AtIs DEF WriteAnchor
<1>3. ReliesWriting(q) /\ \A d \in Callers : d = c
  BY <1>2 DEF Agree, Relies, Entitled, OneCaller
<1>4. q.steps # <<"record", "enter">> /\ ~Cuts(c)
  BY <1>2, Heads DEF Cuts
<1>5. CASE Fail(c) /\ UNCHANGED <<meta, anchors>>
  <2>1. Idle(c)' /\ request' \in [Callers -> Requests \cup {None}]
    BY <1>5, FailLeads DEF Idle
  <2>2. Types'
    BY <1>1, <1>5, <2>1 DEF Types
  <2>3. (SlotsDiffer /\ EntriesThere)'
    BY <1>1, <1>5 DEF Agree, SlotsDiffer, EntriesThere, Slipped
  <2>4. CheckoutsThere'
    BY <1>1, <1>3, <1>4, <1>5 DEF Agree, CheckoutsThere, Slipped
  <2>5. ReposThere'
    BY <1>1, <1>3, <1>4, <1>5 DEF Agree, ReposThere, Slipped
  <2> QED BY <1>3, <2>1, <2>2, <2>3, <2>4, <2>5 DEF Agree
<1>6. CASE /\ meta' = {m \in meta : m.slot # a.slot} \cup {a}
           /\ anchors' = anchors \cup {a} /\ Go(c)
  <2>1. a \in Anchors /\ meta' = anchors' /\ ~Owned(a.slot)
    BY <1>2, <1>3, <1>6 DEF ReliesWriting, Owned, Types
  <2>2. PICK m : m = request'[c]
    OBVIOUS
  <2>3. Leads(Rest(q), m) /\ request' \in [Callers -> Requests \cup {None}] /\ m # None
    BY <1>2, <1>6, <2>2, GoLeads
  <2>4. m.steps # <<>> => /\ m.anchor = a /\ m.op = q.op /\ ListIsFresh(m)
    BY <1>2, <2>3 DEF Leads, Rest, Requests
  <2>5. \/ m.steps = Tail(q.steps) \/ m.steps = <<>>
        \/ Tail(q.steps) = <<"record", "enter">> /\ m.steps = <<"enter">> /\ a.repo \in repos
    BY <1>2, <2>3 DEF Leads, Rest, Requests
  <2>6. \/ m.steps = <<"record", "enter">> /\ q.steps = <<"write", "record", "enter">>
        \/ m.steps = <<"openOrDrop">> /\ q.steps = <<"write", "openOrDrop">>
        \/ m.steps = <<"enter">> /\ a.repo \in repos
        \/ m.steps = <<>>
    BY <1>2, <2>5, AfterWrite
  <2>7. Types'
    BY <1>1, <1>6, <2>1, <2>3 DEF Types
  <2>8. SlotsDiffer'
    BY <1>6, <2>1 DEF Agree, SlotsDiffer, Owned
  <2>9. EntriesThere'
    BY <1>1, <1>6 DEF Agree, EntriesThere, Slipped
  <2>10. CheckoutsThere'
    BY <1>1, <1>2, <1>3, <1>4, <1>6 DEF Agree, CheckoutsThere, Slipped, ReliesWriting
  <2>11. a.kind = "worktree" => a.repo \in repos \/ m.steps = <<"record", "enter">>
    <3>1. m.steps # <<>>
      <4>1. Tail(<<"record", "enter">>) = <<"enter">> /\ Head(<<"openOrDrop">>) \notin Writes
        BY DEF Writes
      <4>2. /\ Tail(q.steps) # <<>> /\ <<"enter">> # <<>>
            /\ Tail(Tail(q.steps)) # <<>> \/ Head(Tail(q.steps)) \notin Writes
        <5>1. <<"record", "enter">> # <<>> /\ <<"openOrDrop">> # <<>> /\ <<"enter">> # <<>>
          OBVIOUS
        <5> QED BY <1>2, <4>1, <5>1, AfterWrite
      <4> QED BY <1>2, <2>3, <4>2 DEF Leads, Rest, Requests
    <3> QED BY <1>2, <1>3, <2>6, <3>1 DEF ReliesWriting
  <2>12. ReposThere'
    <3>1. CASE m.steps = <<"record", "enter">>
      <4>1. ~Idle(c)' /\ request'[c].steps = <<"record", "enter">> /\ request'[c].anchor = a
        BY <2>2, <2>3, <2>4, <3>1 DEF Idle
      <4> QED BY <1>1, <1>3, <1>4, <1>6, <4>1 DEF Agree, ReposThere, Slipped
    <3>2. CASE m.steps # <<"record", "enter">>
      BY <1>1, <1>3, <1>4, <1>6, <2>11, <3>2 DEF Agree, ReposThere, Slipped
    <3> QED BY <3>1, <3>2
  <2>13. ASSUME m.steps # <<>>
         PROVE  Relies(m)'
    <3>1. ListIsFresh(m)'
      BY <1>1, <2>4, <2>13 DEF ListIsFresh, Target
    <3>2. a \in anchors' /\ a \in Anchors
      BY <1>6, <2>1
    <3>3. CASE m.steps = <<"openOrDrop">>
      <4>1. Head(m.steps) = "openOrDrop"
        BY <3>3
      <4>2. m.steps \notin Dropping /\ m.steps \notin Forgetting
        BY <4>1, HeadExcludes
      <4>3. NoEntry(a)'
        BY <1>1, <1>2, <1>3 DEF ReliesWriting, NoEntry, Slipped
      <4> QED BY <2>4, <2>13, <3>1, <3>2, <4>1, <4>2, <4>3
              DEF Relies, Entitled, ReliesAdding, ReliesWriting, ReliesEntering,
                  ReliesDropping, ReliesCutting, ReliesForgetting
    <3>4. CASE m.steps \in {<<"record", "enter">>, <<"enter">>}
      <4>1. Head(m.steps) \in {"record", "enter"}
        BY <3>4
      <4>2. m.steps \notin Dropping /\ m.steps \notin Forgetting
        BY <4>1, HeadExcludes
      <4> QED BY <2>4, <2>13, <3>1, <3>2, <4>1, <4>2
              DEF Relies, Entitled, ReliesAdding, ReliesWriting, ReliesEntering,
                  ReliesDropping, ReliesCutting, ReliesForgetting
    <3> QED BY <2>6, <2>13, <3>3, <3>4
  <2>14. ~Idle(c)' => Relies(request[c])'
    BY <2>2, <2>13 DEF Idle
  <2> QED BY <1>3, <2>7, <2>8, <2>9, <2>10, <2>12, <2>14 DEF Agree
<1> QED BY <1>5, <1>6 DEF WriteAnchor
(* Writes that forget are the last: what follows a drop is one, or nothing.  *)
LEMMA DropAnchorKeeps ==
  ASSUME OneCaller, PlainNames, NoneIsNothing, Types, Agree,
         NEW c \in Callers, DropAnchor(c)
  PROVE  Types' /\ Agree'
<1> PICK q : q = request[c]
  OBVIOUS
<1> PICK a : a = q.anchor
  OBVIOUS
<1>1. UNCHANGED <<checkouts, repos, repoFile, entries, known>>
  BY DEF DropAnchor
<1>2. /\ ~Idle(c) /\ Head(q.steps) = "drop" /\ q \in Requests /\ a \in Rows
      /\ q.steps \in Shapes /\ q.steps # <<>>
  BY AtIs DEF DropAnchor
<1>3. ReliesDropping(q) /\ ReliesForgetting(q) /\ \A d \in Callers : d = c
  BY <1>2 DEF Agree, Relies, Entitled, OneCaller
<1>4. q.steps # <<"record", "enter">>
  BY <1>2, HeadExcludes
<1>5. a \in Anchors /\ (NoEntry(a) \/ a \notin anchors)
  <2>1. <<"drop">> \in Dropping /\ <<"drop", "forget">> \in Dropping
    BY DEF Dropping
  <2> QED BY <1>2, <1>3, <2>1, AfterDrop DEF ReliesDropping
<1>6. CASE /\ Fail(c) /\ UNCHANGED <<meta, anchors>>
           /\ Slip(IF q.op = "remove" THEN {<<"cut", Checkout(a)>>} ELSE {})
  <2>1. Idle(c)' /\ request' \in [Callers -> Requests \cup {None}]
    BY <1>6, FailLeads DEF Idle
  <2>2. Types'
    BY <1>1, <1>6, <2>1 DEF Types
  <2>3. /\ slips \subseteq slips'
        /\ q.op = "remove" => <<"cut", Checkout(a)>> \in slips'
    BY <1>6 DEF Slip
  <2>4. (SlotsDiffer /\ EntriesThere)'
    BY <1>1, <1>6, <2>3 DEF Agree, SlotsDiffer, EntriesThere, Slipped
  <2>5. CheckoutsThere'
    BY <1>1, <1>3, <1>6, <2>3 DEF Agree, CheckoutsThere, Slipped, Cuts
  <2>6. ReposThere'
    BY <1>1, <1>3, <1>4, <1>6, <2>3 DEF Agree, ReposThere, Slipped
  <2> QED BY <1>3, <2>1, <2>2, <2>4, <2>5, <2>6 DEF Agree
<1>7. CASE /\ Go(c) /\ UNCHANGED slips
           /\ IF a \in anchors
              THEN /\ meta' = {m \in meta : ~IsWithin(a.slot, m.slot)}
                   /\ anchors' = anchors \ {a}
              ELSE UNCHANGED <<meta, anchors>>
  <2>1. anchors' = anchors \ {a} /\ meta' = anchors'
    <3>1. CASE a \in anchors
      <4>1. \A m \in meta : IsWithin(a.slot, m.slot) <=> m = a
        BY <1>5, <3>1, WithinIsEqual DEF Agree, SlotsDiffer, Types
      <4> QED BY <1>7, <3>1, <4>1 DEF Types
    <3>2. CASE a \notin anchors
      BY <1>7, <3>2 DEF Types
    <3> QED BY <3>1, <3>2
  <2>2. PICK m : m = request'[c]
    OBVIOUS
  <2>3. Leads(Rest(q), m) /\ request' \in [Callers -> Requests \cup {None}] /\ m # None
    BY <1>2, <1>7, <2>2, GoLeads
  <2>4. m.steps # <<>> => /\ m.anchor = a /\ m.op = q.op /\ ListIsFresh(m)
    BY <1>2, <2>3 DEF Leads, Rest, Requests
  <2>5. m.steps = <<>> \/ (m.steps = <<"forget">> /\ q.steps = <<"drop", "forget">>)
    <3>1. /\ Tail(q.steps) = <<>> \/ (Tail(q.steps) = <<"forget">> /\ q.steps = <<"drop", "forget">>)
          /\ <<"forget">> # <<"record", "enter">> /\ <<>> # <<"record", "enter">>
      <4>1. <<"forget">> # <<"record", "enter">> /\ <<>> # <<"record", "enter">>
        OBVIOUS
      <4> QED BY <1>2, <4>1, AfterDrop
    <3> QED BY <1>2, <2>3, <3>1 DEF Leads, Rest, Requests
  <2>6. Types'
    BY <1>1, <2>1, <2>3 DEF Types
  <2>7. SlotsDiffer'
    BY <2>1 DEF Agree, SlotsDiffer
  <2>8. EntriesThere'
    BY <1>1, <1>5, <1>7, <2>1 DEF Agree, EntriesThere, Slipped, NoEntry, Here
  <2>9. CheckoutsThere'
    BY <1>1, <1>3, <1>7, <2>1 DEF Agree, CheckoutsThere, Slipped
  <2>10. ReposThere'
    BY <1>1, <1>3, <1>4, <1>7, <2>1 DEF Agree, ReposThere, Slipped
  <2>11. ASSUME m.steps # <<>>
         PROVE  Relies(m)'
    <3>1. ListIsFresh(m)'
      BY <1>1, <2>4, <2>11 DEF ListIsFresh, Target
    <3>2. Head(m.steps) = "forget" /\ m.steps # <<"record", "enter">>
      BY <2>5, <2>11
    <3>3. m.steps \notin Dropping
      BY <3>2, HeadExcludes
    <3>4. \A b \in anchors' : b.kind = "worktree" => b.repo # a.repo
      <4>1. <<"drop", "forget">> \in Forgetting
        BY DEF Forgetting
      <4> QED BY <1>3, <2>1, <2>5, <2>11, <4>1 DEF ReliesForgetting
    <3> QED BY <2>4, <2>11, <3>1, <3>2, <3>3, <3>4
            DEF Relies, Entitled, ReliesAdding, ReliesWriting, ReliesEntering,
                ReliesDropping, ReliesCutting, ReliesForgetting
  <2>12. ~Idle(c)' => Relies(request[c])'
    BY <2>2, <2>11 DEF Idle
  <2> QED BY <1>3, <2>6, <2>7, <2>8, <2>9, <2>10, <2>12 DEF Agree
<1> QED BY <1>6, <1>7 DEF DropAnchor

LEMMA CutWorktreeKeeps ==
  ASSUME OneCaller, NoneIsNothing, Types, Agree, NEW c \in Callers, CutWorktree(c)
  PROVE  Types' /\ Agree'
<1> PICK q : q = request[c]
  OBVIOUS
<1> PICK a : a = q.anchor
  OBVIOUS
<1>1. UNCHANGED <<anchors, meta, repos, repoFile, entries, known>>
  BY DEF CutWorktree
<1>2. /\ ~Idle(c) /\ Head(q.steps) = "cut" /\ q \in Requests /\ a \in Rows
      /\ q.steps \in Shapes /\ q.steps # <<>>
  BY AtIs DEF CutWorktree
<1>3. ReliesCutting(q) /\ ReliesDropping(q) /\ \A d \in Callers : d = c
  BY <1>2 DEF Agree, Relies, Entitled, OneCaller
<1>4. q.steps # <<"record", "enter">> /\ ~Cuts(c)
  BY <1>2, HeadExcludes, Heads DEF Cuts
<1>5. /\ slips \subseteq slips'
      /\ checkouts' = checkouts \/ checkouts' = checkouts \ {Checkout(a)}
  BY DEF CutWorktree, Slip
<1>6. (SlotsDiffer /\ EntriesThere)'
  BY <1>1, <1>5 DEF Agree, SlotsDiffer, EntriesThere, Slipped
<1>7. ReposThere'
  BY <1>1, <1>3, <1>4, <1>5 DEF Agree, ReposThere, Slipped
<1>8. CASE /\ Fail(c)
           /\ \/ checkouts' = checkouts
              \/ Slip({<<"cut", Checkout(a)>>})
  <2>1. Idle(c)' /\ request' \in [Callers -> Requests \cup {None}]
    BY <1>8, FailLeads DEF Idle
  <2>2. Types'
    BY <1>1, <1>5, <2>1 DEF Types
  <2>3. checkouts' = checkouts \/ <<"cut", Checkout(a)>> \in slips'
    BY <1>8 DEF Slip
  <2>4. CheckoutsThere'
    BY <1>1, <1>3, <1>4, <1>5, <2>3 DEF Agree, CheckoutsThere, Slipped
  <2> QED BY <1>3, <1>6, <1>7, <2>1, <2>2, <2>4 DEF Agree
<1>9. CASE Go(c) /\ UNCHANGED slips
  <2>1. PICK m : m = request'[c]
    OBVIOUS
  <2>2. Leads(Rest(q), m) /\ request' \in [Callers -> Requests \cup {None}] /\ m # None
    BY <1>2, <1>9, <2>1, GoLeads
  <2>3. m.steps # <<>> => /\ m.anchor = a /\ m.op = q.op /\ ListIsFresh(m)
    BY <1>2, <2>2 DEF Leads, Rest, Requests
  <2>4. \/ m.steps = <<>> /\ q.steps = <<"cut">>
        \/ m.steps = <<"leave">> /\ q.steps = <<"cut", "leave">>
        \/ m.steps = <<"leave", "drop">> /\ q.steps = <<"cut", "leave", "drop">>
    <3>1. /\ <<"leave">> # <<"record", "enter">> /\ <<>> # <<"record", "enter">>
          /\ <<"leave", "drop">> # <<"record", "enter">>
          /\ <<"leave">> # <<>> /\ <<"leave", "drop">> # <<>>
      OBVIOUS
    <3>2. /\ Head(<<"leave">>) \notin Writes /\ Head(<<"leave", "drop">>) \notin Writes
      BY DEF Writes
    <3> QED BY <1>2, <2>2, <3>1, <3>2, AfterCut DEF Leads, Rest, Requests
  <2>5. Types'
    BY <1>1, <1>5, <2>2 DEF Types
  <2>6. CheckoutsThere'
    <3>1. CASE q.steps = <<"cut">>
      BY <1>1, <1>2, <1>3, <1>4, <1>5, <3>1
         DEF Agree, CheckoutsThere, Slipped, ReliesCutting
    <3>2. CASE q.steps = <<"cut", "leave">>
      <4>1. \A b \in anchors : Checkout(b) # Checkout(a)
        BY <1>2, <1>3, <3>2, RowTypes, RepositoriesAssumption
           DEF Types, ReliesCutting, Checkout
      <4> QED BY <1>1, <1>3, <1>4, <1>5, <4>1 DEF Agree, CheckoutsThere, Slipped
    <3>3. CASE q.steps = <<"cut", "leave", "drop">>
      <4>1. ~Idle(c)' /\ Cuts(c)' /\ request'[c].anchor = a
        <5>1. <<"leave", "drop">> # <<>> /\ <<"cut", "leave", "drop">> # <<"cut">>
              /\ <<"cut", "leave", "drop">> # <<"cut", "leave">>
          OBVIOUS
        <5>2. m.steps = <<"leave", "drop">>
          BY <2>4, <3>3, <5>1
        <5> QED BY <1>2, <1>3, <2>1, <2>2, <2>3, <5>1, <5>2 DEF Idle, Cuts, ReliesCutting
      <4>2. a \in anchors /\ a.kind = "worktree"
        BY <1>2, <1>3, <3>3 DEF ReliesCutting
      <4> QED BY <1>1, <1>3, <1>4, <1>5, <4>1, <4>2 DEF Agree, CheckoutsThere, Slipped
    <3> QED BY <2>4, <3>1, <3>2, <3>3
  <2>7. ASSUME m.steps # <<>>
        PROVE  Relies(m)'
    <3>1. ListIsFresh(m)'
      BY <1>1, <2>3, <2>7 DEF ListIsFresh, Target
    <3>2. Head(m.steps) = "leave"
      BY <2>4, <2>7
    <3>3. m.steps # <<"record", "enter">>
      BY <3>2, HeadExcludes
    <3>4. m.steps \in Dropping => a \in Anchors
      <4>1. <<"leave">> \notin Dropping /\ <<"cut", "leave", "drop">> \in Dropping
        BY DEF Dropping
      <4> QED BY <1>3, <2>4, <2>7, <4>1 DEF ReliesDropping
    <3>5. m.steps \notin Forgetting
      <4>1. <<"leave">> \notin Forgetting /\ <<"leave", "drop">> \notin Forgetting
        BY DEF Forgetting
      <4> QED BY <2>4, <2>7, <4>1
    <3> QED BY <2>3, <2>7, <3>1, <3>2, <3>3, <3>4, <3>5
            DEF Relies, Entitled, ReliesAdding, ReliesWriting, ReliesEntering,
                ReliesDropping, ReliesCutting, ReliesForgetting
  <2>8. ~Idle(c)' => Relies(request[c])'
    BY <2>1, <2>7 DEF Idle
  <2> QED BY <1>3, <1>6, <1>7, <2>5, <2>6, <2>8 DEF Agree
<1> QED BY <1>8, <1>9 DEF CutWorktree
LEMMA WriteReposKeeps ==
  ASSUME OneCaller, NoneIsNothing, Types, Agree, NEW c \in Callers, WriteRepos(c)
  PROVE  Types' /\ Agree'
<1> PICK q : q = request[c]
  OBVIOUS
<1> PICK a : a = q.anchor
  OBVIOUS
<1>1. UNCHANGED <<checkouts, anchors, meta, entries, known>>
  BY DEF WriteRepos
<1>2. /\ ~Idle(c) /\ Head(q.steps) \in Writes /\ q \in Requests /\ a \in Rows
      /\ q.steps \in Shapes /\ q.steps # <<>>
  BY AtIs DEF WriteRepos, Writes
<1>3. ReliesEntering(q) /\ ReliesForgetting(q) /\ ListIsFresh(q) /\ \A d \in Callers : d = c
  BY <1>2 DEF Agree, Relies, Entitled, OneCaller
<1>4. ~Cuts(c)
  BY <1>2, Heads DEF Cuts, Writes
<1>5. q.next \subseteq Repos
  BY <1>2 DEF Requests
<1>6. slips \subseteq slips'
  BY DEF WriteRepos, Slip
<1>7. (SlotsDiffer /\ EntriesThere)'
  BY <1>1, <1>6 DEF Agree, SlotsDiffer, EntriesThere, Slipped
<1>8. CheckoutsThere'
  BY <1>1, <1>3, <1>4, <1>6 DEF Agree, CheckoutsThere, Slipped
<1>9. CASE Fail(c) /\ Slip({<<"record", a.repo>>}) /\ UNCHANGED <<repoFile, repos>>
  <2>1. Idle(c)' /\ request' \in [Callers -> Requests \cup {None}]
    BY <1>9, FailLeads DEF Idle
  <2>2. Types'
    BY <1>1, <1>9, <2>1 DEF Types
  <2>3. <<"record", a.repo>> \in slips'
    BY <1>9 DEF Slip
  <2>4. ReposThere'
    BY <1>1, <1>3, <1>6, <1>9, <2>3 DEF Agree, ReposThere, Slipped
  <2> QED BY <1>3, <1>7, <1>8, <2>1, <2>2, <2>4 DEF Agree
<1>10. CASE repoFile' = q.next /\ repos' = q.next /\ Go(c) /\ UNCHANGED slips
  <2>1. PICK m : m = request'[c]
    OBVIOUS
  <2>2. Leads(Rest(q), m) /\ request' \in [Callers -> Requests \cup {None}] /\ m # None
    BY <1>2, <1>10, <2>1, GoLeads
  <2>3. m.steps # <<>> => /\ m.anchor = a /\ m.op = q.op
    BY <1>2, <2>2 DEF Leads, Rest, Requests
  <2>4. m.steps = <<>> \/ (m.steps = <<"enter">> /\ q.steps = <<"record", "enter">>)
    <3>1. Tail(q.steps) = <<>> \/ (Tail(q.steps) = <<"enter">> /\ q.steps = <<"record", "enter">>)
      BY <1>2, AfterRecord, AfterLast DEF Writes
    <3>2. <<"enter">> # <<"record", "enter">> /\ <<>> # <<"record", "enter">>
      OBVIOUS
    <3> QED BY <1>2, <2>2, <3>1, <3>2 DEF Leads, Rest, Requests
  <2>5. Types'
    BY <1>1, <1>5, <1>10, <2>2 DEF Types
  <2>6. ReposThere'
    <3>1. CASE Head(q.steps) = "record"
      <4>1. repos' = repos \cup {a.repo}
        BY <1>2, <1>3, <1>10, <3>1 DEF ListIsFresh, Target
      <4> QED BY <1>1, <1>3, <1>10, <4>1 DEF Agree, ReposThere, Slipped
    <3>2. CASE Head(q.steps) = "forget"
      <4>1. repos' = repos \ {a.repo}
        BY <1>2, <1>3, <1>10, <3>2 DEF ListIsFresh, Target
      <4>2. q.steps = <<"forget">> /\ <<"forget">> # <<"record", "enter">> /\ <<"forget">> \in Forgetting
        BY <1>2, <3>2, HeadTells DEF Forgetting
      <4>3. \A b \in anchors : b.kind = "worktree" => b.repo # a.repo
        BY <1>3, <4>2 DEF ReliesForgetting
      <4> QED BY <1>1, <1>3, <1>10, <4>1, <4>2, <4>3 DEF Agree, ReposThere, Slipped
    <3>3. CASE Head(q.steps) = "purge"
      BY <1>1, <1>3, <3>3 DEF ReliesForgetting, ReposThere
    <3> QED BY <1>2, <3>1, <3>2, <3>3 DEF Writes
  <2>7. ASSUME m.steps # <<>>
        PROVE  Relies(m)'
    <3>1. Head(m.steps) = "enter"
      BY <2>4, <2>7
    <3>2. m.steps \notin Dropping /\ m.steps \notin Forgetting /\ m.steps # <<"record", "enter">>
      BY <3>1, HeadExcludes
    <3>3. Here(a) \/ a \in anchors
      BY <1>3, <2>4, <2>7 DEF ReliesEntering
    <3> QED BY <1>1, <2>3, <2>7, <3>1, <3>2, <3>3
            DEF Relies, Entitled, ReliesAdding, ReliesWriting, ReliesEntering,
                ReliesDropping, ReliesCutting, ReliesForgetting, ListIsFresh, Writes
  <2>8. ~Idle(c)' => Relies(request[c])'
    BY <2>1, <2>7 DEF Idle
  <2> QED BY <1>3, <1>7, <1>8, <2>5, <2>6, <2>8 DEF Agree
<1> QED BY <1>9, <1>10 DEF WriteRepos

LEMMA RegisterWorkspaceKeeps ==
  ASSUME OneCaller, NoneIsNothing, Types, Agree, NEW c \in Callers, RegisterWorkspace(c)
  PROVE  Types' /\ Agree'
<1> PICK q : q = request[c]
  OBVIOUS
<1> PICK a : a = q.anchor
  OBVIOUS
<1>1. UNCHANGED <<checkouts, anchors, meta, repos, repoFile, known, slips>>
  BY DEF RegisterWorkspace
<1>2. /\ ~Idle(c) /\ Head(q.steps) \in {"enter", "open", "openOrDrop"} /\ q \in Requests
      /\ a \in Rows /\ q.steps \in Shapes /\ q.steps # <<>> /\ request[c] # None
  BY AtIs DEF RegisterWorkspace, Idle
<1>3. ReliesEntering(q) /\ ReliesDropping(q) /\ \A d \in Callers : d = c
  BY <1>2 DEF Agree, Relies, Entitled, OneCaller
<1>4. ~Cuts(c) /\ q.steps # <<"record", "enter">>
  BY <1>2, Heads, HeadExcludes DEF Cuts
<1>5. entries' \in {entries, entries \cup {a.slot}}
  BY DEF RegisterWorkspace
<1>6. SlotsDiffer'
  BY <1>1 DEF Agree, SlotsDiffer
<1>7. EntriesThere'
  BY <1>1, <1>2, <1>3, <1>5 DEF Agree, EntriesThere, Slipped, ReliesEntering, Here
<1>8. CheckoutsThere'
  BY <1>1, <1>3, <1>4 DEF Agree, CheckoutsThere, Slipped
<1>9. ReposThere'
  BY <1>1, <1>3, <1>4 DEF Agree, ReposThere, Slipped
<1>10. entries' \subseteq {b.slot : b \in Rows}
  BY <1>2, <1>5 DEF Types
<1>11. CASE Fail(c)
  <2>1. Idle(c)' /\ request' \in [Callers -> Requests \cup {None}]
    BY <1>11, FailLeads DEF Idle
  <2> QED BY <1>1, <1>3, <1>6, <1>7, <1>8, <1>9, <1>10, <2>1 DEF Agree, Types
<1>12. CASE Go(c)
  <2>1. PICK m : m = request'[c]
    OBVIOUS
  <2>2. Leads(Rest(q), m) /\ request' \in [Callers -> Requests \cup {None}] /\ m # None
    BY <1>2, <1>12, <2>1, GoLeads
  <2>3. m.steps = <<>>
    <3>1. Tail(q.steps) = <<>> /\ <<>> # <<"record", "enter">>
      <4>1. <<>> # <<"record", "enter">>
        OBVIOUS
      <4> QED BY <1>2, <4>1, AfterLast
    <3> QED BY <1>2, <2>2, <3>1 DEF Leads, Rest, Requests
  <2>4. Idle(c)'
    BY <2>1, <2>3 DEF Idle
  <2> QED BY <1>1, <1>3, <1>6, <1>7, <1>8, <1>9, <1>10, <2>2, <2>4 DEF Agree, Types
<1>13. CASE /\ Head(q.steps) = "openOrDrop" /\ UNCHANGED entries
            /\ request' = [request EXCEPT ![c].steps = <<"drop">>, ![c].ok = FALSE]
  <2>1. PICK m : m = request'[c]
    OBVIOUS
  <2>2. m = [q EXCEPT !.steps = <<"drop">>, !.ok = FALSE]
    BY <1>13, <2>1 DEF Types
  <2>3. <<"drop">> \in Shapes /\ <<"drop">> # <<>> /\ Head(<<"drop">>) = "drop"
    BY DEF Shapes, Adopting
  <2>4. m \in Requests /\ m.steps = <<"drop">> /\ m.anchor = a
    BY <1>2, <2>2, <2>3 DEF Requests
  <2>5. request' \in [Callers -> Requests \cup {None}]
    BY <1>13, <2>1, <2>4 DEF Types
  <2>6. <<"drop">> \notin Forgetting /\ <<"drop">> # <<"record", "enter">>
    BY <2>3, HeadExcludes DEF Forgetting
  <2>7. Relies(m)'
    <3>1. a \in Anchors /\ (NoEntry(a) \/ a \notin anchors)
      BY <1>3, <1>13 DEF ReliesDropping
    <3> QED BY <1>1, <1>13, <2>3, <2>4, <2>6, <3>1
            DEF Relies, Entitled, ReliesAdding, ReliesWriting, ReliesEntering, ReliesDropping,
                ReliesCutting, ReliesForgetting, ListIsFresh, Writes, NoEntry, Slipped
  <2>8. Relies(request[c])'
    BY <2>1, <2>7
  <2> QED BY <1>1, <1>3, <1>6, <1>7, <1>8, <1>9, <1>10, <2>5, <2>8 DEF Agree, Types
<1> QED BY <1>2, <1>11, <1>12, <1>13 DEF RegisterWorkspace

LEMMA UnregisterWorkspaceKeeps ==
  ASSUME OneCaller, NoneIsNothing, Types, Agree, NEW c \in Callers, UnregisterWorkspace(c)
  PROVE  Types' /\ Agree'
<1> PICK q : q = request[c]
  OBVIOUS
<1> PICK a : a = q.anchor
  OBVIOUS
<1>1. UNCHANGED <<checkouts, anchors, meta, repos, repoFile, known>>
  BY DEF UnregisterWorkspace
<1>2. /\ ~Idle(c) /\ Head(q.steps) \in {"leave", "leaveOrFail"} /\ q \in Requests
      /\ a \in Rows /\ q.steps \in Shapes /\ q.steps # <<>> /\ request[c] # None
  BY AtIs DEF UnregisterWorkspace, Idle
<1>3. ReliesDropping(q) /\ ReliesForgetting(q) /\ \A d \in Callers : d = c
  BY <1>2 DEF Agree, Relies, Entitled, OneCaller
<1>4. q.steps # <<"record", "enter">>
  BY <1>2, HeadExcludes
<1>5. slips \subseteq slips' /\ entries' \subseteq entries
  BY DEF UnregisterWorkspace, Slip
<1>6. SlotsDiffer'
  BY <1>1 DEF Agree, SlotsDiffer
<1>7. EntriesThere'
  BY <1>1, <1>5 DEF Agree, EntriesThere, Slipped
<1>8. ReposThere'
  BY <1>1, <1>3, <1>4, <1>5 DEF Agree, ReposThere, Slipped
<1>9. CASE Fail(c) /\ Head(q.steps) # "leave"
  <2>1. Idle(c)' /\ request' \in [Callers -> Requests \cup {None}]
    BY <1>9, FailLeads DEF Idle
  <2>2. ~Cuts(c)
    BY <1>2, <1>9, Heads DEF Cuts
  <2>3. CheckoutsThere'
    BY <1>1, <1>3, <1>5, <2>2 DEF Agree, CheckoutsThere, Slipped
  <2>4. Types'
    BY <1>1, <1>5, <2>1 DEF Types
  <2> QED BY <1>3, <1>6, <1>7, <1>8, <2>1, <2>3, <2>4 DEF Agree
<1>10. CASE /\ Go(c)
            /\ \/ entries' = (IF Resolves(a) THEN entries \ {a.slot} ELSE entries)
               \/ Slip({<<"entry", a.slot>>})
  <2>1. PICK m : m = request'[c]
    OBVIOUS
  <2>2. Leads(Rest(q), m) /\ request' \in [Callers -> Requests \cup {None}] /\ m # None
    BY <1>2, <1>10, <2>1, GoLeads
  <2>3. m.steps # <<>> => /\ m.anchor = a /\ m.op = q.op /\ ListIsFresh(m)
    BY <1>2, <2>2 DEF Leads, Rest, Requests
  <2>4. \/ m.steps = <<>> /\ (q.steps # <<"leave", "drop">>)
        \/ m.steps = <<"drop">> /\ q.steps \in {<<"leave", "drop">>, <<"leaveOrFail", "drop">>}
        \/ m.steps = <<"forget">> /\ q.steps = <<"leave", "forget">>
        \/ m.steps = <<"drop", "forget">> /\ q.steps = <<"leave", "drop", "forget">>
    <3>1. /\ <<"drop">> # <<"record", "enter">> /\ <<>> # <<"record", "enter">>
          /\ <<"forget">> # <<"record", "enter">> /\ <<"drop", "forget">> # <<"record", "enter">>
          /\ <<"drop">> # <<>> /\ <<"leave">> # <<"leave", "drop">>
          /\ <<"leave", "forget">> # <<"leave", "drop">>
          /\ <<"leaveOrFail">> # <<"leave", "drop">> /\ <<"leaveOrFail", "drop">> # <<"leave", "drop">>
          /\ <<"leave", "drop", "forget">> # <<"leave", "drop">>
      OBVIOUS
    <3>2. Head(<<"drop">>) \notin Writes
      BY DEF Writes
    <3> QED BY <1>2, <2>2, <3>1, <3>2, AfterLeave, AfterLeaveOrFail DEF Leads, Rest, Requests
  <2>5. Types'
    BY <1>1, <1>5, <2>2 DEF Types
  <2>6. CheckoutsThere'
    <3>1. CASE Cuts(c)
      <4>1. m.steps = <<"drop">>
        <5>0. Head(<<"drop">>) = "drop"
          OBVIOUS
        <5>1. q.steps = <<"leave", "drop">>
          BY <1>2, <3>1, <5>0 DEF Cuts
        <5>2. <<"leave", "drop">> # <<"leave", "forget">>
              /\ <<"leave", "drop">> # <<"leave", "drop", "forget">>
          OBVIOUS
        <5> QED BY <2>4, <5>1, <5>2
      <4>2. <<"drop">> # <<>>
        OBVIOUS
      <4>3. ~Idle(c)' /\ Cuts(c)' /\ request'[c].anchor = a
        BY <2>1, <2>2, <2>3, <3>1, <4>1, <4>2 DEF Cuts, Idle
      <4> QED BY <1>1, <1>3, <1>5, <4>3 DEF Agree, CheckoutsThere, Slipped
    <3>2. CASE ~Cuts(c)
      BY <1>1, <1>3, <1>5, <3>2 DEF Agree, CheckoutsThere, Slipped
    <3> QED BY <3>1, <3>2
  <2>7. ASSUME m.steps # <<>>
        PROVE  Relies(m)'
    <3>1. ListIsFresh(m)'
      BY <1>1, <2>3, <2>7 DEF ListIsFresh, Target
    <3>2. Head(m.steps) \in {"drop", "forget"}
      BY <2>4, <2>7
    <3>3. m.steps # <<"record", "enter">>
      BY <3>2, HeadExcludes
    <3>4. m.steps \in Dropping => a \in Anchors
      <4>1. /\ <<"leave", "drop">> \in Dropping /\ <<"leaveOrFail", "drop">> \in Dropping
            /\ <<"leave", "drop", "forget">> \in Dropping /\ <<"forget">> \notin Dropping
        BY DEF Dropping
      <4> QED BY <1>3, <2>4, <2>7, <4>1 DEF ReliesDropping
    <3>5. m.steps \in Forgetting => \A b \in anchors : b.kind = "worktree" => b.repo # a.repo
      <4>1. /\ <<"leave", "forget">> \in Forgetting
            /\ <<"leave", "drop", "forget">> \in Forgetting /\ <<"drop">> \notin Forgetting
        BY DEF Forgetting
      <4> QED BY <1>3, <2>4, <2>7, <4>1 DEF ReliesForgetting
    <3>6. a \in anchors => NoEntry(a)'
      <4>1. CASE Slip({<<"entry", a.slot>>})
        BY <4>1 DEF Slip, NoEntry, Slipped
      <4>2. CASE entries' = (IF Resolves(a) THEN entries \ {a.slot} ELSE entries)
        <5>1. a \in anchors => Resolves(a)
          BY RowTypes, RepositoriesAssumption DEF Types, Resolves, IsWithin
        <5> QED BY <4>2, <5>1 DEF NoEntry
      <4> QED BY <1>10, <4>1, <4>2
    <3> QED BY <1>1, <2>3, <2>7, <3>1, <3>2, <3>3, <3>4, <3>5, <3>6
            DEF Relies, Entitled, ReliesAdding, ReliesWriting, ReliesEntering,
                ReliesDropping, ReliesCutting, ReliesForgetting
  <2>8. ~Idle(c)' => Relies(request[c])'
    BY <2>1, <2>7 DEF Idle
  <2> QED BY <1>3, <1>6, <1>7, <1>8, <2>5, <2>6, <2>8 DEF Agree
<1> QED BY <1>9, <1>10 DEF UnregisterWorkspace

LEMMA RemoveNodeKeeps ==
  ASSUME OneCaller, NoneIsNothing, Types, Agree, NEW c \in Callers, RemoveNode(c)
  PROVE  Types' /\ Agree'
<1> PICK q : q = request[c]
  OBVIOUS
<1>1. UNCHANGED <<checkouts, anchors, meta, repos, repoFile, entries, slips>>
  BY DEF RemoveNode
<1>2. /\ ~Idle(c) /\ Head(q.steps) = "unlist" /\ q \in Requests
      /\ q.steps \in Shapes /\ q.steps # <<>>
  BY AtIs DEF RemoveNode
<1>3. \A d \in Callers : d = c
  BY DEF OneCaller
<1>4. ~Cuts(c) /\ q.steps # <<"record", "enter">>
  BY <1>2, Heads, HeadExcludes DEF Cuts
<1>5. known' = known \/ known' = FALSE
  BY DEF RemoveNode
<1>6. (SlotsDiffer /\ EntriesThere)'
  BY <1>1 DEF Agree, SlotsDiffer, EntriesThere, Slipped
<1>7. CheckoutsThere'
  BY <1>1, <1>3, <1>4 DEF Agree, CheckoutsThere, Slipped
<1>8. ReposThere'
  BY <1>1, <1>3, <1>4, <1>5 DEF Agree, ReposThere, Slipped
<1>9. CASE Fail(c)
  <2>1. Idle(c)' /\ request' \in [Callers -> Requests \cup {None}]
    BY <1>9, FailLeads DEF Idle
  <2> QED BY <1>1, <1>3, <1>5, <1>6, <1>7, <1>8, <2>1 DEF Agree, Types
<1>10. CASE known' = FALSE /\ Go(c)
  <2>1. PICK m : m = request'[c]
    OBVIOUS
  <2>2. Leads(Rest(q), m) /\ request' \in [Callers -> Requests \cup {None}] /\ m # None
    BY <1>2, <1>10, <2>1, GoLeads
  <2>3. m.steps \in {<<>>, <<"purge">>}
    <3>1. <<"purge">> # <<"record", "enter">>
      OBVIOUS
    <3> QED BY <1>2, <2>2, <3>1, AfterUnlist DEF Leads, Rest, Requests
  <2>4. ASSUME m.steps # <<>>
        PROVE  Relies(m)'
    <3>1. ListIsFresh(m)'
      BY <1>1, <2>2, <2>4 DEF Leads, ListIsFresh, Target
    <3>2. Head(m.steps) = "purge"
      BY <2>3, <2>4
    <3>3. m.steps \notin Dropping /\ m.steps \notin Forgetting /\ m.steps # <<"record", "enter">>
      BY <3>2, HeadExcludes
    <3> QED BY <1>10, <3>1, <3>2, <3>3
            DEF Relies, Entitled, ReliesAdding, ReliesWriting, ReliesEntering,
                ReliesDropping, ReliesCutting, ReliesForgetting
  <2>5. ~Idle(c)' => Relies(request[c])'
    BY <2>1, <2>4 DEF Idle
  <2> QED BY <1>1, <1>3, <1>5, <1>6, <1>7, <1>8, <2>2, <2>5 DEF Agree, Types
<1> QED BY <1>9, <1>10 DEF RemoveNode
LEMMA InitAgrees ==
  ASSUME WorktreeInit
  PROVE  Types /\ Agree
<1> USE DEF WorktreeInit
<1>1. \A c \in Callers : Idle(c)
  BY DEF Idle
<1>2. Types
  BY DEF Types
<1> QED BY <1>1, <1>2
        DEF Agree, SlotsDiffer, CheckoutsThere, ReposThere, EntriesThere

LEMMA StepKeeps ==
  ASSUME OneCaller, PlainNames, NoneIsNothing, Types, Agree, [WorktreeNext]_worktreeVars
  PROVE  Types' /\ Agree'
<1>1. ASSUME NEW c \in Callers, Step(c)
      PROVE  Types' /\ Agree'
  BY <1>1, NewRequestKeeps, AnswerKeeps, AddWorktreeKeeps, WriteAnchorKeeps, DropAnchorKeeps,
     CutWorktreeKeeps, WriteReposKeeps, RegisterWorkspaceKeeps, UnregisterWorkspaceKeeps,
     RemoveNodeKeeps DEF Step
<1>2. CASE UNCHANGED worktreeVars
  <2> USE DEF worktreeVars
  <2>1. Types'
    BY <1>2 DEF Types
  <2>2. (SlotsDiffer /\ EntriesThere)'
    BY <1>2 DEF Agree, SlotsDiffer, EntriesThere, Slipped
  <2>3. (CheckoutsThere /\ ReposThere)'
    BY <1>2 DEF Agree, CheckoutsThere, ReposThere, Slipped, Idle, Cuts
  <2>4. ASSUME NEW c \in Callers, ~Idle(c)'
        PROVE  Relies(request[c])'
    <3>1. Relies(request[c])
      BY <1>2, <2>4 DEF Agree, Idle
    <3>2. PICK m : m = request[c]
      OBVIOUS
    <3>3. Relies(m)'
      BY <1>2, <3>1, <3>2, ReliesStays
    <3> QED BY <1>2, <3>2, <3>3
  <2> QED BY <2>1, <2>2, <2>3, <2>4 DEF Agree
<1> QED BY <1>1, <1>2, CutByHandKeeps, RestartKeeps DEF WorktreeNext

-----------------------------------------------------------------------------
(* The theorems.                                                             *)

(* One request at a time, of machines and branches whose names have no       *)
(* slash, the types and the inductive invariant hold (PlainNames; the API    *)
(* takes names with a slash too, api.ts 448, and worktree_claims.cfg shows   *)
(* what they break).                                                         *)
THEOREM RequestsRelyRightly ==
  ASSUME OneCaller, PlainNames, NoneIsNothing
  PROVE  WorktreeSpec => [](Types /\ Agree)
<1>1. WorktreeInit => Types /\ Agree
  BY InitAgrees
<1>2. Types /\ Agree /\ [WorktreeNext]_worktreeVars => (Types /\ Agree)'
  BY StepKeeps
<1> QED BY <1>1, <1>2, PTL DEF WorktreeSpec

LEMMA FewSteps ==
  ASSUME NEW s \in Shapes
  PROVE  Len(s) <= 4
<1> DEFINE Few(t) == Len(t) <= 4
<1>1. /\ Few(<<>>)
      /\ \A x : Few(<<x>>)
      /\ \A x, y : Few(<<x, y>>)
      /\ \A x, y, z : Few(<<x, y, z>>)
      /\ \A x, y, z, w : Few(<<x, y, z, w>>)
  OBVIOUS
<1> HIDE DEF Few
<1>2. s \in Creating \cup Adopting \cup Entering => Few(s)
  BY <1>1, Zenon DEF Creating, Adopting, Entering
<1>3. s \in Releasing \cup Removing \cup Listing => Few(s)
  BY <1>1, Zenon DEF Releasing, Removing, Listing
<1> QED BY <1>1, <1>2, <1>3 DEF Shapes, Few

(* For one request at a time and names without a slash (PlainNames),         *)
(* anchors, repositories and workspace entries agree whenever no request is  *)
(* under way: a path below an anchor's directory is routed to that anchor    *)
(* alone and into a checkout that is there, a worktree's repository is       *)
(* recorded, and no workspace entry outlives its anchor, but for the changes *)
(* whose other half failed or was cut short, through any creates, adoptions, *)
(* removals, hand-cut checkouts and restarts (worktrees.ts 723-861, the      *)
(* order of a removal at 751; anchors.ts 328-400).                           *)
THEOREM WorktreesAgree ==
  ASSUME OneCaller, PlainNames, NoneIsNothing
  PROVE  WorktreeSpec => []WorktreeInv
<1>1. Types => WorktreeTypeOK
  <2> SUFFICES ASSUME Types
               PROVE  WorktreeTypeOK
    OBVIOUS
  <2>1. \A c \in Callers : ~Idle(c) => request[c].anchor \in Rows /\ Len(request[c].steps) <= 4
    BY Pending, FewSteps
  <2> QED BY <2>1 DEF Types, WorktreeTypeOK
<1>2. Types /\ Agree => RoutesHome
  BY WithinIsEqual DEF Types, Agree, SlotsDiffer, RoutesHome, RoutesOf
<1>3. Types /\ Agree => RepositoryRecorded /\ EntryHasAnchor
  BY DEF Types, Agree, ReposThere, EntriesThere, Slipped, RepositoryRecorded, EntryHasAnchor, Quiet
<1>4. Agree => DanglingExplained
  BY DEF Agree, CheckoutsThere, Slipped, DanglingExplained, Quiet
<1> QED BY <1>1, <1>2, <1>3, <1>4, RequestsRelyRightly, PTL DEF WorktreeInv

(* For one request at a time and names without a slash, what a restart loads *)
(* is what was in memory, at any moment and not only between requests        *)
(* (anchors.ts load). With a slash a restart drops the anchor.               *)
THEOREM AnchorsSurvive ==
  ASSUME OneCaller, PlainNames, NoneIsNothing
  PROVE  WorktreeSpec => []HeldIsDurable
<1>1. Types => HeldIsDurable
  BY LoadedIsMeta DEF HeldIsDurable
<1> QED BY <1>1, RequestsRelyRightly, PTL
-----------------------------------------------------------------------------
(* The anchors are a durable set.                                            *)

Has(s, x) == \E i \in DOMAIN s : s[i] = x

\* A request that is about to add its anchor or to drop it.
Pends(c) == ~Idle(c) /\ (Left(c, "write") \/ Left(c, "drop"))

AskedOf == [c \in Callers |-> IF ~Idle(c) /\ (Left(c, "write") \/ Left(c, "drop"))
                              THEN request[c].anchor ELSE None]

LEMMA HasIs ==
  /\ \A x : ~Has(<<>>, x)
  /\ \A a, x : Has(<<a>>, x) <=> x = a
  /\ \A a, b, x : Has(<<a, b>>, x) <=> x \in {a, b}
  /\ \A a, b, d, x : Has(<<a, b, d>>, x) <=> x \in {a, b, d}
<1>1. \A a, x : Has(<<a>>, x) <=> x = a
  BY DEF Has
<1>2. \A a, b, x : Has(<<a, b>>, x) <=> x \in {a, b}
  BY DEF Has
<1>3. \A a, b, d, x : Has(<<a, b, d>>, x) <=> x \in {a, b, d}
  BY DEF Has
<1> QED BY <1>1, <1>2, <1>3 DEF Has

(* What is to be written or dropped is an anchor.                            *)
LEMMA TouchedIs ==
  ASSUME NEW s \in Shapes, Has(s, "write") \/ Has(s, "drop")
  PROVE  \/ s \in Dropping \/ (s # <<>> /\ Head(s) = "write")
         \/ s = <<"add", "write", "record", "enter">>
<1> DEFINE Out(t) == ~Has(t, "write") /\ ~Has(t, "drop")
<1>1. \A x : x \notin {"write", "drop"} => Out(<<x>>)
  BY HasIs
<1>2. \A x, y : x \notin {"write", "drop"} /\ y \notin {"write", "drop"} => Out(<<x, y>>)
  BY HasIs
<1>3. Out(<<"add", "record", "enter">>) /\ Out(<<>>)
  BY HasIs
<1>4. CASE s \in Creating
  <2>1. \A t \in {<<"record", "enter">>, <<"enter">>} : Out(t)
    BY <1>1, <1>2
  <2>2. Head(<<"write", "record", "enter">>) = "write" /\ <<"write", "record", "enter">> # <<>>
    OBVIOUS
  <2> HIDE DEF Out
  <2>3. ~Out(s)
    BY DEF Out
  <2> QED BY <1>3, <1>4, <2>1, <2>2, <2>3, Zenon DEF Creating
<1>5. CASE s \in Adopting \cup Entering
  <2>1. \A t \in {<<"openOrDrop">>, <<"open">>, <<"leaveOrFail">>} : Out(t)
    BY <1>1
  <2>2. Head(<<"write", "openOrDrop">>) = "write" /\ <<"write", "openOrDrop">> # <<>>
    OBVIOUS
  <2>3. <<"drop">> \in Dropping
    BY DEF Dropping
  <2> HIDE DEF Out
  <2>4. ~Out(s)
    BY DEF Out
  <2> QED BY <1>5, <2>1, <2>2, <2>3, <2>4, Zenon DEF Adopting, Entering
<1>6. CASE s \in Releasing \cup Removing
  <2>1. \A t \in {<<"leaveOrFail">>, <<"leave">>, <<"cut">>, <<"cut", "leave">>} : Out(t)
    BY <1>1, <1>2
  <2> HIDE DEF Out
  <2>2. ~Out(s)
    BY DEF Out
  <2> QED BY <1>6, <2>1, <2>2, Zenon DEF Releasing, Removing, Dropping
<1>7. CASE s \in Listing
  <2>1. \A t \in {<<"record">>, <<"forget">>, <<"leave", "forget">>, <<"unlist", "purge">>,
                  <<"purge">>} : Out(t)
    BY <1>1, <1>2
  <2> HIDE DEF Out
  <2>2. ~Out(s)
    BY DEF Out
  <2> QED BY <1>7, <2>1, <2>2, Zenon DEF Listing, Dropping
<1>8. CASE s = <<>>
  BY <1>3, <1>8
<1> QED BY <1>4, <1>5, <1>6, <1>7, <1>8 DEF Shapes

PendsAnchors == \A c \in Callers : Pends(c) => request[c].anchor \in Anchors

LEMMA PendsIs == Types /\ Agree => PendsAnchors
<1> SUFFICES ASSUME Types, Agree, NEW c \in Callers, Pends(c)
             PROVE  request[c].anchor \in Anchors
  BY DEF PendsAnchors
<1> PICK q : q = request[c]
  OBVIOUS
<1>1. /\ ~Idle(c) /\ q.steps \in Shapes
  BY Pending DEF Pends
<1>2. Relies(q)
  BY <1>1 DEF Agree
<1>3. Has(q.steps, "write") \/ Has(q.steps, "drop")
  BY DEF Pends, Left, Has
<1>4. CASE q.steps \in Dropping
  BY <1>2, <1>4 DEF Relies, Entitled, ReliesDropping
<1>5. CASE Head(q.steps) = "write"
  BY <1>2, <1>5 DEF Relies, Entitled, ReliesWriting
<1>6. CASE q.steps = <<"add", "write", "record", "enter">>
  <2>1. Head(q.steps) = "add" /\ q.steps # <<"add", "record", "enter">>
    BY <1>6
  <2> QED BY <1>2, <2>1 DEF Relies, Entitled, ReliesAdding
<1> QED BY <1>1, <1>3, <1>4, <1>5, <1>6, TouchedIs

(* A step that leaves the anchors as they were begins a change, goes on with *)
(* it or gives it up.                                                        *)
LEMMA KeepsHeld ==
  ASSUME OneCaller, NoneIsNothing, Types, Agree, Types', Agree', NEW c \in Callers,
         anchors' = anchors,
         Idle(c) \/ Idle(c)' \/ request'[c].anchor = request[c].anchor
  PROVE  [Durable!Next]_<<anchors, AskedOf>>
<1>1. Callers = {c}
  BY DEF OneCaller
<1>2. /\ AskedOf = [d \in Callers |-> AskedOf[c]]
      /\ AskedOf' = [d \in Callers |-> AskedOf'[c]]
  BY <1>1 DEF AskedOf
<1>3. /\ AskedOf[c] = IF Pends(c) THEN request[c].anchor ELSE None
      /\ AskedOf'[c] = IF Pends(c)' THEN request'[c].anchor ELSE None
  BY DEF AskedOf, Pends
<1>4. /\ Pends(c) => request[c].anchor \in Anchors /\ ~Idle(c)
      /\ Pends(c)' => request'[c].anchor \in Anchors /\ ~Idle(c)'
  <2>1. PendsAnchors'
    <3>1. (Types /\ Agree => PendsAnchors)'
      BY PendsIs, PTL
    <3> QED BY <3>1
  <2> QED BY <2>1, PendsIs DEF Pends, PendsAnchors
<1>5. CASE AskedOf[c] = AskedOf'[c]
  BY <1>2, <1>5
<1>6. CASE AskedOf[c] = None /\ AskedOf'[c] # None
  <2>1. AskedOf'[c] \in Anchors
    BY <1>3, <1>4, <1>6
  <2>2. AskedOf' = [AskedOf EXCEPT ![c] = AskedOf'[c]]
    BY <1>1, <1>2 DEF AskedOf
  <2>3. Durable!Begin(c)
    BY <1>6, <2>1, <2>2 DEF Durable!Begin, AskedOf
  <2> QED BY <2>3 DEF Durable!Next
<1>7. CASE AskedOf[c] # None /\ AskedOf'[c] = None
  <2>1. AskedOf' = [AskedOf EXCEPT ![c] = None]
    BY <1>1, <1>2, <1>7 DEF AskedOf
  <2>2. Durable!GiveUp(c)
    BY <1>7, <2>1 DEF Durable!GiveUp, AskedOf
  <2> QED BY <2>2 DEF Durable!Next
<1> QED BY <1>3, <1>4, <1>5, <1>6, <1>7
LEMMA StepsAreDurable ==
  ASSUME OneCaller, PlainNames, NoneIsNothing, Types, Agree, Types', Agree',
         [WorktreeNext]_worktreeVars
  PROVE  [Durable!Next]_<<anchors, AskedOf>>
<1>1. CASE Restart
  <2>1. anchors' = anchors /\ \A c \in Callers : Idle(c)'
    BY <1>1, LoadedIsMeta DEF Restart, Idle
  <2>2. Durable!Restart
    BY <2>1 DEF Durable!Restart, AskedOf
  <2> QED BY <2>2 DEF Durable!Next
<1>2. CASE UNCHANGED <<anchors, request>>
  BY <1>2 DEF AskedOf, Idle, Left
<1>3. ASSUME NEW c \in Callers, Step(c), anchors' = anchors
      PROVE  [Durable!Next]_<<anchors, AskedOf>>
  <2> PICK q : q = request[c]
    OBVIOUS
  <2>1. CASE Idle(c) \/ Fail(c) \/ Answer(c)
    <3>1. Idle(c) \/ Idle(c)'
      BY <2>1, FailLeads DEF Idle, Answer, Types
    <3> QED BY <1>3, <3>1, KeepsHeld
  <2>2. CASE ~Idle(c) /\ Go(c)
    <3>1. Leads(Rest(q), request'[c])
      BY <2>2, GoLeads
    <3>2. Idle(c)' \/ request'[c].anchor = q.anchor
      BY <2>2, <3>1, Pending DEF Leads, Rest, Idle, Requests
    <3> QED BY <1>3, <3>2, KeepsHeld
  <2>3. CASE /\ ~Idle(c)
             /\ request' = [request EXCEPT ![c].steps = <<"drop">>, ![c].ok = FALSE]
    <3>1. request'[c].anchor = q.anchor
      BY <2>3, Pending DEF Requests, Types
    <3> QED BY <1>3, <3>1, KeepsHeld
  <2> QED BY <1>3, <2>1, <2>2, <2>3
          DEF Step, NewRequest, AddWorktree, WriteAnchor, DropAnchor, CutWorktree, WriteRepos,
              RegisterWorkspace, UnregisterWorkspace, RemoveNode, At, Idle
<1>4. ASSUME NEW c \in Callers, WriteAnchor(c) \/ DropAnchor(c), anchors' # anchors
      PROVE  Durable!Land(c)
  <2> PICK q : q = request[c]
    OBVIOUS
  <2> PICK a : a = q.anchor
    OBVIOUS
  <2>1. /\ ~Idle(c) /\ Head(q.steps) \in {"write", "drop"} /\ q.steps \in Shapes
        /\ q.steps # <<>> /\ q \in Requests /\ Relies(q)
    BY <1>4, AtIs DEF WriteAnchor, DropAnchor, Agree
  <2>2. Left(c, "write") \/ Left(c, "drop")
    <3>1. 1 \in DOMAIN q.steps /\ q.steps[1] = Head(q.steps)
      <4>1. q.steps \in {<<"write", "record", "enter">>, <<"write", "openOrDrop">>,
                         <<"drop">>, <<"drop", "forget">>}
        BY <2>1, HeadTells
      <4> QED BY <4>1
    <3> QED BY <2>1, <3>1 DEF Left
  <2>3. AskedOf[c] = a /\ a \in Anchors
    BY <2>1, <2>2, PendsIs DEF AskedOf, Pends, PendsAnchors
  <2>4. Go(c)
    BY <1>4 DEF WriteAnchor, DropAnchor
  <2>5. anchors' = Durable!Toggled(a)
    <3>1. CASE WriteAnchor(c)
      <4>1. anchors' = anchors \cup {a}
        BY <1>4, <3>1 DEF WriteAnchor
      <4> QED BY <1>4, <4>1 DEF Durable!Toggled
    <3>2. CASE DropAnchor(c)
      <4>1. anchors' = anchors \ {a}
        BY <1>4, <3>2 DEF DropAnchor
      <4> QED BY <1>4, <4>1 DEF Durable!Toggled
    <3> QED BY <1>4, <3>1, <3>2
  <2>6. AskedOf'[c] \in {None, a}
    <3>1. Leads(Rest(q), request'[c])
      BY <2>1, <2>4, GoLeads
    <3>2. Idle(c)' \/ request'[c].anchor = a
      BY <2>1, <3>1 DEF Leads, Rest, Idle, Requests
    <3> QED BY <3>2 DEF AskedOf
  <2>7. AskedOf' = [AskedOf EXCEPT ![c] = AskedOf'[c]]
    BY DEF OneCaller, AskedOf
  <2> QED BY <2>3, <2>5, <2>6, <2>7 DEF Durable!Land, AskedOf, NoneIsNothing
<1>5. ASSUME NEW c \in Callers, Step(c)
      PROVE  [Durable!Next]_<<anchors, AskedOf>>
  <2>1. anchors' = anchors \/ WriteAnchor(c) \/ DropAnchor(c)
    BY <1>5 DEF Step, NewRequest, Answer, AddWorktree, CutWorktree, WriteRepos,
                RegisterWorkspace, UnregisterWorkspace, RemoveNode
  <2> QED BY <1>3, <1>4, <1>5, <2>1 DEF Durable!Next
<1> QED BY <1>1, <1>2, <1>5 DEF WorktreeNext, CutByHand, worktreeVars

(* For one request at a time and names without a slash (PlainNames), the     *)
(* anchor store is a durable set to everyone who uses it: a request changes  *)
(* one anchor, wholly or not at all, a change lands while its request is     *)
(* under way, and a restart changes none (anchors.ts 328-400). With a slash  *)
(* in a name a restart does lose an anchor (worktree_claims.cfg).            *)
THEOREM AnchorsAreDurable ==
  ASSUME OneCaller, PlainNames, NoneIsNothing
  PROVE  WorktreeSpec => KeepsDurableSet
<1>1. WorktreeInit => Durable!Init
  BY DEF WorktreeInit, Durable!Init, Idle
<1>2. /\ Types /\ Agree /\ (Types /\ Agree)' /\ [WorktreeNext]_worktreeVars
      => [Durable!Next]_<<anchors, AskedOf>>
  BY StepsAreDurable
<1> QED BY <1>1, <1>2, RequestsRelyRightly, PTL
        DEF WorktreeSpec, KeepsDurableSet, Durable!Spec, AskedOf
-----------------------------------------------------------------------------
(* What a route answers with success is so.                                  *)

\* What a request that has not failed so far has brought about, by the route
\* that asked it and the steps it has left.
PromisesCreate(q) ==
  /\ q.steps \in Creating
  /\ q.steps = <<"add", "record", "enter">> => q.anchor.repo \notin Remote
  /\ Head(q.steps) # "add" => Checkout(q.anchor) \in checkouts
  /\ Head(q.steps) \in {"record", "enter"} /\ q.anchor.repo \in Remote => q.anchor \in anchors
  /\ Head(q.steps) = "enter" => q.anchor.repo \in repos

PromisesAdopt(q) ==
  /\ q.steps \in {<<"write", "openOrDrop">>, <<"openOrDrop">>}
  /\ Head(q.steps) = "openOrDrop" => q.anchor \in anchors

PromisesOpen(q) == q.steps = <<"open">> /\ q.anchor \in Held

PromisesGone(q) ==
  /\ q.steps \in Releasing \cup Removing \cup {<<"leaveOrFail">>}
  /\ q.anchor \in anchors => q.steps \in Dropping

\* What is closed or released still resolves when its entry is to go, and has
\* none left after that.
PromisesClosed(q) == q.steps = <<"leaveOrFail">> /\ Resolves(q.anchor)

PromisesReleased(q) ==
  /\ Head(q.steps) \in {"leave", "leaveOrFail"} => Resolves(q.anchor)
  /\ Head(q.steps) = "drop" => NoEntryOf(q.anchor)

PromisesRemoved(q) ==
  Head(q.steps) # "cut" => Checkout(q.anchor) \notin checkouts \/ q.anchor.path \in Elsewhere

PromisesForgotten(q) ==
  /\ q.steps \in Forgetting
  /\ \A b \in DirectoryAnchorOf(q.anchor.repo) : b = q.anchor /\ q.steps \in Dropping

PromisesUnlisted(q) == q.steps \in {<<"unlist", "purge">>, <<"purge">>}

Promised(q) == q.ok =>
  /\ q.op = "create" => PromisesCreate(q)
  /\ q.op = "adopt" => PromisesAdopt(q)
  /\ q.op = "open" => PromisesOpen(q)
  /\ q.op = "close" => PromisesClosed(q)
  /\ q.op = "remove" => PromisesGone(q) /\ PromisesRemoved(q)
  /\ q.op = "release" => PromisesGone(q) /\ PromisesReleased(q)
  /\ q.op = "addRepo" => q.steps = <<"record">>
  /\ q.op = "deleteRepo" => PromisesForgotten(q)
  /\ q.op = "deleteNode" => PromisesUnlisted(q)

Promising == \A c \in Callers : ~Idle(c) => Promised(request[c])

(* A step of a request that has not failed after it goes on with it, as its  *)
(* first await says.                                                         *)
GoesOn(c, q, m) ==
  /\ ~Idle(c) /\ Step(c) /\ q = request[c] /\ m = request'[c] /\ m # None /\ m.ok

LEMMA StepGoes ==
  ASSUME NoneIsNothing, Types, NEW c \in Callers, NEW q, NEW m, GoesOn(c, q, m)
  PROVE  /\ Go(c) /\ Leads(Rest(q), m) /\ q.ok
         /\ q \in Requests /\ q.steps \in Shapes /\ q.steps # <<>> /\ q.anchor \in Rows
         /\ m.steps # <<>> => m.anchor = q.anchor /\ m.op = q.op /\ m.ok = q.ok
<1>1. /\ ~Idle(c) /\ q = request[c] /\ m = request'[c] /\ m.ok
      /\ q \in Requests /\ q.steps \in Shapes /\ q.steps # <<>> /\ q.anchor \in Rows
  BY Pending DEF GoesOn
<1>2. ~Fail(c)
  BY <1>1, FailLeads
<1>3. ~(request' = [request EXCEPT ![c].steps = <<"drop">>, ![c].ok = FALSE])
  BY <1>1 DEF Types, Requests
<1>4. ~NewRequest(c) /\ ~Answer(c)
  BY <1>1 DEF NewRequest, Answer, Idle
<1>5. Go(c)
  BY <1>2, <1>3, <1>4 DEF GoesOn, Step, AddWorktree, WriteAnchor, DropAnchor, CutWorktree,
       WriteRepos, RegisterWorkspace, UnregisterWorkspace, RemoveNode
<1>6. Leads(Rest(q), m)
  BY <1>1, <1>5, GoLeads
<1>7. m.ok = q.ok /\ (m.steps # <<>> => m.anchor = q.anchor /\ m.op = q.op)
  BY <1>1, <1>6 DEF Leads, Rest, Requests
<1>8. q.ok
  <2>1. m.ok = TRUE
    BY <1>1, <1>6 DEF Leads, Requests
  <2>2. q.ok = TRUE
    BY <1>7, <2>1
  <2> QED BY <2>2
<1> QED BY <1>1, <1>5, <1>6, <1>7, <1>8, Zenon

LEMMA StepDoes ==
  ASSUME NoneIsNothing, Types, Agree, NEW c \in Callers, NEW q, NEW m, GoesOn(c, q, m)
  PROVE  /\ Head(q.steps) = "add" =>
              /\ checkouts' = checkouts \cup {Checkout(q.anchor)}
              /\ UNCHANGED <<anchors, repos, known>>
         /\ Head(q.steps) = "write" =>
              anchors' = anchors \cup {q.anchor} /\ UNCHANGED <<checkouts, repos, known>>
         /\ Head(q.steps) = "drop" =>
              q.anchor \notin anchors' /\ anchors' \subseteq anchors
              /\ UNCHANGED <<checkouts, repos, known>>
         /\ Head(q.steps) = "cut" => UNCHANGED <<anchors, repos, known>>
         /\ Head(q.steps) \in Writes =>
              repos' = Target(q) /\ UNCHANGED <<checkouts, anchors, known>>
         /\ Head(q.steps) \in {"enter", "open", "openOrDrop", "leave", "leaveOrFail"} =>
              UNCHANGED <<checkouts, anchors, repos, known>>
         /\ Head(q.steps) \in {"open", "openOrDrop"} => q.anchor.slot \in entries'
         /\ Head(q.steps) = "unlist" => known' = FALSE /\ UNCHANGED <<checkouts, anchors, repos>>
<1> DEFINE h == Head(q.steps)
<1>1. /\ ~Idle(c) /\ q = request[c] /\ m = request'[c] /\ m.ok
      /\ q \in Requests /\ q.steps \in Shapes /\ q.steps # <<>> /\ q.anchor \in Rows
  BY StepGoes DEF GoesOn
<1>2. ~Fail(c)
  BY <1>1, FailLeads
<1>3. ~(request' = [request EXCEPT ![c].steps = <<"drop">>, ![c].ok = FALSE])
  BY <1>1 DEF Types, Requests
<1>4. ~NewRequest(c) /\ ~Answer(c)
  BY <1>1 DEF NewRequest, Answer, Idle
<1>5. ListIsFresh(q)
  BY <1>1 DEF Agree, Relies
<1>6. /\ AddWorktree(c) => h = "add"
      /\ WriteAnchor(c) => h = "write"
      /\ DropAnchor(c) => h = "drop"
      /\ CutWorktree(c) => h = "cut"
      /\ WriteRepos(c) => h \in Writes
      /\ RegisterWorkspace(c) => h \in {"enter", "open", "openOrDrop"}
      /\ UnregisterWorkspace(c) => h \in {"leave", "leaveOrFail"}
      /\ RemoveNode(c) => h = "unlist"
  BY <1>1 DEF AddWorktree, WriteAnchor, DropAnchor, CutWorktree, WriteRepos, RegisterWorkspace,
       UnregisterWorkspace, RemoveNode, At, Writes
<1>7. CASE AddWorktree(c)
  BY <1>1, <1>2, <1>6, <1>7 DEF AddWorktree, Writes
<1>8. CASE WriteAnchor(c)
  BY <1>1, <1>2, <1>6, <1>8 DEF WriteAnchor, Writes
<1>9. CASE DropAnchor(c)
  BY <1>1, <1>2, <1>6, <1>9 DEF DropAnchor, Writes
<1>10. CASE CutWorktree(c)
  BY <1>1, <1>2, <1>6, <1>10 DEF CutWorktree, Writes
<1>11. CASE WriteRepos(c)
  BY <1>1, <1>2, <1>5, <1>6, <1>11 DEF WriteRepos, Writes, ListIsFresh
<1>12. CASE RegisterWorkspace(c)
  BY <1>1, <1>2, <1>3, <1>6, <1>12 DEF RegisterWorkspace, Writes
<1>13. CASE UnregisterWorkspace(c)
  BY <1>1, <1>2, <1>6, <1>13 DEF UnregisterWorkspace, Writes
<1>14. CASE RemoveNode(c)
  BY <1>1, <1>2, <1>6, <1>14 DEF RemoveNode, Writes
<1> QED BY <1>4, <1>7, <1>8, <1>9, <1>10, <1>11, <1>12, <1>13, <1>14 DEF GoesOn, Step

(* The same of workspace entries, and of the checkout git removes.           *)
LEMMA StepLeaves ==
  ASSUME NoneIsNothing, Types, NEW c \in Callers, NEW q, NEW m, GoesOn(c, q, m)
  PROVE  /\ Head(q.steps) = "leaveOrFail" /\ Resolves(q.anchor) => q.anchor.slot \notin entries'
         /\ Head(q.steps) = "leave" /\ Resolves(q.anchor) => NoEntryOf(q.anchor)'
         /\ Head(q.steps) = "drop" => entries' = entries /\ slips \subseteq slips'
         /\ Head(q.steps) = "cut" => Checkout(q.anchor) \notin checkouts'
<1> DEFINE h == Head(q.steps)
<1>1. /\ ~Idle(c) /\ q = request[c] /\ m = request'[c] /\ m.ok
      /\ q \in Requests /\ q.steps \in Shapes /\ q.steps # <<>> /\ q.anchor \in Rows
  BY StepGoes DEF GoesOn
<1>2. ~Fail(c)
  BY <1>1, FailLeads
<1>3. ~NewRequest(c) /\ ~Answer(c)
  BY <1>1 DEF NewRequest, Answer, Idle
<1>4. /\ AddWorktree(c) => h = "add"
      /\ WriteAnchor(c) => h = "write"
      /\ DropAnchor(c) => h = "drop"
      /\ CutWorktree(c) => h = "cut"
      /\ WriteRepos(c) => h \in Writes
      /\ RegisterWorkspace(c) => h \in {"enter", "open", "openOrDrop"}
      /\ UnregisterWorkspace(c) => h \in {"leave", "leaveOrFail"}
      /\ RemoveNode(c) => h = "unlist"
  BY <1>1 DEF AddWorktree, WriteAnchor, DropAnchor, CutWorktree, WriteRepos, RegisterWorkspace,
       UnregisterWorkspace, RemoveNode, At, Writes
<1>5. CASE DropAnchor(c)
  BY <1>1, <1>2, <1>4, <1>5 DEF DropAnchor
<1>6. CASE CutWorktree(c)
  BY <1>1, <1>2, <1>4, <1>6 DEF CutWorktree
<1>7. CASE UnregisterWorkspace(c)
  <2>1. \/ /\ entries' = IF Resolves(q.anchor) THEN entries \ {q.anchor.slot} ELSE entries
           /\ UNCHANGED slips
        \/ h = "leave" /\ entries' = entries /\ Slip({<<"entry", q.anchor.slot>>})
    BY <1>1, <1>2, <1>7 DEF UnregisterWorkspace
  <2>2. Slip({<<"entry", q.anchor.slot>>}) => <<"entry", q.anchor.slot>> \in slips'
    BY DEF Slip
  <2>3. h \in {"leave", "leaveOrFail"}
    BY <1>4, <1>7
  <2>4. NoEntryOf(q.anchor)' <=> (q.anchor.slot \notin entries' \/ <<"entry", q.anchor.slot>> \in slips')
    BY DEF NoEntryOf
  <2> QED BY <2>1, <2>2, <2>3, <2>4
<1>8. h \notin {"drop", "cut", "leave", "leaveOrFail"} \/ DropAnchor(c) \/ CutWorktree(c)
        \/ UnregisterWorkspace(c)
  BY <1>3, <1>4 DEF GoesOn, Step, Writes
<1> QED BY <1>5, <1>6, <1>7, <1>8

(* What is left of a request after a step, by the await the step was.        *)
LEMMA StepsLeft ==
  ASSUME NoneIsNothing, Types, NEW c \in Callers, NEW q, NEW m, GoesOn(c, q, m)
  PROVE  /\ Head(q.steps) = "add" =>
              \/ /\ q.steps = <<"add", "write", "record", "enter">>
                 /\ m.steps = <<"write", "record", "enter">>
              \/ /\ q.steps = <<"add", "record", "enter">>
                 /\ \/ m.steps = <<"record", "enter">>
                    \/ m.steps = <<"enter">> /\ q.anchor.repo \in repos
         /\ Head(q.steps) = "write" =>
              \/ /\ q.steps = <<"write", "record", "enter">>
                 /\ \/ m.steps = <<"record", "enter">>
                    \/ m.steps = <<"enter">> /\ q.anchor.repo \in repos
              \/ q.steps = <<"write", "openOrDrop">> /\ m.steps = <<"openOrDrop">>
         /\ Head(q.steps) = "record" =>
              \/ q.steps = <<"record", "enter">> /\ m.steps = <<"enter">>
              \/ q.steps = <<"record">> /\ m.steps = <<>>
         /\ Head(q.steps) \in {"enter", "open", "openOrDrop", "forget", "purge"} =>
              m.steps = <<>>
         /\ Head(q.steps) = "drop" =>
              \/ q.steps = <<"drop">> /\ m.steps = <<>>
              \/ /\ q.steps = <<"drop", "forget">>
                 /\ m.steps = <<"forget">> \/ (m.steps = <<>> /\ q.anchor.repo \notin repos)
         /\ Head(q.steps) = "leave" =>
              \/ q.steps = <<"leave">> /\ m.steps = <<>>
              \/ q.steps = <<"leave", "drop">> /\ m.steps = <<"drop">>
              \/ /\ q.steps = <<"leave", "forget">>
                 /\ m.steps = <<"forget">> \/ (m.steps = <<>> /\ q.anchor.repo \notin repos)
              \/ q.steps = <<"leave", "drop", "forget">> /\ m.steps = <<"drop", "forget">>
         /\ Head(q.steps) = "leaveOrFail" =>
              \/ q.steps = <<"leaveOrFail">> /\ m.steps = <<>>
              \/ q.steps = <<"leaveOrFail", "drop">> /\ m.steps = <<"drop">>
         /\ Head(q.steps) = "cut" =>
              \/ q.steps = <<"cut">> /\ m.steps = <<>>
              \/ q.steps = <<"cut", "leave">> /\ m.steps = <<"leave">>
              \/ q.steps = <<"cut", "leave", "drop">> /\ m.steps = <<"leave", "drop">>
         /\ Head(q.steps) = "unlist" =>
              m.steps = <<"purge">> \/ (m.steps = <<>> /\ repos \cap Remote = {})
<1> DEFINE t == Tail(q.steps)
           Skips(s) == Tail(s) = <<>> /\ Head(s) \in Writes
<1>1. q \in Requests /\ q.steps \in Shapes /\ q.steps # <<>>
  BY StepGoes
<1>2. /\ Rest(q).steps = t /\ Rest(q).anchor = q.anchor
      /\ Leads(Rest(q), m)
  BY <1>1, StepGoes DEF Rest, Requests
<1>3. \/ m.steps = <<>> /\ (t = <<>> \/ (Skips(t) /\ Target(Rest(q)) = repos))
      \/ m.steps = t
      \/ t = <<"record", "enter">> /\ m.steps = <<"enter">> /\ q.anchor.repo \in repos
  BY <1>2 DEF Leads
<1>4. /\ ~Skips(<<"record", "enter">>) /\ ~Skips(<<"write", "record", "enter">>)
      /\ ~Skips(<<"drop", "forget">>) /\ ~Skips(<<"leave", "drop">>)
  <2>1. \A x, y : ~Skips(<<x, y>>)
    BY Tails, Heads, Zenon
  <2>2. \A x, y, z : ~Skips(<<x, y, z>>)
    <3>1. \A x, y, z : Tail(<<x, y, z>>) # <<>>
      OBVIOUS
    <3> QED BY <3>1
  <2> HIDE DEF Skips
  <2> QED BY <2>1, <2>2
<1>5. ~Skips(<<"enter">>) /\ ~Skips(<<"openOrDrop">>) /\ ~Skips(<<"drop">>) /\ ~Skips(<<"leave">>)
  BY Heads DEF Writes
<1>6. /\ Head(t) = "forget" => Target(Rest(q)) = repos \ {q.anchor.repo}
      /\ Head(t) = "purge" => Target(Rest(q)) = repos \ Remote
  BY <1>2 DEF Target
<1>7. /\ <<"record", "enter">> # <<>> /\ <<"write", "record", "enter">> # <<>>
      /\ <<"drop", "forget">> # <<>> /\ <<"leave", "drop">> # <<>>
      /\ \A x : <<x>> # <<>> /\ <<x>> # <<"record", "enter">>
      /\ <<>> # <<"record", "enter">> /\ <<"write", "record", "enter">> # <<"record", "enter">>
      /\ <<"drop", "forget">> # <<"record", "enter">> /\ <<"leave", "drop">> # <<"record", "enter">>
  OBVIOUS
<1>8. Head(<<"forget">>) = "forget" /\ Head(<<"purge">>) = "purge"
  OBVIOUS
<1> HIDE DEF t, Skips
<1>9. CASE Head(q.steps) = "add"
  <2>1. \/ q.steps = <<"add", "write", "record", "enter">> /\ t = <<"write", "record", "enter">>
        \/ q.steps = <<"add", "record", "enter">> /\ t = <<"record", "enter">>
    BY <1>1, <1>9, AfterAdd DEF t
  <2> QED BY <1>3, <1>4, <1>7, <1>9, <2>1
<1>10. CASE Head(q.steps) = "write"
  <2>1. \/ q.steps = <<"write", "record", "enter">> /\ t = <<"record", "enter">>
        \/ q.steps = <<"write", "openOrDrop">> /\ t = <<"openOrDrop">>
    BY <1>1, <1>10, AfterWrite DEF t
  <2> QED BY <1>3, <1>4, <1>5, <1>7, <1>10, <2>1
<1>11. CASE Head(q.steps) = "record"
  <2>1. \/ q.steps = <<"record", "enter">> /\ t = <<"enter">>
        \/ q.steps = <<"record">> /\ t = <<>>
    BY <1>1, <1>11, AfterRecord DEF t
  <2> QED BY <1>3, <1>5, <1>7, <1>11, <2>1
<1>12. CASE Head(q.steps) \in {"enter", "open", "openOrDrop", "forget", "purge"}
  <2>1. t = <<>>
    BY <1>1, <1>12, AfterLast DEF t
  <2> QED BY <1>3, <1>7, <1>12, <2>1
<1>13. CASE Head(q.steps) = "drop"
  <2>1. \/ q.steps = <<"drop">> /\ t = <<>>
        \/ q.steps = <<"drop", "forget">> /\ t = <<"forget">>
    BY <1>1, <1>13, AfterDrop DEF t
  <2> QED BY <1>3, <1>6, <1>7, <1>8, <1>13, <2>1
<1>14. CASE Head(q.steps) = "leave"
  <2>1. \/ q.steps = <<"leave">> /\ t = <<>>
        \/ q.steps = <<"leave", "drop">> /\ t = <<"drop">>
        \/ q.steps = <<"leave", "forget">> /\ t = <<"forget">>
        \/ q.steps = <<"leave", "drop", "forget">> /\ t = <<"drop", "forget">>
    BY <1>1, <1>14, AfterLeave DEF t
  <2> QED BY <1>3, <1>4, <1>5, <1>6, <1>7, <1>8, <1>14, <2>1
<1>15. CASE Head(q.steps) = "leaveOrFail"
  <2>1. \/ q.steps = <<"leaveOrFail">> /\ t = <<>>
        \/ q.steps = <<"leaveOrFail", "drop">> /\ t = <<"drop">>
    BY <1>1, <1>15, AfterLeaveOrFail DEF t
  <2> QED BY <1>3, <1>5, <1>7, <1>15, <2>1
<1>16. CASE Head(q.steps) = "cut"
  <2>1. \/ q.steps = <<"cut">> /\ t = <<>>
        \/ q.steps = <<"cut", "leave">> /\ t = <<"leave">>
        \/ q.steps = <<"cut", "leave", "drop">> /\ t = <<"leave", "drop">>
    BY <1>1, <1>16, AfterCut DEF t
  <2> QED BY <1>3, <1>4, <1>5, <1>7, <1>16, <2>1
<1>17. CASE Head(q.steps) = "unlist"
  <2>1. t = <<"purge">>
    BY <1>1, <1>17, AfterUnlist DEF t
  <2> QED BY <1>3, <1>6, <1>7, <1>8, <1>17, <2>1
<1> QED BY <1>1, <1>9, <1>10, <1>11, <1>12, <1>13, <1>14, <1>15, <1>16, <1>17, HeadTells

(* One route at a time: a request that goes on has brought about what it     *)
(* then says, and one that ends so has done what it was asked.               *)
LEMMA CreateHolds ==
  ASSUME NoneIsNothing, Types, Agree, Types', NEW c \in Callers, NEW q, NEW m,
         GoesOn(c, q, m), q.op = "create", PromisesCreate(q)
  PROVE  IF m.steps = <<>> THEN Holds(q)' ELSE PromisesCreate(m)'
<1> PICK a : a = q.anchor
  OBVIOUS
<1>1. /\ q.steps \in Shapes /\ q.steps # <<>> /\ a \in Rows
      /\ m.steps # <<>> => m.anchor = a
  BY StepGoes
<1>2. /\ Head(<<"write", "record", "enter">>) = "write"
      /\ Head(<<"record", "enter">>) = "record" /\ Head(<<"enter">>) = "enter"
      /\ <<"write", "record", "enter">> # <<>> /\ <<"record", "enter">> # <<>>
      /\ <<"enter">> # <<>>
      /\ <<"write", "record", "enter">> # <<"add", "record", "enter">>
      /\ <<"record", "enter">> # <<"add", "record", "enter">>
      /\ <<"enter">> # <<"add", "record", "enter">>
  OBVIOUS
<1>3. /\ <<"write", "record", "enter">> \in Creating /\ <<"record", "enter">> \in Creating
      /\ <<"enter">> \in Creating
  BY DEF Creating
<1>4. Head(q.steps) \in {"add", "write", "record", "enter"}
  BY DEF PromisesCreate, Creating
<1>5. CASE Head(q.steps) = "add"
  <2>1. checkouts' = checkouts \cup {Checkout(a)} /\ UNCHANGED <<anchors, repos, known>>
    BY <1>5, StepDoes
  <2>2. \/ m.steps = <<"write", "record", "enter">>
        \/ /\ q.steps = <<"add", "record", "enter">>
           /\ \/ m.steps = <<"record", "enter">>
              \/ m.steps = <<"enter">> /\ a.repo \in repos
    BY <1>5, StepsLeft
  <2> QED BY <1>1, <1>2, <1>3, <2>1, <2>2 DEF PromisesCreate
<1>6. CASE Head(q.steps) = "write"
  <2>1. anchors' = anchors \cup {a} /\ UNCHANGED <<checkouts, repos, known>>
    BY <1>6, StepDoes
  <2>2. m.steps = <<"record", "enter">> \/ (m.steps = <<"enter">> /\ a.repo \in repos)
    <3>1. q.steps # <<"write", "openOrDrop">>
      BY DEF PromisesCreate, Creating
    <3> QED BY <1>6, <3>1, StepsLeft
  <2>3. Checkout(a) \in checkouts
    BY <1>6 DEF PromisesCreate
  <2> QED BY <1>1, <1>2, <1>3, <2>1, <2>2, <2>3 DEF PromisesCreate
<1>7. CASE Head(q.steps) = "record"
  <2>1. repos' = repos \cup {a.repo} /\ UNCHANGED <<checkouts, anchors, known>>
    BY <1>7, StepDoes DEF Writes, Target
  <2>2. m.steps = <<"enter">>
    <3>1. q.steps # <<"record">>
      BY DEF PromisesCreate, Creating
    <3> QED BY <1>7, <3>1, StepsLeft
  <2>3. Checkout(a) \in checkouts /\ (a.repo \in Remote => a \in anchors)
    BY <1>7 DEF PromisesCreate
  <2> QED BY <1>1, <1>2, <1>3, <2>1, <2>2, <2>3 DEF PromisesCreate
<1>8. CASE Head(q.steps) = "enter"
  <2>1. UNCHANGED <<checkouts, anchors, repos, known>> /\ m.steps = <<>>
    BY <1>8, StepDoes, StepsLeft
  <2>2. Checkout(a) \in checkouts /\ a.repo \in repos /\ (a.repo \in Remote => a \in anchors)
    BY <1>8 DEF PromisesCreate
  <2> QED BY <2>1, <2>2 DEF Holds, Types
<1> QED BY <1>4, <1>5, <1>6, <1>7, <1>8

LEMMA AdoptHolds ==
  ASSUME NoneIsNothing, Types, Agree, Types', NEW c \in Callers, NEW q, NEW m,
         GoesOn(c, q, m), q.op = "adopt", PromisesAdopt(q)
  PROVE  IF m.steps = <<>> THEN Holds(q)' ELSE PromisesAdopt(m)'
<1> PICK a : a = q.anchor
  OBVIOUS
<1>1. Head(q.steps) \in {"write", "openOrDrop"}
  BY DEF PromisesAdopt
<1>2. CASE Head(q.steps) = "write"
  <2>1. q.steps = <<"write", "openOrDrop">>
    BY <1>2 DEF PromisesAdopt
  <2>2. <<"write", "openOrDrop">> # <<"write", "record", "enter">> /\ <<"openOrDrop">> # <<>>
    OBVIOUS
  <2>3. m.steps = <<"openOrDrop">> /\ m.anchor = a
    BY <1>2, <2>1, <2>2, StepsLeft, StepGoes
  <2> QED BY <1>2, <2>2, <2>3, StepDoes DEF PromisesAdopt
<1>3. CASE Head(q.steps) = "openOrDrop"
  <2>1. m.steps = <<>> /\ a.slot \in entries' /\ anchors' = anchors
    BY <1>3, StepDoes, StepsLeft
  <2>2. a \in anchors
    BY <1>3 DEF PromisesAdopt
  <2> QED BY <2>1, <2>2 DEF Holds, Types
<1> QED BY <1>1, <1>2, <1>3

LEMMA OpenHolds ==
  ASSUME NoneIsNothing, Types, Agree, Types', NEW c \in Callers, NEW q, NEW m,
         GoesOn(c, q, m), q.op = "open", PromisesOpen(q)
  PROVE  m.steps = <<>> /\ Holds(q)'
<1>1. Head(q.steps) = "open" /\ q.anchor \in Held
  BY DEF PromisesOpen
<1>2. /\ m.steps = <<>> /\ q.anchor.slot \in entries'
      /\ UNCHANGED <<checkouts, anchors, repos>>
  BY <1>1, StepDoes, StepsLeft
<1>3. (q.anchor \in Held)'
  BY <1>1, <1>2 DEF Held, LocalRows
<1> QED BY <1>2, <1>3 DEF Holds

LEMMA GoneHolds ==
  ASSUME NoneIsNothing, Types, Agree, Types', NEW c \in Callers, NEW q, NEW m,
         GoesOn(c, q, m), q.op \in {"remove", "release"}, PromisesGone(q)
  PROVE  IF m.steps = <<>> THEN q.anchor \notin (anchors \cup meta)' ELSE PromisesGone(m)'
<1> PICK a : a = q.anchor
  OBVIOUS
<1>1. m.steps # <<>> => m.anchor = a
  BY StepGoes
<1>2. Head(q.steps) \in {"cut", "leave", "leaveOrFail", "drop"}
  BY DEF PromisesGone, Releasing, Removing
<1>3. /\ <<"drop">> \in Dropping /\ <<"leave", "drop">> \in Dropping
      /\ <<"cut">> \notin Dropping /\ <<"cut", "leave">> \notin Dropping
      /\ <<"leave">> \notin Dropping /\ <<"leaveOrFail">> \notin Dropping
  BY DEF Dropping
<1>4. /\ <<"drop">> \in Releasing \cup Removing /\ <<"leave", "drop">> \in Releasing \cup Removing
      /\ <<"leave">> \in Releasing \cup Removing
  BY DEF Releasing, Removing
<1>5. /\ <<"leave", "forget">> \notin Releasing \cup Removing \cup {<<"leaveOrFail">>}
      /\ <<"leave", "drop", "forget">> \notin Releasing \cup Removing \cup {<<"leaveOrFail">>}
      /\ <<"drop", "forget">> \notin Releasing \cup Removing \cup {<<"leaveOrFail">>}
  BY DEF Releasing, Removing
<1>6. CASE Head(q.steps) = "drop"
  <2>1. a \notin anchors' /\ m.steps = <<>>
    BY <1>5, <1>6, StepDoes, StepsLeft DEF PromisesGone
  <2> QED BY <2>1 DEF Types
<1>7. CASE Head(q.steps) # "drop"
  <2>1. anchors' = anchors
    BY <1>2, <1>7, StepDoes
  <2>2. /\ m.steps # <<>> => m.steps \in {<<"leave">>, <<"drop">>, <<"leave", "drop">>}
        /\ q.steps \in Dropping => m.steps \in {<<"drop">>, <<"leave", "drop">>}
    <3>1. /\ Head(q.steps) = "cut" =>
               \/ q.steps = <<"cut">> /\ m.steps = <<>>
               \/ q.steps = <<"cut", "leave">> /\ m.steps = <<"leave">>
               \/ q.steps = <<"cut", "leave", "drop">> /\ m.steps = <<"leave", "drop">>
          /\ Head(q.steps) = "leaveOrFail" =>
               \/ q.steps = <<"leaveOrFail">> /\ m.steps = <<>>
               \/ q.steps = <<"leaveOrFail", "drop">> /\ m.steps = <<"drop">>
      BY StepsLeft
    <3>2. Head(q.steps) = "leave" =>
            \/ q.steps = <<"leave">> /\ m.steps = <<>>
            \/ q.steps = <<"leave", "drop">> /\ m.steps = <<"drop">>
      BY <1>5, StepsLeft DEF PromisesGone
    <3> QED BY <1>2, <1>3, <1>7, <3>1, <3>2
  <2>3. <<"drop">> # <<>> /\ <<"leave", "drop">> # <<>>
    OBVIOUS
  <2>4. a \in anchors => q.steps \in Dropping
    BY DEF PromisesGone
  <2>5. CASE m.steps = <<>>
    BY <2>1, <2>2, <2>3, <2>4, <2>5 DEF Types
  <2>6. CASE m.steps # <<>>
    BY <1>1, <1>3, <1>4, <2>1, <2>2, <2>4, <2>6 DEF PromisesGone
  <2> QED BY <2>5, <2>6
<1> QED BY <1>6, <1>7

LEMMA ReleasedHolds ==
  ASSUME NoneIsNothing, Types, Agree, Types', NEW c \in Callers, NEW q, NEW m,
         GoesOn(c, q, m), q.op = "release", PromisesGone(q), PromisesReleased(q)
  PROVE  IF m.steps = <<>> THEN Holds(q)' ELSE PromisesGone(m)' /\ PromisesReleased(m)'
<1> PICK a : a = q.anchor
  OBVIOUS
<1>1. m.steps # <<>> => m.anchor = a
  BY StepGoes
<1>2. IF m.steps = <<>> THEN a \notin (anchors \cup meta)' ELSE PromisesGone(m)'
  BY GoneHolds
<1>3. Head(q.steps) \in {"leave", "leaveOrFail", "drop"}
  <2>1. Head(q.steps) \in {"cut", "leave", "leaveOrFail", "drop"}
    BY DEF PromisesGone, Releasing, Removing
  <2>2. Head(q.steps) # "cut"
    BY StepGoes DEF GoesOn, Agree, Relies, Entitled, ReliesCutting
  <2> QED BY <2>1, <2>2
<1>4. NoEntryOf(a)'
  <2>1. CASE Head(q.steps) = "drop"
    BY <2>1, StepLeaves DEF PromisesReleased, NoEntryOf
  <2>2. CASE Head(q.steps) \in {"leave", "leaveOrFail"}
    BY <2>2, StepLeaves DEF PromisesReleased, NoEntryOf
  <2> QED BY <1>3, <2>1, <2>2
<1>5. m.steps = <<>> \/ m.steps = <<"drop">>
  <2>1. Head(q.steps) = "drop" => q.steps = <<"drop">> \/ q.steps = <<"drop", "forget">>
    BY StepsLeft
  <2>2. Head(q.steps) = "leave" => \/ q.steps \in {<<"leave">>, <<"leave", "drop">>}
                                   \/ q.steps \in {<<"leave", "forget">>, <<"leave", "drop", "forget">>}
    BY StepsLeft
  <2>3. q.steps \notin {<<"drop", "forget">>, <<"leave", "forget">>, <<"leave", "drop", "forget">>}
    BY DEF PromisesGone, Releasing, Removing
  <2>4. /\ <<"leave">> # <<"leave", "drop">> /\ <<"leave", "forget">> # <<"leave", "drop">>
        /\ <<"leave">> # <<"leave", "forget">>
    OBVIOUS
  <2> QED BY <1>3, <2>1, <2>2, <2>3, StepsLeft
<1>6. <<"drop">> # <<>> /\ Head(<<"drop">>) = "drop"
  BY Heads
<1>7. CASE m.steps = <<>>
  BY <1>2, <1>4, <1>7 DEF Holds
<1>8. CASE m.steps = <<"drop">>
  BY <1>1, <1>2, <1>4, <1>6, <1>8 DEF PromisesReleased
<1> QED BY <1>5, <1>7, <1>8

LEMMA RemovedHolds ==
  ASSUME NoneIsNothing, Types, Agree, Types', EntriesThere', NEW c \in Callers, NEW q, NEW m,
         GoesOn(c, q, m), q.op = "remove", PromisesGone(q), PromisesRemoved(q)
  PROVE  IF m.steps = <<>> THEN Holds(q)' ELSE PromisesGone(m)' /\ PromisesRemoved(m)'
<1> PICK a : a = q.anchor
  OBVIOUS
<1>1. m.steps # <<>> => m.anchor = a
  BY StepGoes
<1>2. IF m.steps = <<>> THEN a \notin (anchors \cup meta)' ELSE PromisesGone(m)'
  BY GoneHolds
<1>3. Head(q.steps) \in {"cut", "leave", "leaveOrFail", "drop"}
  BY DEF PromisesGone, Releasing, Removing
<1>4. /\ Head(q.steps) = "cut" => Checkout(a) \notin checkouts'
      /\ Head(q.steps) # "cut" => Checkout(a) \notin checkouts' \/ a.path \in Elsewhere
  <2>1. CASE Head(q.steps) = "cut"
    BY <2>1, StepLeaves
  <2>2. CASE Head(q.steps) # "cut"
    BY <1>3, <2>2, StepDoes DEF PromisesRemoved
  <2> QED BY <2>1, <2>2
<1>5. (a.slot[1] = "here" \/ Owned(a.slot) \/ NoEntryOf(a))'
  BY DEF EntriesThere, Slipped, Owned, NoEntryOf
<1>6. CASE m.steps = <<>>
  BY <1>2, <1>4, <1>5, <1>6 DEF Holds
<1>7. CASE m.steps # <<>>
  BY <1>1, <1>2, <1>4, <1>7 DEF PromisesRemoved
<1> QED BY <1>6, <1>7

LEMMA ClosedHolds ==
  ASSUME NoneIsNothing, Types, NEW c \in Callers, NEW q, NEW m,
         GoesOn(c, q, m), q.op = "close", PromisesClosed(q)
  PROVE  m.steps = <<>> /\ Holds(q)'
<1>1. Head(q.steps) = "leaveOrFail" /\ Resolves(q.anchor)
  BY Heads DEF PromisesClosed
<1>2. q.anchor.slot \notin entries'
  BY <1>1, StepLeaves
<1>3. m.steps = <<>>
  <2>1. <<"leaveOrFail">> # <<"leaveOrFail", "drop">>
    OBVIOUS
  <2> QED BY <1>1, <2>1, StepsLeft DEF PromisesClosed
<1> QED BY <1>2, <1>3 DEF Holds

LEMMA AddedHolds ==
  ASSUME NoneIsNothing, Types, Agree, Types', NEW c \in Callers, NEW q, NEW m,
         GoesOn(c, q, m), q.op = "addRepo", q.steps = <<"record">>
  PROVE  m.steps = <<>> /\ Holds(q)'
<1>1. Head(q.steps) = "record"
  BY Heads
<1>2. repos' = repos \cup {q.anchor.repo}
  BY <1>1, StepDoes DEF Writes, Target
<1>3. m.steps = <<>>
  <2>1. <<"record">> # <<"record", "enter">>
    OBVIOUS
  <2> QED BY <1>1, <2>1, StepsLeft
<1> QED BY <1>2, <1>3 DEF Holds, Types

LEMMA ForgottenHolds ==
  ASSUME NoneIsNothing, Types, Agree, Types', NEW c \in Callers, NEW q, NEW m,
         GoesOn(c, q, m), q.op = "deleteRepo", PromisesForgotten(q)
  PROVE  IF m.steps = <<>> THEN Holds(q)' ELSE PromisesForgotten(m)'
<1> PICK a : a = q.anchor
  OBVIOUS
<1>1. Head(q.steps) \in {"forget", "drop", "leave"}
  BY SetsTell DEF PromisesForgotten
<1>2. \A b \in anchors : b.kind = "worktree" => b.repo # a.repo
  <2>1. Relies(q)
    BY StepGoes DEF GoesOn, Agree
  <2> QED BY <2>1 DEF PromisesForgotten, Relies, Entitled, ReliesForgetting
<1>3. anchors' \subseteq anchors
  BY <1>1, StepDoes DEF Writes
<1>4. a.repo \notin repos' => HeldIn(a.repo)' = {}
  <2> SUFFICES ASSUME a.repo \notin repos', NEW b \in Held', b.repo = a.repo, b.kind = "worktree"
               PROVE  FALSE
    BY DEF HeldIn
  <2>1. b \in LocalRows'
    BY <1>2, <1>3 DEF Held
  <2>2. \A r, p : DirectoryRow(r).repo = r /\ LocalRow(r, "worktree", p).repo = r
    BY DEF DirectoryRow, LocalRow
  <2>3. b.repo \in repos'
    BY <2>1, <2>2 DEF LocalRows
  <2> QED BY <2>3
<1>5. /\ <<"drop">> \notin Forgetting /\ <<"leave">> \notin Forgetting
      /\ <<"leave", "drop">> \notin Forgetting
  BY DEF Forgetting
<1>6. <<"forget">> \in Forgetting /\ <<"drop", "forget">> \in Forgetting
  BY DEF Forgetting
<1>7. \/ m.steps = <<>> /\ a.repo \notin repos'
      \/ m.steps \in {<<"forget">>, <<"drop", "forget">>}
  <2>1. CASE Head(q.steps) = "forget"
    <3>1. repos' = repos \ {a.repo} /\ m.steps = <<>>
      BY <2>1, StepDoes, StepsLeft DEF Writes, Target
    <3> QED BY <3>1
  <2>2. CASE Head(q.steps) = "drop"
    <3>1. repos' = repos
      BY <2>2, StepDoes
    <3>2. \/ q.steps = <<"drop">>
          \/ m.steps = <<"forget">> \/ (m.steps = <<>> /\ a.repo \notin repos)
      BY <2>2, StepsLeft
    <3> QED BY <1>5, <3>1, <3>2 DEF PromisesForgotten
  <2>3. CASE Head(q.steps) = "leave"
    <3>1. repos' = repos /\ q.steps \notin {<<"leave">>, <<"leave", "drop">>}
      BY <1>5, <2>3, StepDoes DEF PromisesForgotten
    <3>2. \/ q.steps = <<"leave">> \/ q.steps = <<"leave", "drop">>
          \/ m.steps = <<"forget">> \/ (m.steps = <<>> /\ a.repo \notin repos)
          \/ m.steps = <<"drop", "forget">>
      BY <2>3, StepsLeft
    <3> QED BY <3>1, <3>2
  <2> QED BY <1>1, <2>1, <2>2, <2>3
<1>8. <<"forget">> # <<>> /\ <<"drop", "forget">> # <<>>
  OBVIOUS
<1>9. \A b \in DirectoryAnchorOf(a.repo)' : b = a /\ q.steps \in Dropping /\ Head(q.steps) # "drop"
  <2> SUFFICES ASSUME NEW b \in DirectoryAnchorOf(a.repo)'
               PROVE  b = a /\ q.steps \in Dropping /\ Head(q.steps) # "drop"
    OBVIOUS
  <2>1. b \in DirectoryAnchorOf(a.repo) /\ b \in anchors'
    BY <1>3 DEF DirectoryAnchorOf
  <2>2. b = a /\ q.steps \in Dropping
    BY <2>1 DEF PromisesForgotten
  <2>3. Head(q.steps) # "drop"
    BY <2>1, <2>2, StepDoes
  <2> QED BY <2>2, <2>3
<1>10. q.steps \in Dropping /\ Head(q.steps) # "drop" => m.steps = <<"drop", "forget">>
  <2>1. q.steps \in Dropping /\ Head(q.steps) # "drop" => q.steps = <<"leave", "drop", "forget">>
    <3>1. /\ <<"forget">> \notin Dropping /\ <<"leave", "forget">> \notin Dropping
          /\ Head(<<"drop", "forget">>) = "drop"
      BY DEF Dropping
    <3> QED BY <3>1 DEF PromisesForgotten, Forgetting
  <2>2. /\ Head(<<"leave", "drop", "forget">>) = "leave"
        /\ <<"leave", "drop", "forget">> # <<"leave">>
        /\ <<"leave", "drop", "forget">> # <<"leave", "drop">>
        /\ <<"leave", "drop", "forget">> # <<"leave", "forget">>
    OBVIOUS
  <2> QED BY <2>1, <2>2, StepsLeft
<1>11. <<"drop", "forget">> \in Dropping
  BY DEF Dropping
<1>12. m.steps # <<>> => m.anchor = a
  BY StepGoes
<1>13. CASE m.steps = <<>>
  <2>1. a.repo \notin repos' /\ HeldIn(a.repo)' = {}
    BY <1>4, <1>7, <1>8, <1>13
  <2>2. DirectoryAnchorOf(a.repo)' = {}
    BY <1>8, <1>9, <1>10, <1>13
  <2>3. (\A h \in Held : h.repo # a.repo)'
    <3> SUFFICES ASSUME NEW h \in Held', h.repo = a.repo PROVE FALSE
      OBVIOUS
    <3>1. h \notin LocalRows'
      <4>1. \A r, p : DirectoryRow(r).repo = r /\ LocalRow(r, "worktree", p).repo = r
        BY DEF DirectoryRow, LocalRow
      <4> QED BY <2>1, <4>1 DEF LocalRows
    <3>2. h \in anchors'
      BY <3>1 DEF Held
    <3>3. h.kind \in {"worktree", "directory"}
      BY <3>2 DEF Types, Anchors, Anchor
    <3> QED BY <2>1, <2>2, <3>2, <3>3 DEF HeldIn, DirectoryAnchorOf
  <2> QED BY <1>13, <2>1, <2>3 DEF Holds
<1>14. CASE m.steps # <<>>
  BY <1>6, <1>7, <1>9, <1>10, <1>11, <1>12, <1>14 DEF PromisesForgotten
<1> QED BY <1>13, <1>14

LEMMA UnlistedHolds ==
  ASSUME NoneIsNothing, Types, Agree, Types', NEW c \in Callers, NEW q, NEW m,
         GoesOn(c, q, m), q.op = "deleteNode", PromisesUnlisted(q)
  PROVE  IF m.steps = <<>> THEN Holds(q)' ELSE PromisesUnlisted(m)'
<1>1. Head(q.steps) \in {"unlist", "purge"}
  BY DEF PromisesUnlisted
<1>2. CASE Head(q.steps) = "unlist"
  <2>1. /\ known' = FALSE /\ repos' = repos
        /\ m.steps = <<"purge">> \/ (m.steps = <<>> /\ repos \cap Remote = {})
    BY <1>2, StepDoes, StepsLeft
  <2>2. <<"purge">> # <<>>
    OBVIOUS
  <2> QED BY <2>1, <2>2 DEF Holds, PromisesUnlisted
<1>3. CASE Head(q.steps) = "purge"
  <2>1. repos' = repos \ Remote /\ known' = known /\ m.steps = <<>>
    BY <1>3, StepDoes, StepsLeft DEF Writes, Target
  <2>2. ~known
    BY <1>3, StepGoes DEF GoesOn, Agree, Relies, Entitled, ReliesForgetting
  <2> QED BY <2>1, <2>2 DEF Holds
<1> QED BY <1>1, <1>2, <1>3

(* Whatever the route.                                                       *)
LEMMA StepHolds ==
  ASSUME NoneIsNothing, Types, Agree, Types', EntriesThere', NEW c \in Callers, NEW q, NEW m,
         GoesOn(c, q, m), Promised(q)
  PROVE  IF m.steps = <<>> THEN Holds(q)' ELSE Promised(m)'
<1>1. q.ok /\ (m.steps # <<>> => m.op = q.op)
  BY StepGoes
<1>2. CASE q.op = "create"
  <2>1. PromisesCreate(q)
    BY <1>1, <1>2 DEF Promised
  <2>2. IF m.steps = <<>> THEN Holds(q)' ELSE PromisesCreate(m)'
    BY <1>2, <2>1, CreateHolds
  <2> QED BY <1>1, <1>2, <2>2 DEF Promised
<1>3. CASE q.op = "adopt"
  <2>1. PromisesAdopt(q)
    BY <1>1, <1>3 DEF Promised
  <2>2. IF m.steps = <<>> THEN Holds(q)' ELSE PromisesAdopt(m)'
    BY <1>3, <2>1, AdoptHolds
  <2> QED BY <1>1, <1>3, <2>2 DEF Promised
<1>4. CASE q.op = "open"
  <2>1. PromisesOpen(q)
    BY <1>1, <1>4 DEF Promised
  <2> QED BY <1>4, <2>1, OpenHolds
<1>5. CASE q.op = "release"
  <2>1. PromisesGone(q) /\ PromisesReleased(q)
    BY <1>1, <1>5 DEF Promised
  <2>2. IF m.steps = <<>> THEN Holds(q)' ELSE PromisesGone(m)' /\ PromisesReleased(m)'
    BY <1>5, <2>1, ReleasedHolds
  <2> QED BY <1>1, <1>5, <2>2 DEF Promised
<1>9. CASE q.op = "remove"
  <2>1. PromisesGone(q) /\ PromisesRemoved(q)
    BY <1>1, <1>9 DEF Promised
  <2>2. IF m.steps = <<>> THEN Holds(q)' ELSE PromisesGone(m)' /\ PromisesRemoved(m)'
    BY <1>9, <2>1, RemovedHolds
  <2> QED BY <1>1, <1>9, <2>2 DEF Promised
<1>10. CASE q.op = "close"
  BY <1>1, <1>10, ClosedHolds DEF Promised
<1>11. CASE q.op = "addRepo"
  BY <1>1, <1>11, AddedHolds DEF Promised
<1>6. CASE q.op = "deleteRepo"
  <2>1. PromisesForgotten(q)
    BY <1>1, <1>6 DEF Promised
  <2>2. IF m.steps = <<>> THEN Holds(q)' ELSE PromisesForgotten(m)'
    BY <1>6, <2>1, ForgottenHolds
  <2> QED BY <1>1, <1>6, <2>2 DEF Promised
<1>7. CASE q.op = "deleteNode"
  <2>1. PromisesUnlisted(q)
    BY <1>1, <1>7 DEF Promised
  <2>2. IF m.steps = <<>> THEN Holds(q)' ELSE PromisesUnlisted(m)'
    BY <1>7, <2>1, UnlistedHolds
  <2> QED BY <1>1, <1>7, <2>2 DEF Promised
<1>8. CASE q.op \notin {"create", "adopt", "open", "close", "remove", "release", "addRepo",
                       "deleteRepo", "deleteNode"}
  <2>1. Holds(q)'
    BY <1>8 DEF Holds
  <2>2. m.steps # <<>> => Promised(m)'
    BY <1>1, <1>8 DEF Promised
  <2> QED BY <2>1, <2>2
<1> QED BY <1>2, <1>3, <1>4, <1>5, <1>6, <1>7, <1>8, <1>9, <1>10, <1>11

(* A request that is asked has promised nothing it has not got.              *)
Pledged(c, q) == /\ q \in Requests /\ Start(c, q) /\ q.steps # <<"record", "enter">>
                 /\ q.steps # <<>> => Promised(q)

LEMMA AskPledges ==
  ASSUME NEW c, NEW op \in Ops, NEW a \in Rows, NEW s \in Shapes, s # <<"record", "enter">>,
         Start(c, Ask(op, a, s)),
         \A q : q.op = op /\ q.anchor = a /\ q.steps = s /\ s # <<>> => Promised(q)
  PROVE  \E q : Pledged(c, q)
<1> DEFINE q == Ask(op, a, s)
<1>1. q \in Requests /\ q.op = op /\ q.anchor = a /\ q.steps = s
  BY AskIs
<1>2. Start(c, q)
  OBVIOUS
<1> HIDE DEF q
<1> QED BY <1>1, <1>2 DEF Pledged

LEMMA CreatePledges ==
  ASSUME Types, NEW c \in Callers, Create(c)
  PROVE  \E q : Pledged(c, q)
<1>1. PICK r \in Repos, n \in Names, path \in Paths :
        Start(c, Ask("create", IF r \in Local THEN LocalRow(r, "worktree", path)
                               ELSE Anchor(r, "worktree", path, n), CreateSteps(r)))
  BY DEF Create
<1> DEFINE a == IF r \in Local THEN LocalRow(r, "worktree", path)
                ELSE Anchor(r, "worktree", path, n)
<1>2. a \in Rows /\ a.repo = r
  <2>1. CASE r \in Local
    <3>1. a = LocalRow(r, "worktree", path)
      BY <2>1
    <3>2. a \in Rows
      BY <2>1, <3>1 DEF Rows
    <3> QED BY <3>1, <3>2 DEF LocalRow
  <2>2. CASE r \notin Local
    <3>1. a = Anchor(r, "worktree", path, n) /\ r \in Remote
      BY <2>2 DEF Repos
    <3>2. a \in Rows
      BY <3>1 DEF Rows, Anchors
    <3> QED BY <3>1, <3>2 DEF Anchor
  <2> QED BY <2>1, <2>2
<1>3. /\ <<"add", "record", "enter">> \in Creating
      /\ <<"add", "write", "record", "enter">> \in Creating
      /\ Creating \subseteq Shapes
  BY DEF Creating, Shapes
<1>4. /\ <<"add", "record", "enter">> # <<"record", "enter">>
      /\ <<"add", "write", "record", "enter">> # <<"record", "enter">>
      /\ <<"add", "write", "record", "enter">> # <<"add", "record", "enter">>
      /\ Head(<<"add", "record", "enter">>) = "add"
      /\ Head(<<"add", "write", "record", "enter">>) = "add"
  OBVIOUS
<1>5. /\ CreateSteps(r) \in Creating /\ CreateSteps(r) # <<"record", "enter">>
      /\ Head(CreateSteps(r)) = "add"
      /\ CreateSteps(r) = <<"add", "record", "enter">> => r \notin Remote
  BY <1>3, <1>4, RepositoriesAssumption DEF CreateSteps
<1>6. Start(c, Ask("create", a, CreateSteps(r)))
  BY <1>1
<1> HIDE DEF a
<1>7. \A q : q.op = "create" /\ q.anchor = a /\ q.steps = CreateSteps(r) => Promised(q)
  BY <1>2, <1>5 DEF Promised, PromisesCreate
<1> QED BY <1>2, <1>3, <1>5, <1>6, <1>7, AskPledges DEF Ops

LEMMA HeldResolves ==
  ASSUME Types, NEW a \in Held
  PROVE  Resolves(a)
<1>1. CASE a \in anchors
  <2>1. a.repo \notin Local /\ a \in meta
    BY <1>1, RowTypes, RepositoriesAssumption DEF Types
  <2> QED BY <2>1 DEF Resolves, IsWithin
<1>2. CASE \E r \in repos \cap Local : a = DirectoryRow(r)
  BY <1>2 DEF Resolves, DirectoryRow, LocalRow
<1>3. CASE \E k \in checkouts : k.repo \in repos \cap Local /\ a = LocalRow(k.repo, "worktree", k.path)
  <2>1. PICK k \in checkouts : k.repo \in repos \cap Local /\ a = LocalRow(k.repo, "worktree", k.path)
    BY <1>3
  <2>2. a.repo = k.repo /\ a.path = k.path
    BY <2>1 DEF LocalRow
  <2>3. Checkout(a) = k
    BY <2>2 DEF Checkout, Types
  <2> QED BY <2>1, <2>2, <2>3 DEF Resolves
<1> QED BY <1>1, <1>2, <1>3 DEF Held, LocalRows

LEMMA OneDirectory ==
  ASSUME Types, NEW r, NEW a \in DirectoryAnchorOf(r), NEW b \in DirectoryAnchorOf(r)
  PROVE  a = b
<1>1. \A d \in DirectoryAnchorOf(r) : d = Anchor(r, "directory", <<Base[r], ".self">>, None)
  BY DEF DirectoryAnchorOf, Types, Anchors, Anchor
<1> QED BY <1>1

LEMMA OpenPledges ==
  ASSUME Types, NEW c \in Callers, NEW a \in Held, Start(c, Ask("open", a, <<"open">>))
  PROVE  \E q : Pledged(c, q)
<1>1. <<"open">> \in Shapes
  BY DEF Shapes, Entering
<1>2. <<"open">> # <<"record", "enter">>
  OBVIOUS
<1>3. \A q : q.op = "open" /\ q.anchor = a /\ q.steps = <<"open">> => Promised(q)
  BY DEF Promised, PromisesOpen
<1> QED BY <1>1, <1>2, <1>3, HeldIs, AskPledges DEF Ops

LEMMA AdoptPledges ==
  ASSUME Types, NEW c \in Callers, Adopt(c)
  PROVE  \E q : Pledged(c, q)
<1> DEFINE a(k) == Anchor(k.repo, "worktree", k.path, Segment(k.path))
<1>1. PICK k \in Discovered :
        \/ /\ HeldRemote(k) # {}
           /\ Start(c, Ask("open", CHOOSE h \in HeldRemote(k) : TRUE, <<"open">>))
        \/ Start(c, Answered(FALSE))
        \/ Start(c, Ask("adopt", a(k), <<"write", "openOrDrop">>))
  BY DEF Adopt
<1>2. k.repo \in Remote /\ k.path \in Paths
  BY DEF Discovered, Types
<1>3. a(k) \in Rows
  BY <1>2, PathIs DEF Rows, Anchors
<1>4. /\ <<"open">> \in Shapes /\ <<"write", "openOrDrop">> \in Shapes
      /\ <<"open">> # <<"record", "enter">> /\ <<"write", "openOrDrop">> # <<"record", "enter">>
      /\ <<>> # <<"record", "enter">>
  <2>1. <<"open">> \in Shapes /\ <<"write", "openOrDrop">> \in Shapes
    BY DEF Shapes, Entering, Adopting
  <2>2. /\ <<"open">> # <<"record", "enter">> /\ <<"write", "openOrDrop">> # <<"record", "enter">>
        /\ <<>> # <<"record", "enter">>
    OBVIOUS
  <2> QED BY <2>1, <2>2
<1>5. CASE Start(c, Answered(FALSE))
  <2>1. Answered(FALSE) \in Requests /\ Answered(FALSE).steps = <<>>
    BY AnsweredIs
  <2> QED BY <1>4, <1>5, <2>1 DEF Pledged
<1>6. CASE Start(c, Ask("adopt", a(k), <<"write", "openOrDrop">>))
  <2> HIDE DEF a
  <2>1. Head(<<"write", "openOrDrop">>) = "write"
    OBVIOUS
  <2>2. \A q : q.op = "adopt" /\ q.anchor = a(k) /\ q.steps = <<"write", "openOrDrop">> => Promised(q)
    BY <2>1 DEF Promised, PromisesAdopt
  <2> QED BY <1>3, <1>4, <1>6, <2>2, AskPledges DEF Ops
<1>7. CASE /\ HeldRemote(k) # {}
           /\ Start(c, Ask("open", CHOOSE h \in HeldRemote(k) : TRUE, <<"open">>))
  <2>1. PICK h \in anchors : Start(c, Ask("open", h, <<"open">>))
    BY <1>7 DEF HeldRemote
  <2> QED BY <2>1, OpenPledges DEF Held
<1> QED BY <1>1, <1>5, <1>6, <1>7

LEMMA RemovePledges ==
  ASSUME Types, NEW c \in Callers, Remove(c)
  PROVE  \E q : Pledged(c, q)
<1>1. /\ <<"cut">> \o Teardown = <<"cut", "leave", "drop">>
      /\ \A s \in {<<"cut">>, <<"cut", "leave">>, <<"cut", "leave", "drop">>} :
           s \in Removing /\ s \in Shapes /\ s # <<"record", "enter">>
      /\ <<"cut", "leave", "drop">> \in Dropping
      /\ Head(<<"cut">>) = "cut" /\ Head(<<"cut", "leave">>) = "cut"
      /\ Head(<<"cut", "leave", "drop">>) = "cut"
  <2>1. <<"cut">> \o Teardown = <<"cut", "leave", "drop">>
    BY JoinOneTwo DEF Teardown
  <2>2. /\ <<"cut">> # <<"record", "enter">> /\ <<"cut", "leave">> # <<"record", "enter">>
        /\ <<"cut", "leave", "drop">> # <<"record", "enter">>
    OBVIOUS
  <2> QED BY <2>1, <2>2, Heads DEF Removing, Shapes, Dropping
<1>2. CASE \E a \in Held :
             Start(c, Ask("remove", a, IF a.repo \in Local THEN <<"cut", "leave">>
                                       ELSE <<"cut">> \o Teardown))
  <2>1. PICK a \in Held :
          Start(c, Ask("remove", a, IF a.repo \in Local THEN <<"cut", "leave">>
                                    ELSE <<"cut">> \o Teardown))
    BY <1>2
  <2> DEFINE s == IF a.repo \in Local THEN <<"cut", "leave">> ELSE <<"cut">> \o Teardown
  <2>2. a.repo \in Local => a \notin anchors
    BY RowTypes, RepositoriesAssumption DEF Types
  <2>3. /\ s \in Removing /\ s \in Shapes /\ s # <<"record", "enter">>
        /\ Head(s) = "cut"
        /\ a \in anchors => s \in Dropping
    BY <1>1, <2>2
  <2>4. Start(c, Ask("remove", a, s))
    BY <2>1
  <2> HIDE DEF s
  <2>5. \A q : q.op = "remove" /\ q.anchor = a /\ q.steps = s => Promised(q)
    BY <2>3 DEF Promised, PromisesGone, PromisesRemoved
  <2> QED BY <2>3, <2>4, <2>5, HeldIs, AskPledges DEF Ops
<1>3. CASE \E k \in Discovered :
             Start(c, Ask("remove", Anchor(k.repo, "worktree", k.path, Segment(k.path)),
                          <<"cut">>))
  <2>1. PICK k \in Discovered :
          Start(c, Ask("remove", Anchor(k.repo, "worktree", k.path, Segment(k.path)),
                       <<"cut">>))
    BY <1>3
  <2> DEFINE a == Anchor(k.repo, "worktree", k.path, Segment(k.path))
  <2>2. k.repo \in Remote /\ k.path \in Paths
        /\ \A b \in anchors : b.kind = "worktree" => b.path # k.path
    BY DEF Discovered, Types
  <2>3. a \in Rows
    BY <2>2, PathIs DEF Rows, Anchors
  <2>4. a \notin anchors
    <3>1. a.kind = "worktree" /\ a.path = k.path
      BY DEF Anchor
    <3> QED BY <2>2, <3>1
  <2>5. Start(c, Ask("remove", a, <<"cut">>))
    BY <2>1
  <2> HIDE DEF a
  <2>6. \A q : q.op = "remove" /\ q.anchor = a /\ q.steps = <<"cut">> => Promised(q)
    BY <1>1, <2>4 DEF Promised, PromisesGone, PromisesRemoved
  <2> QED BY <1>1, <2>3, <2>5, <2>6, AskPledges DEF Ops
<1> QED BY <1>2, <1>3 DEF Remove

(* Every route's first decision.                                             *)
LEMMA OpsPledge ==
  ASSUME Types, NEW c \in Callers, NewRequest(c)
  PROVE  \E q : Pledged(c, q)
<1>1. CASE Create(c) \/ Adopt(c) \/ Remove(c)
  BY <1>1, CreatePledges, AdoptPledges, RemovePledges
<1>2. CASE Open(c)
  BY <1>2, OpenPledges DEF Open
<1>3. CASE Close(c)
  <2>1. PICK a \in Held : Start(c, Ask("close", a, <<"leaveOrFail">>))
    BY <1>3 DEF Close
  <2>2. <<"leaveOrFail">> \in LaterSteps
    BY DEF LaterSteps
  <2>3. \A q : q.op = "close" /\ q.anchor = a /\ q.steps = <<"leaveOrFail">> => Promised(q)
    BY <2>1, HeldResolves DEF Promised, PromisesClosed
  <2> QED BY <2>1, <2>2, <2>3, LaterShapes, HeldIs, AskPledges DEF Ops
<1>4. CASE Release(c)
  <2>1. PICK a \in Held : Start(c, Ask("release", a, IF a.repo \in Local THEN <<"leaveOrFail">>
                                                     ELSE <<"leaveOrFail", "drop">>))
    BY <1>4 DEF Release
  <2> DEFINE s == IF a.repo \in Local THEN <<"leaveOrFail">> ELSE <<"leaveOrFail", "drop">>
  <2>2. <<"leaveOrFail">> \in LaterSteps /\ <<"leaveOrFail", "drop">> \in LaterSteps
    BY DEF LaterSteps
  <2>3. <<"leaveOrFail", "drop">> \in Releasing /\ <<"leaveOrFail", "drop">> \in Dropping
    BY DEF Releasing, Dropping
  <2>4. a.repo \in Local => a \notin anchors
    BY RowTypes, RepositoriesAssumption DEF Types
  <2>8. Head(s) # "drop"
    BY Heads
  <2>5. /\ s \in LaterSteps /\ s \in Releasing \cup Removing \cup {<<"leaveOrFail">>}
        /\ a \in anchors => s \in Dropping
    BY <2>2, <2>3, <2>4
  <2>6. Start(c, Ask("release", a, s))
    BY <2>1
  <2> HIDE DEF s
  <2>7. \A q : q.op = "release" /\ q.anchor = a /\ q.steps = s => Promised(q)
    BY <2>1, <2>5, <2>8, HeldResolves DEF Promised, PromisesGone, PromisesReleased
  <2> QED BY <2>5, <2>6, <2>7, LaterShapes, HeldIs, AskPledges DEF Ops
<1>5. CASE OpenDirectory(c)
  <2> DEFINE a(r) == Anchor(r, "directory", <<Base[r], ".self">>, None)
  <2>1. PICK r \in repos :
          \/ r \in Local /\ Start(c, Ask("open", DirectoryRow(r), <<"open">>))
          \/ \E d \in DirectoryAnchorOf(r) : Start(c, Ask("open", d, <<"open">>))
          \/ Start(c, Answered(FALSE))
          \/ r \in Remote /\ Start(c, Ask("adopt", a(r), <<"write", "openOrDrop">>))
    BY <1>5 DEF OpenDirectory
  <2>2. CASE r \in Local /\ Start(c, Ask("open", DirectoryRow(r), <<"open">>))
    <3>1. DirectoryRow(r) \in Held
      BY <2>2 DEF Held, LocalRows
    <3> QED BY <2>2, <3>1, OpenPledges
  <2>3. CASE \E d \in DirectoryAnchorOf(r) : Start(c, Ask("open", d, <<"open">>))
    BY <2>3, OpenPledges DEF DirectoryAnchorOf, Held
  <2>4. CASE Start(c, Answered(FALSE))
    <3>1. Answered(FALSE) \in Requests /\ Answered(FALSE).steps = <<>>
      BY AnsweredIs
    <3>2. <<>> # <<"record", "enter">>
      OBVIOUS
    <3> QED BY <2>4, <3>1, <3>2 DEF Pledged
  <2>5. CASE r \in Remote /\ Start(c, Ask("adopt", a(r), <<"write", "openOrDrop">>))
    <3>1. a(r) \in Rows
      BY <2>5 DEF Rows, Anchors
    <3> HIDE DEF a
    <3>2. Head(<<"write", "openOrDrop">>) = "write" /\ <<"write", "openOrDrop">> # <<"record", "enter">>
      OBVIOUS
    <3>3. <<"write", "openOrDrop">> \in Shapes
      BY DEF Shapes, Adopting
    <3>4. \A q : q.op = "adopt" /\ q.anchor = a(r) /\ q.steps = <<"write", "openOrDrop">> => Promised(q)
      BY <3>2 DEF Promised, PromisesAdopt
    <3> QED BY <2>5, <3>1, <3>2, <3>3, <3>4, AskPledges DEF Ops
  <2> QED BY <2>1, <2>2, <2>3, <2>4, <2>5
<1>6. CASE CloseDirectory(c)
  <2>1. PICK r \in repos : Start(c, Ask("release", DirectoryOf(r), Closing(r)))
    BY <1>6 DEF CloseDirectory
  <2>2. Closing(r) \in {<<>>, <<"leave">>, <<"leave", "drop">>}
    BY DEF Closing, Teardown
  <2>3. DirectoryOf(r) \in anchors => Closing(r) \in Dropping
    <3>1. <<"leave", "drop">> \in Dropping
      BY DEF Dropping
    <3>2. DirectoryRow(r) \notin anchors
      <4>1. DirectoryRow(r).slot[1] = "here" /\ Len(DirectoryRow(r).slot) = 3
        BY DEF DirectoryRow, LocalRow
      <4>2. \A b \in anchors : Len(b.slot) = 2
        BY DEF Types, Anchors, Anchor, Slot
      <4> QED BY <4>1, <4>2
    <3>3. DirectoryOf(r) \in anchors => r \notin Local /\ DirectoryAnchorOf(r) # {}
      BY <3>2 DEF DirectoryOf
    <3> QED BY <3>1, <3>3 DEF Closing, Teardown
  <2>4. /\ <<"leave">> \in Releasing /\ <<"leave", "drop">> \in Releasing
        /\ <<>> \in Shapes /\ Releasing \subseteq Shapes
    BY DEF Releasing, Shapes
  <2>5. /\ <<>> # <<"record", "enter">> /\ <<"leave">> # <<"record", "enter">>
        /\ <<"leave", "drop">> # <<"record", "enter">>
    OBVIOUS
  <2>6. \A q : /\ q.op = "release" /\ q.anchor = DirectoryOf(r) /\ q.steps = Closing(r)
               /\ Closing(r) # <<>>
               => Promised(q)
    <3>1. Closing(r) # <<>> => Resolves(DirectoryOf(r))
      <4>1. CASE r \in Local
        BY <4>1 DEF DirectoryOf, DirectoryRow, LocalRow, Resolves
      <4>2. CASE r \notin Local /\ DirectoryAnchorOf(r) # {}
        <5>1. DirectoryOf(r) \in DirectoryAnchorOf(r)
          BY <4>2 DEF DirectoryOf
        <5> QED BY <5>1, HeldResolves DEF DirectoryAnchorOf, Held
      <4> QED BY <4>1, <4>2 DEF Closing
    <3>2. Head(<<"leave">>) # "drop" /\ Head(<<"leave", "drop">>) # "drop"
      BY Heads
    <3> QED BY <2>2, <2>3, <2>4, <3>1, <3>2 DEF Promised, PromisesGone, PromisesReleased
  <2>7. Closing(r) \in Shapes /\ Closing(r) # <<"record", "enter">> /\ "release" \in Ops
    BY <2>2, <2>4, <2>5 DEF Ops
  <2> QED BY <2>1, <2>6, <2>7, DirectoryOfIs, AskPledges
<1>7. CASE AddRepo(c)
  <2>1. PICK r \in Repos : Start(c, Ask("addRepo", DirectoryRow(r), <<"record">>))
    BY <1>7 DEF AddRepo
  <2>2. DirectoryRow(r) \in Rows
    BY DEF Rows
  <2>3. <<"record">> \in LaterSteps
    BY DEF LaterSteps
  <2>4. \A q : q.op = "addRepo" /\ q.steps = <<"record">> => Promised(q)
    BY DEF Promised
  <2> QED BY <2>1, <2>2, <2>3, <2>4, LaterShapes, AskPledges DEF Ops
<1>8. CASE DeleteRepo(c)
  <2>1. PICK r \in repos : Start(c, Ask("deleteRepo", DirectoryOf(r), Closing(r) \o <<"forget">>))
    BY <1>8 DEF DeleteRepo
  <2> DEFINE s == Closing(r) \o <<"forget">>
  <2>2. s \in {<<"forget">>, <<"leave", "forget">>, <<"leave", "drop", "forget">>}
    <3>1. <<>> \o <<"forget">> = <<"forget">>
      OBVIOUS
    <3>2. /\ <<"leave">> \o <<"forget">> = <<"leave", "forget">>
          /\ <<"leave", "drop">> \o <<"forget">> = <<"leave", "drop", "forget">>
      BY JoinOneOne, JoinTwoOne
    <3> QED BY <3>1, <3>2 DEF Closing, Teardown
  <2>3. s \in LaterSteps /\ s \in Forgetting
    BY <2>2 DEF LaterSteps, Forgetting
  <2>4. Start(c, Ask("deleteRepo", DirectoryOf(r), s))
    BY <2>1
  <2> HIDE DEF s
  <2>6. \A b \in DirectoryAnchorOf(r) : b = DirectoryOf(r) /\ s \in Dropping
    <3> SUFFICES ASSUME NEW b \in DirectoryAnchorOf(r)
                 PROVE  b = DirectoryOf(r) /\ s \in Dropping
      OBVIOUS
    <3>1. r \notin Local
      BY RowTypes, RepositoriesAssumption DEF DirectoryAnchorOf, Types
    <3>2. DirectoryOf(r) \in DirectoryAnchorOf(r)
      BY <3>1 DEF DirectoryOf
    <3>3. Closing(r) = <<"leave", "drop">>
      BY <3>1 DEF Closing, Teardown
    <3>4. s = <<"leave", "drop", "forget">>
      BY <3>3, JoinTwoOne DEF s
    <3> QED BY <3>2, <3>4, OneDirectory DEF Dropping
  <2>5. \A q : q.op = "deleteRepo" /\ q.anchor = DirectoryOf(r) /\ q.steps = s => Promised(q)
    BY <2>3, <2>6, DirectoryOfIs DEF Promised, PromisesForgotten
  <2> QED BY <2>3, <2>4, <2>5, DirectoryOfIs, LaterShapes, AskPledges DEF Ops
<1>9. CASE DeleteNode(c)
  <2>1. PICK r \in Remote : Start(c, Ask("deleteNode", DirectoryRow(r), <<"unlist", "purge">>))
    BY <1>9 DEF DeleteNode
  <2>2. DirectoryRow(r) \in Rows
    BY DEF Rows, Repos
  <2>3. <<"unlist", "purge">> \in LaterSteps
    BY DEF LaterSteps
  <2>4. \A q : q.op = "deleteNode" /\ q.steps = <<"unlist", "purge">> => Promised(q)
    BY DEF Promised, PromisesUnlisted
  <2> QED BY <2>1, <2>2, <2>3, <2>4, LaterShapes, AskPledges DEF Ops
<1> QED BY <1>1, <1>2, <1>3, <1>4, <1>5, <1>6, <1>7, <1>8, <1>9 DEF NewRequest

(* What a request has brought about stays while the lists do and no checkout *)
(* goes.                                                                     *)
LEMMA PromiseStays ==
  ASSUME NEW q, Promised(q), UNCHANGED <<anchors, repos, meta, entries, slips>>,
         checkouts \subseteq checkouts',
         \A k \in checkouts' : k \in checkouts \/ k.path \in Elsewhere
  PROVE  Promised(q)'
<1>1. Held \subseteq Held'
  BY DEF Held, LocalRows
<1>2. PromisesCreate(q) => PromisesCreate(q)'
  BY DEF PromisesCreate
<1>3. (PromisesAdopt(q) => PromisesAdopt(q)') /\ (PromisesGone(q) => PromisesGone(q)')
  BY DEF PromisesAdopt, PromisesGone
<1>4. PromisesOpen(q) => PromisesOpen(q)'
  BY <1>1 DEF PromisesOpen
<1>5. /\ PromisesClosed(q) => PromisesClosed(q)'
      /\ PromisesReleased(q) => PromisesReleased(q)'
  BY DEF PromisesClosed, PromisesReleased, Resolves, NoEntryOf
<1>6. PromisesRemoved(q) => PromisesRemoved(q)'
  BY DEF PromisesRemoved, Checkout
<1>7. PromisesForgotten(q) => PromisesForgotten(q)'
  BY DEF PromisesForgotten, DirectoryAnchorOf
<1> QED BY <1>2, <1>3, <1>4, <1>5, <1>6, <1>7 DEF Promised, PromisesUnlisted

LEMMA PromisingKeeps ==
  ASSUME OneCaller, NoneIsNothing, Types, Agree, Types', EntriesThere', Promising, [WorktreeNext]_worktreeVars
  PROVE  Promising'
<1> SUFFICES ASSUME NEW c \in Callers, ~Idle(c)'
             PROVE  Promised(request[c])'
  BY DEF Promising
<1>1. PICK m : m = request'[c]
  OBVIOUS
<1>2. m # None /\ m.steps # <<>>
  BY <1>1 DEF Idle
<1>3. ~Restart
  BY <1>1, <1>2 DEF Restart
<1>4. CASE CutByHand \/ UNCHANGED worktreeVars
  <2>1. /\ request' = request /\ UNCHANGED <<anchors, repos, meta, entries, slips>>
        /\ checkouts \subseteq checkouts'
        /\ \A k \in checkouts' : k \in checkouts \/ k.path \in Elsewhere
    BY <1>4 DEF CutByHand, worktreeVars
  <2>2. Promised(m)
    BY <1>1, <1>2, <2>1 DEF Promising, Idle
  <2>3. Promised(m)'
    BY <2>1, <2>2, PromiseStays
  <2> QED BY <1>1, <2>3
<1>5. CASE Step(c) /\ ~Idle(c)
  <2>1. PICK q : q = request[c]
    OBVIOUS
  <2>2. Promised(q)
    BY <1>5, <2>1 DEF Promising
  <2>3. CASE m.ok
    <3>1. GoesOn(c, q, m)
      BY <1>1, <1>2, <1>5, <2>1, <2>3 DEF GoesOn
    <3>2. Promised(m)'
      BY <1>2, <2>2, <3>1, StepHolds
    <3> QED BY <1>1, <3>2
  <2>4. CASE ~m.ok
    <3>1. Promised(m)'
      BY <2>4 DEF Promised
    <3> QED BY <1>1, <3>1
  <2> QED BY <2>3, <2>4
<1>6. CASE Step(c) /\ Idle(c)
  <2>1. NewRequest(c)
    BY <1>1, <1>2, <1>6
       DEF Step, Idle, Answer, Types, AddWorktree, WriteAnchor, DropAnchor, CutWorktree,
           WriteRepos, RegisterWorkspace, UnregisterWorkspace, RemoveNode, At
  <2>2. PICK q : Pledged(c, q)
    BY <2>1, OpsPledge
  <2>3. Leads(q, m)
    BY <1>1, <2>2, StartLeads DEF Pledged
  <2>4. m.steps = q.steps /\ m.anchor = q.anchor /\ m.op = q.op /\ m.ok = q.ok /\ Promised(q)
    BY <1>2, <2>2, <2>3 DEF Leads, Pledged
  <2>5. Promised(m)
    BY <2>4 DEF Promised, PromisesCreate, PromisesAdopt, PromisesOpen, PromisesGone,
       PromisesClosed, PromisesReleased, PromisesRemoved, PromisesForgotten, PromisesUnlisted
  <2>6. Promised(m)'
    BY <2>1, <2>5, PromiseStays DEF NewRequest
  <2> QED BY <1>1, <2>6
<1> QED BY <1>3, <1>4, <1>5, <1>6 DEF WorktreeNext, OneCaller

LEMMA AnswerHolds ==
  ASSUME OneCaller, NoneIsNothing, Types, Agree, Types', EntriesThere', Promising, [WorktreeNext]_worktreeVars
  PROVE  \A c \in Callers : \A q \in {request[c]} :
           (~Idle(c) /\ request'[c] # None /\ request'[c].steps = <<>> /\ request'[c].ok)
             => Holds(q)'
<1> SUFFICES ASSUME NEW c \in Callers, NEW q \in {request[c]}, ~Idle(c),
                    request'[c] # None, request'[c].steps = <<>>, request'[c].ok
             PROVE  Holds(q)'
  OBVIOUS
<1>1. PICK m : m = request'[c]
  OBVIOUS
<1>2. Step(c)
  BY DEF WorktreeNext, CutByHand, Restart, worktreeVars, Idle, OneCaller
<1>3. GoesOn(c, q, m) /\ Promised(q)
  BY <1>1, <1>2 DEF GoesOn, Promising
<1> QED BY <1>1, <1>3, StepHolds

(* What a route answers with success is so when it answers: the worktree it  *)
(* made is there, recorded and routed to, what it opened is registered and   *)
(* what it closed is not, what it removed or released has no checkout, no    *)
(* anchor and no workspace entry, the repository it added is recorded, and   *)
(* the repository or machine it was told to forget is out of the lists, with *)
(* the excuses Holds names; for one request at a time and names without a    *)
(* slash (worktrees.ts 841-1034, api.ts).                                    *)
THEOREM AnswersAreTrue ==
  ASSUME OneCaller, PlainNames, NoneIsNothing
  PROVE  WorktreeSpec => AnswersHold
<1>1. WorktreeInit => Promising
  BY DEF WorktreeInit, Promising, Idle
<1>2. /\ Types /\ Agree /\ (Types /\ Agree)' /\ Promising /\ [WorktreeNext]_worktreeVars
      => Promising'
  BY PromisingKeeps DEF Agree
<1>3. /\ Types /\ Agree /\ (Types /\ Agree)' /\ Promising /\ [WorktreeNext]_worktreeVars
      => [\A c \in Callers : \A q \in {request[c]} :
            (~Idle(c) /\ request'[c] # None /\ request'[c].steps = <<>> /\ request'[c].ok)
              => Holds(q)']_worktreeVars
  BY AnswerHolds DEF Agree
<1> QED BY <1>1, <1>2, <1>3, RequestsRelyRightly, PTL DEF WorktreeSpec, AnswersHold
=============================================================================
