---------------------------- MODULE ValueCodec ----------------------------
(***************************************************************************)
(* The value codec of src/ptc-host/src/program.js: how a value a program   *)
(* and the harness exchange becomes a flat stream of tokens, and is put    *)
(* together again without a call stack.                                    *)
(*                                                                         *)
(* A value is a tree: a scalar is a leaf, an array or an object a node     *)
(* over its children in order.  Keys, numbers and strings are left out.    *)
(***************************************************************************)
EXTENDS Integers, Sequences, SequencesExt

CONSTANTS
  Arity,  \* bound: children of a container
  Depth   \* bound: nesting of a value

ASSUME TreeBoundsAssumption == Arity \in Nat /\ Depth \in Nat

-----------------------------------------------------------------------------
(* Values and tokens                                                         *)

Leaf        == [leaf |-> TRUE, items |-> <<>>]
Node(items) == [leaf |-> FALSE, items |-> items]

\* The lossless values: leaves, and containers of up to Arity of them.
TreesTo[d \in 0 .. Depth] ==
  {Leaf} \cup {Node(items) : items \in
                 IF d = 0 THEN {<<>>} ELSE BoundedSeq(TreesTo[d - 1], Arity)}

Trees == TreesTo[Depth]

\* What a stream that is no value's reads as.
Undefined == [leaf |-> TRUE, items |-> <<Leaf>>]
Values == Trees \cup {Undefined}

Token(kind, size) == [kind |-> kind, size |-> size]
Tokens == {Token("leaf", 0), Token("bad", 0)} \cup {Token("node", n) : n \in 0 .. Arity}

\* flatten: a container is a marker followed by its children in order.
Flatten[v \in Trees] ==
  IF v.leaf
    THEN <<Token("leaf", 0)>>
    ELSE <<Token("node", Len(v.items))>>
           \o FlattenSeq([i \in DOMAIN v.items |-> Flatten[v.items[i]]])

\* The streams that are a value's.
Lossless == {Flatten[v] : v \in Trees}

-----------------------------------------------------------------------------
(* unflatten: the containers under construction, outermost first, and the    *)
(* root once it is whole.                                                    *)

\* A value closes the frames it fills, innermost first: what k of them make.
Closing(open, value) ==
  LET made[k \in 0 .. Len(open)] ==
        IF k = 0
          THEN value
          ELSE Node(Append(open[Len(open) - k + 1].items, made[k - 1]))
  IN  made

\* The innermost frame that one more child does not fill, or 0.
Room(open) ==
  Max({0} \cup {n \in 1 .. Len(open) : Len(open[n].items) + 1 < open[n].size})

\* A value goes into that frame, with all it closes on its way there.
Placed(machine, value) ==
  LET open == machine.open
      room == Room(open)
      made == Closing(open, value)[Len(open) - room]
  IN  IF room = 0
        THEN [machine EXCEPT !.open = <<>>, !.root = made]
        ELSE [machine EXCEPT !.open =
                Append(SubSeq(open, 1, room - 1),
                       [open[room] EXCEPT !.items = Append(@, made)])]

\* One token: a second root and a marker that is no marker end it.
ReadToken(machine, token) ==
  IF \/ ~machine.ok
     \/ token.kind = "bad"
     \/ machine.open = <<>> /\ machine.root # Undefined
    THEN [machine EXCEPT !.ok = FALSE]
    ELSE IF token.kind = "leaf"
           THEN Placed(machine, Leaf)
           ELSE IF token.size = 0
                  THEN Placed(machine, Node(<<>>))
                  ELSE [machine EXCEPT !.open =
                          Append(@, [size |-> token.size, items |-> <<>>])]

\* How the stream reads token by token.
Read(wire) ==
  LET machine[n \in 0 .. Len(wire)] ==
        IF n = 0
          THEN [ok |-> TRUE, open |-> <<>>, root |-> Undefined]
          ELSE ReadToken(machine[n - 1], wire[n])
  IN  machine

Unflatten(wire) ==
  LET end == Read(wire)[Len(wire)]
  IN  IF end.ok /\ end.open = <<>> THEN end.root ELSE Undefined

=============================================================================
