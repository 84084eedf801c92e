--------------------------- MODULE MCProgramHost ---------------------------
(***************************************************************************)
(* ProgramHost on small instances.                                         *)
(***************************************************************************)
EXTENDS ProgramHost, TLC

\* A short line, and one with an escape that comes to stand at the limit.
MCLines == {<<1>>, <<2, 1, 6>>}

L    == Token("leaf", 0)
N(n) == Token("node", n)

\* For the first call values, with containers that close one or two at a time
\* and in the middle of another, values cut short and run on, and a marker
\* that is none; for the second one of each outcome.
MCWires ==
  << {<<N(1), N(1), L>>, <<N(2), N(1), L, L>>, <<N(2), N(1), L>>, <<N(1)>>,
      <<N(0), L>>, <<N(1), Token("bad", 0)>>},
     {<<L>>} >>
=============================================================================
