------------------------------ MODULE EventLoopOps ------------------------------
(***************************************************************************)
(* libsponge/util/eventloop.{hh,cc}: the parts of wait_next_event().  A    *)
(* rule is a name; what its descriptor, its interest and its callbacks do   *)
(* is given by operators on the state of the program that owns the loop:    *)
(* the module is instantiated once for each loop.                           *)
(***************************************************************************)
EXTENDS Integers, Sequences

LOCAL INSTANCE SequencesExt

CONSTANTS
  Gone(_, _),       \* the rule is for reading and its descriptor has reached its end, or
                    \*   the descriptor is closed
  Interest(_, _), Cancel(_, _),
  Ready(_, _),      \* revents has what was asked for
  Hup(_, _)         \* revents has POLLHUP

\* The loop that sets up the pollfds, in the order of the rules.
set_up(state, rules) ==
  FoldLeft(LAMBDA loop, r :
             IF Gone(loop.state, r) THEN [loop EXCEPT !.state = Cancel(@, r)]
             ELSE [loop EXCEPT !.rules = Append(@, r),
                               !.asked = IF Interest(loop.state, r) THEN @ \union {r} ELSE @],
           [state |-> state, rules |-> <<>>, asked |-> {}], rules)

\* The rules that the loop over the results will do something about, in order: those
\* that are ready are called, those that have only hung up are cancelled.
to_serve(loop) ==
  LET asked(r) == r \in loop.asked /\ (Ready(loop.state, r) \/ Hup(loop.state, r))
      called == SelectSeq(loop.rules, asked)
  IN  [i \in 1 .. Len(called) |->
         [rule |-> called[i], call |-> IF Ready(loop.state, called[i]) THEN "callback" ELSE "cancel"]]

\* Result::Exit without a poll().
nothing_to_poll(loop) == loop.asked = {}

\* wait_next_event() throws: the callback has neither read nor written its descriptor, and
\* in the state it leaves behind its rule is still interested.
busy_wait(used, after, r) == ~ used /\ Interest(after, r)

erase(rules, rule) == SelectSeq(rules, LAMBDA r : r # rule)
=============================================================================
