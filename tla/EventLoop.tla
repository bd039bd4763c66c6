------------------------------- MODULE EventLoop -------------------------------
(***************************************************************************)
(* The class EventLoop of libsponge/util/eventloop.{hh,cc}.  A loop holds  *)
(* its rules in order, by name; what a rule watches and does is given by   *)
(* the constants, over the state w that belongs to the thread of the loop. *)
(* One call of wait_next_event has three parts: SetUp, poll() (a snapshot  *)
(* of what is ready: Polled), and the callbacks of what was ready, one     *)
(* after another, while other threads go on.                               *)
(***************************************************************************)
EXTENDS SequencesExt

CONSTANTS
    IsOver(_, _),    \* whether the file of a rule is at its end, or closed
    Interest(_, _),  \* its callback "interest"
    Cancel(_, _),    \* its callback "cancel": w after it
    Ready(_),        \* what poll() finds on the file of a rule, in its direction:
    Hup(_),          \* POLLIN or POLLOUT, POLLHUP,
    Err(_)           \* POLLERR

\* events: the rules polled for their direction; todo: what the last poll() found
\* and has not been handled yet, as <<rule, "error", "ready" or "hup">>.
NewLoop == [rules |-> << >>, events |-> {}, todo |-> << >>]

add_rule(l, rule) == [l EXCEPT !.rules = Append(@, rule)]

KeepOrCancel(acc, r) ==
    IF IsOver(acc.w, r) THEN [acc EXCEPT !.w = Cancel(@, r)]
    ELSE [acc EXCEPT !.l.rules = Append(@, r),
                     !.l.events = IF Interest(acc.w, r) THEN @ \cup {r} ELSE @]

\* The first loop: rules whose file is at its end are cancelled and
\* erased, which may change w under the rules that follow.
SetUp(l, w) == FoldLeft(KeepOrCancel, [l |-> NewLoop, w |-> w], l.rules)

\* Result::Exit
Exits(l) == l.events = {}

\* poll() returns before its timeout: a hangup or an error nobody asked for wakes it
\* as well.
Wakes(l) ==
    \E r \in Range(l.rules) : Hup(r) \/ Err(r) \/ (r \in l.events /\ Ready(r))

\* What the second loop will do, rule by rule.
Polled(l) ==
    LET found == SelectSeq(l.rules, LAMBDA r : Err(r) \/ (r \in l.events /\ (Ready(r) \/ Hup(r))))
        how(r) == IF Err(r) THEN "error" ELSE IF Ready(r) THEN "ready" ELSE "hup"
    IN  [l EXCEPT !.todo = [i \in DOMAIN found |-> <<found[i], how(found[i])>>]]

Handled(l) == [l EXCEPT !.todo = Tail(@)]

Erased(l, r) == [Handled(l) EXCEPT !.rules = SelectSeq(@, LAMBDA q : q # r)]

\* "busy wait detected": the callback left its file alone and is interested still.
BusyWait(served, w, r) == ~served /\ Interest(w, r)
================================================================================
