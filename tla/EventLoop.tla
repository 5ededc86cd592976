----------------------------- MODULE EventLoop ------------------------------
(***************************************************************************)
(* The class EventLoop (libsponge/util/eventloop.hh, .cc).  Its owner has  *)
(* a state app that the functions of the rules read and change; the rules  *)
(* are numbered in the order in which they were added.                     *)
(***************************************************************************)
EXTENDS Integers, SequencesExt

CONSTANTS NRules,
          In,               \* the rules of Direction::In
          eof(_, _),        \* eof(k, app): the flag of the fd of rule k
          closed(_, _),     \* closed(k, app): likewise
          interest(_, _),   \* interest(k, app)
          cancel(_, _)      \* cancel(k, app): the state after the call

(***************************************************************************)
(* The rules there are and, within a call of wait_next_event, those whose  *)
(* callback is still to be called for what poll returned, those that are   *)
(* to be cancelled for it, and the rule in service with its count_before.  *)
(***************************************************************************)
NewEventLoop == [rules |-> 1..NRules, callbacks |-> {}, cancels |-> {}, service |-> << >>]

(* Lines 67-89 for one rule: cancelled, polled, or a placeholder. *)
set_up_rule(acc, k) ==
  IF k \notin acc.rules THEN acc
  ELSE IF (k \in In /\ eof(k, acc.app)) \/ closed(k, acc.app)
    THEN [acc EXCEPT !.app = cancel(k, @), !.rules = @ \ {k}]
  ELSE IF interest(k, acc.app) THEN [acc EXCEPT !.events = @ \cup {k}]
  ELSE acc

(* In their order: a rule sees what the cancellations before it did. *)
set_up(app, loop) ==
  FoldLeft(set_up_rule, [app |-> app, rules |-> loop.rules, events |-> {}],
           [k \in 1..NRules |-> k])

(* Lines 92-94. *)
exits(s) == s.events = {}

(* poll waits for an event asked for, or for a hangup of any fd. *)
returns(s, ready, hup) == ready \cap s.events # {} \/ hup \cap s.rules # {}

(***************************************************************************)
(* Lines 109-129: what the results of poll, for the descriptors of the     *)
(* rules in ready and in hup, call for.  A descriptor is defunct when      *)
(* nothing but its hangup answers the event asked for.                     *)
(***************************************************************************)
poll(s, ready, hup) ==
  [rules |-> s.rules, callbacks |-> ready \cap s.events,
   cancels |-> (hup \cap s.events) \ ready, service |-> << >>]

busy(loop) == loop.callbacks \cup loop.cancels # {} \/ loop.service # << >>

(* The results are looked at in the order of the rules. *)
next_result(loop, k) ==
  \A j \in loop.callbacks \cup loop.cancels : k <= j

erased(loop, k) == [loop EXCEPT !.rules = @ \ {k}, !.cancels = @ \ {k}]

called(loop, k) == [loop EXCEPT !.callbacks = @ \ {k}]

(***************************************************************************)
(* Lines 131-139, where another thread may change the count in between:    *)
(* the count before the callback, and the comparison with the one after.   *)
(***************************************************************************)
served(loop, k, count) == [loop EXCEPT !.service = << k, count >>]

in_service(loop, k) == loop.service # << >> /\ loop.service[1] = k /\ k \in loop.callbacks

to_check(loop) == loop.service # << >> /\ loop.service[1] \notin loop.callbacks

busy_wait(loop, count, interested) == loop.service[2] = count /\ interested

checked(loop) == [loop EXCEPT !.service = << >>]

=============================================================================
