----------------------------- MODULE LinkTimer -----------------------------
(***************************************************************************)
(* The two deadlines of the IR task (badge_drivers/ir.c) on a tick counter *)
(* that wraps: the silence a transaction survives, refreshed by traffic,   *)
(* and the time a transaction may take, which nothing refreshes.  What the *)
(* messages say is left to Badge; here a turn of serial_task_fn starts a   *)
(* transaction, refreshes it, ends it, or does none of these.              *)
(***************************************************************************)
EXTENDS Integers

CONSTANTS
  Half,     \* half the range of Clock_getTicks()
  Timeout,  \* IR_TIMEOUT_MS in ticks
  Limit,    \* IR_TRANSACTION_LIMIT_MS in ticks
  MaxTurn   \* the longest turn of serial_task_fn, in ticks: three reads and an answer

ASSUME TickAssumption ==
  /\ Half \in Nat /\ Timeout \in Nat \ {0} /\ Limit \in Nat \ {0} /\ MaxTurn \in Nat
  /\ Timeout + MaxTurn <= Half /\ Limit + MaxTurn <= Half

VARIABLES
  now,          \* Clock_getTicks()
  phase,        \* what serial_task_fn does next: "events", "read" or "look" at the clock
  busy,         \* serial_ll_state is not IDLE
  nextTimeout,  \* serial_ll_next_timeout
  deadline,     \* serial_ll_transaction_deadline
  spent,        \* time since the deadlines were last looked at
  age,          \* time since the transaction began
  silence       \* time since the frame timeout was last set, in a transaction

tickvars == <<now, phase, busy, nextTimeout, deadline, spent, age, silence>>

TickRange == 2 * Half
Tick == 0..TickRange - 1

(* Adding to and subtracting from a tick count, with the wrap.             *)
Later(t, d) == IF t + d < TickRange THEN t + d ELSE t + d - TickRange
Elapsed(t, u) == IF u >= t THEN u - t ELSE u - t + TickRange

PassedUnsigned(t) == now >= t
(* serial_deadline_passed: the difference is not negative as a signed one. *)
Passed(t) == Elapsed(t, now) < Half

TimerInit ==
  /\ now \in Tick /\ phase = "look" /\ busy = FALSE
  /\ nextTimeout = Later(now, Timeout) /\ deadline = 0
  /\ spent = 0 /\ age = 0 /\ silence = 0

(* Bound: a turn takes at most MaxTurn.                                    *)
TimePasses ==
  /\ spent < MaxTurn /\ spent' = spent + 1
  /\ now' = Later(now, 1)
  /\ age' = (IF busy THEN age + 1 ELSE 0)
  /\ silence' = (IF busy THEN silence + 1 ELSE 0)
  /\ UNCHANGED <<phase, busy, nextTimeout, deadline>>

(* Traffic and transitions put the silence off.                            *)
Refreshed == nextTimeout' = Later(now, Timeout) /\ silence' = 0

(* serial_state_transition out of IDLE and into it.                        *)
Entered ==
  /\ ~busy /\ busy' = TRUE
  /\ deadline' = Later(now, Limit)
  /\ Refreshed /\ age' = 0
WentIdle == busy' = FALSE /\ Refreshed /\ age' = 0 /\ UNCHANGED deadline

BothReached == busy /\ Passed(deadline) /\ Passed(nextTimeout)
(* The top of the loop: the limit first, then the silence, where 0 means   *)
(* that no timeout is set.  Outside a transaction serial_timeout only sets *)
(* the next one.                                                           *)
SilenceOutside == ~busy /\ nextTimeout # 0 /\ Passed(nextTimeout)
LimitReached == busy /\ Passed(deadline)
SilenceReached == nextTimeout # 0 /\ Passed(nextTimeout)

Look ==
  /\ phase = "look" /\ phase' = "events" /\ spent' = 0
  /\ \/ (LimitReached \/ SilenceReached) /\ WentIdle
     \/ ~LimitReached /\ ~SilenceReached
        /\ UNCHANGED <<busy, nextTimeout, deadline, age, silence>>
  /\ UNCHANGED now

(* An event starts a send, or there is none to start.                      *)
Events ==
  /\ phase = "events" /\ phase' = "read"
  /\ Entered \/ UNCHANGED <<busy, nextTimeout, deadline, age, silence>>
  /\ UNCHANGED <<now, spent>>

(* What came was an offer that is taken, the end of a transaction or an    *)
(* offer that is declined, something that refreshes the frame timeout, or  *)
(* nothing the link cares about.                                           *)
Read ==
  /\ phase = "read" /\ phase' = "look"
  /\ \/ Entered
     \/ WentIdle
     \/ Refreshed /\ UNCHANGED <<busy, deadline, age>>
     \/ UNCHANGED <<busy, nextTimeout, deadline, age, silence>>
  /\ UNCHANGED <<now, spent>>

TimerNext == TimePasses \/ Look \/ Events \/ Read

TimerSpec == TimerInit /\ [][TimerNext]_tickvars

-----------------------------------------------------------------------------
TimerTypeOK ==
  /\ now \in Tick /\ nextTimeout \in Tick /\ deadline \in Tick
  /\ phase \in {"events", "read", "look"} /\ busy \in BOOLEAN
  /\ spent \in 0..MaxTurn /\ age \in Nat /\ silence \in Nat

(* No transaction outlives its limit by more than the turn it ends in, at  *)
(* whatever tick it starts and however a peer chatters (ir.h:41).          *)
LimitKept == busy => age < Limit + MaxTurn

(* A transaction whose peer falls silent is dropped after IR_TIMEOUT_MS,   *)
(* unless the tick of the timeout is the one that reads as "none".         *)
SilenceEnds == busy /\ nextTimeout # 0 => silence < Timeout + MaxTurn

(* The clock ends a transaction only when one of its two times is over: a  *)
(* deadline that wraps, or one left from an earlier transaction, does not  *)
(* cut it short.                                                           *)
NeverCutShort ==
  [][Look /\ busy /\ ~busy' => silence >= Timeout \/ age >= Limit]_tickvars
=============================================================================
