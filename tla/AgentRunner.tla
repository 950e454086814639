----------------------------- MODULE AgentRunner ----------------------------
(***************************************************************************)
(* run_language_agent of scripts/cursor_agent_runner.py: the thread that   *)
(* reads the events of a Cursor SDK run and stops it at a token or a turn  *)
(* cap, and the threading.Timer thread that stops it after a wall-clock    *)
(* timeout.  Both decide by the same steps -- claim the reason under       *)
(* cap_lock, log it, look at the run's status, cancel it -- and any step   *)
(* of one can fall between any two of the other.                           *)
(*                                                                         *)
(* The run itself belongs to the SDK (external): it is running until it    *)
(* stops, on its own or some time after it was asked to.  Input and output *)
(* tokens are one number.  The heartbeat thread only logs and is left out. *)
(***************************************************************************)
EXTENDS Naturals, Sequences

CONSTANTS
  TokenCap,   (* the token cap, 0 when disabled (None)                     *)
  TurnCap,    (* the turn cap, 0 when disabled (None)                      *)
  MaxTokens,  (* bound of a reported usage                                 *)
  MaxEvents   (* bound of the number of events a run emits                 *)

ASSUME CapAssumption ==
  /\ TokenCap \in Nat
  /\ TurnCap \in Nat
  /\ MaxTokens \in Nat
  /\ MaxEvents \in Nat

None    == "none"
Reasons == {"token_cap", "turn_cap", "wall_clock_timeout"}
Thread  == {"main", "timer"}

VARIABLES
  pc,         (* where each thread is                                      *)
  why,        (* the reason each thread is about to claim                  *)
  capped,     (* result.capped_reason                                      *)
  logged,     (* the reasons logged as "cancelled: ..."                    *)
  total,      (* result.input_tokens + result.output_tokens                *)
  turns,      (* result.turns                                              *)
  streamed,   (* streamed_tokens                                           *)
  waited,     (* the usage that run.wait() returned and main will store    *)
  status,     (* run.status                                                *)
  cancels,    (* the number of calls of run.cancel()                       *)
  events      (* the number of events the run has emitted                  *)

result == <<capped, total, turns>>
vars == <<pc, why, logged, result, streamed, waited, status, cancels, events>>

-----------------------------------------------------------------------------
Init ==
  /\ pc = [main |-> "send", timer |-> "not_started"]
  /\ why = [main |-> None, timer |-> "wall_clock_timeout"]
  /\ capped = None /\ total = 0 /\ turns = 0
  /\ logged = <<>>
  /\ streamed = 0 /\ waited = 0
  /\ status = "created" /\ cancels = 0 /\ events = 0

Goto(t, l)  == pc' = [pc EXCEPT ![t] = l]

\* Timer.cancel() by main: a timer still waiting will not fire; a timer whose
\* function has already been called is not stopped.
MainStopsTimer(l) ==
  pc' = [main |-> l, timer |-> IF pc.timer = "waiting" THEN "stopped" ELSE pc.timer]

\* agent.send returns a run, then the timer is started.
Send ==
  /\ pc.main = "send"
  /\ pc' = [main |-> "read", timer |-> "waiting"]
  /\ status' = "running"
  /\ UNCHANGED <<why, logged, result, streamed, waited, cancels, events>>

\* No SDK, or Agent.create or agent.send raises: logged, nothing to report.
DispatchError ==
  /\ pc.main = "send"
  /\ Goto("main", "returned")
  /\ UNCHANGED <<why, logged, result, streamed, waited, status, cancels, events>>

-----------------------------------------------------------------------------
(* The event loop *)

Event ==
  /\ pc.main = "read"
  /\ events < MaxEvents
  /\ events' = events + 1
  /\ UNCHANGED <<logged, capped, waited, status, cancels>>

\* main is going to break out of the loop through _trip_cap.
Trip(reason) ==
  /\ why' = [why EXCEPT !.main = reason]
  /\ Goto("main", "claim")

Continue == UNCHANGED <<pc, why>>

\* Mutant: the cap trips on the estimate, which is not reported.
ReadDeltaUnfolded(d) ==
  /\ Event
  /\ TokenCap > 0
  /\ streamed' = streamed + d
  /\ IF total + streamed' >= TokenCap THEN Trip("token_cap") ELSE Continue
  /\ UNCHANGED <<total, turns>>

\* A token-delta update of d tokens; without a token cap it is ignored.  The
\* estimate is folded into the reported total before the cap trips.
ReadDelta(d) ==
  /\ Event
  /\ TokenCap > 0
  /\ streamed' = streamed + d
  /\ IF total + streamed' >= TokenCap
     THEN total' = total + streamed' /\ Trip("token_cap")
     ELSE Continue /\ UNCHANGED total
  /\ UNCHANGED turns

\* A usage message, the end of a turn: u is the cumulative usage of the run,
\* or the usage of the message when the SDK has no cumulative one.
ReadUsage(u) ==
  /\ Event
  /\ total' = u
  /\ streamed' = 0
  /\ turns' = turns + 1
  /\ IF TokenCap > 0 /\ u >= TokenCap THEN Trip("token_cap")
     ELSE IF TurnCap > 0 /\ turns' >= TurnCap THEN Trip("turn_cap")
     ELSE Continue

\* run.events() is exhausted when the run has stopped.
EventsEnd ==
  /\ pc.main = "read"
  /\ status = "stopped"
  /\ Goto("main", "wait")
  /\ UNCHANGED <<why, logged, result, streamed, waited, status, cancels, events>>

\* run.events() or run.wait() raises: caught, after the finally clause.
SdkError ==
  /\ pc.main \in {"read", "wait"}
  /\ Goto("main", "finally")
  /\ UNCHANGED <<why, logged, result, streamed, waited, status, cancels, events>>

-----------------------------------------------------------------------------
(* Cancelling, by either thread *)

\* Where a thread goes after the cancellation, and when run.cancel() raises:
\* main goes on to run.wait() or to the finally clause, the timer thread ends.
After(t) == IF t = "main" THEN "wait" ELSE "done"
Raised(t) == IF t = "main" THEN "finally" ELSE "done"

\* The body of the timer thread: wait, then call cancel_on_timeout.
TimerFires ==
  /\ pc.timer = "waiting"
  /\ Goto("timer", "claim")
  /\ UNCHANGED <<why, logged, result, streamed, waited, status, cancels, events>>

\* Mutant: the reason is written without looking whether one is there.
ClaimCapAlways(t) ==
  /\ pc[t] = "claim"
  /\ capped' = why[t]
  /\ Goto(t, "log")
  /\ UNCHANGED <<why, logged, total, turns, streamed, waited, status, cancels, events>>

\* Mutant: the caller that wrote the reason is told that it lost.
ClaimCapInverted(t) ==
  /\ pc[t] = "claim"
  /\ IF capped # None
     THEN Goto(t, "log") /\ UNCHANGED capped
     ELSE Goto(t, IF t = "main" THEN "stop_timer_lost" ELSE "done") /\ capped' = why[t]
  /\ UNCHANGED <<why, logged, total, turns, streamed, waited, status, cancels, events>>

\* _claim_cap, under cap_lock: the first caller wins.
ClaimCap(t) ==
  /\ pc[t] = "claim"
  /\ IF capped = None
     THEN capped' = why[t] /\ Goto(t, "log")
     ELSE /\ Goto(t, IF t = "main" THEN "stop_timer_lost" ELSE "done")
          /\ UNCHANGED capped
  /\ UNCHANGED <<why, logged, total, turns, streamed, waited, status, cancels, events>>

\* The log line of _claim_cap, after the lock is released.
LogCancelled(t) ==
  /\ pc[t] = "log"
  /\ logged' = Append(logged, why[t])
  /\ Goto(t, IF t = "main" THEN "stop_timer_won" ELSE "check_status")
  /\ UNCHANGED <<why, result, streamed, waited, status, cancels, events>>

\* The timer.cancel() of _trip_cap, whoever won.
StopTimer ==
  /\ pc.main \in {"stop_timer_won", "stop_timer_lost"}
  /\ MainStopsTimer(IF pc.main = "stop_timer_won" THEN "check_status" ELSE "wait")
  /\ UNCHANGED <<why, logged, result, streamed, waited, status, cancels, events>>

\* The test of _cancel_if_running.
CheckStatus(t) ==
  /\ pc[t] = "check_status"
  /\ Goto(t, IF status = "running" THEN "cancel" ELSE After(t))
  /\ UNCHANGED <<why, logged, result, streamed, waited, status, cancels, events>>

\* run.cancel(): a request while the run is running; an error afterwards.
CancelRun(t) ==
  /\ pc[t] = "cancel"
  /\ cancels' = cancels + 1
  /\ Goto(t, IF status = "running" THEN After(t) ELSE Raised(t))
  /\ UNCHANGED <<why, logged, result, streamed, waited, status, events>>

-----------------------------------------------------------------------------
(* The end of the run *)

\* Mutant: the usage of run.wait() is stored even after a cap.
WaitAlwaysStoring ==
  /\ pc.main = "wait"
  /\ status = "stopped"
  /\ \E u \in 0..MaxTokens : waited' = u
  /\ Goto("main", "store")
  /\ UNCHANGED <<why, logged, result, streamed, status, cancels, events>>

\* run.wait() returns, perhaps with a usage; it is kept unless a cap was
\* claimed.  The test and the assignments are not under cap_lock.
Wait ==
  /\ pc.main = "wait"
  /\ status = "stopped"
  /\ \/ /\ capped = None
        /\ \E u \in 0..MaxTokens : waited' = u
        /\ Goto("main", "store")
     \/ Goto("main", "finally") /\ UNCHANGED waited
  /\ UNCHANGED <<why, logged, result, streamed, status, cancels, events>>

StoreUsage ==
  /\ pc.main = "store"
  /\ total' = waited
  /\ Goto("main", "finally")
  /\ UNCHANGED <<why, logged, capped, turns, streamed, waited, status, cancels, events>>

\* Mutant: the timer is left armed.
FinallyLeavingTimer ==
  /\ pc.main = "finally"
  /\ Goto("main", "returned")
  /\ UNCHANGED <<why, logged, result, streamed, waited, status, cancels, events>>

Finally ==
  /\ pc.main = "finally"
  /\ MainStopsTimer("returned")
  /\ UNCHANGED <<why, logged, result, streamed, waited, status, cancels, events>>

\* External: the run stops, having finished, failed or been cancelled.
RunStops ==
  /\ status = "running"
  /\ status' = "stopped"
  /\ UNCHANGED <<pc, why, logged, result, streamed, waited, cancels, events>>

-----------------------------------------------------------------------------
Cancelling(t) == ClaimCap(t) \/ LogCancelled(t) \/ CheckStatus(t) \/ CancelRun(t)

Reading == \/ \E d \in 0..2 : ReadDelta(d)
           \/ \E u \in 0..MaxTokens : ReadUsage(u)

\* Main's own steps, those that do not wait for an event of the run.
MainStep == EventsEnd \/ Cancelling("main") \/ StopTimer \/ Wait \/ StoreUsage \/ Finally

Next ==
  \/ Send \/ DispatchError
  \/ Reading \/ SdkError
  \/ MainStep
  \/ TimerFires \/ Cancelling("timer")
  \/ RunStops

Spec == Init /\ [][Next]_vars

\* Threads are scheduled, the timeout expires, and a run that was asked to
\* stop stops.  Nothing obliges a run to emit events or to stop by itself.
Fairness ==
  /\ WF_vars(Send) /\ WF_vars(MainStep)
  /\ WF_vars(TimerFires) /\ WF_vars(Cancelling("timer"))
  /\ WF_vars(RunStops /\ cancels > 0)

FairSpec == Spec /\ Fairness

-----------------------------------------------------------------------------
(* Properties *)

Places == {"not_started", "waiting", "stopped", "send", "read", "claim", "log",
           "stop_timer_won", "stop_timer_lost", "check_status", "cancel",
           "wait", "store", "finally", "returned", "done"}

TypeOK ==
  /\ pc \in [Thread -> Places]
  /\ why \in [Thread -> Reasons \cup {None}]
  /\ capped \in Reasons \cup {None}
  /\ logged \in Seq(Reasons)
  /\ total \in Nat /\ turns \in 0..events /\ streamed \in Nat
  /\ waited \in Nat /\ cancels \in Nat /\ events \in Nat
  /\ status \in {"created", "running", "stopped"}

\* "First caller wins": once there is a reason it is the reason.
FirstReasonWins == [][(capped # None) => (capped' = capped)]_vars

\* The two harms cap_lock is there to prevent, "a log/state mismatch and
\* double-cancel": one reason is logged, the recorded one, and run.cancel()
\* is called at most once, for that reason.
OneCancellation ==
  /\ cancels <= 1
  /\ cancels = 1 => logged = <<capped>>
  /\ logged # <<>> => logged = <<capped>>

\* The reported totals explain the reported reason.
ReasonJustified ==
  /\ capped = "token_cap" => total >= TokenCap
  /\ capped = "turn_cap" => turns = TurnCap

\* "After a token-/turn-cap cancel, keep the stream's last usage": what
\* run.wait() says, however late the reason was claimed, changes nothing.
UsageKeptAfterCap ==
  [][(capped \in {"token_cap", "turn_cap"}) => (total' = total /\ turns' = turns)]_vars

\* No exit, exceptions included, leaves a timer that could still fire, and
\* none is made with the turn cap reached and no reason recorded.
CleanReturn ==
  pc.main = "returned" =>
    /\ pc.timer # "waiting"
    /\ TurnCap > 0 /\ turns >= TurnCap => capped # None

\* However silent the run and whichever thread gives up on it, the caller
\* gets its result.
Returns == <>(pc.main = "returned")
=============================================================================
