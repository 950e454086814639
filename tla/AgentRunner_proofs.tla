------------------------- MODULE AgentRunner_proofs -------------------------
(***************************************************************************)
(* The safety of run_language_agent (AgentRunner), for every cap and every *)
(* bound: one cancellation, for one reason, that the reported usage        *)
(* explains, and no armed timer left behind.                               *)
(***************************************************************************)
EXTENDS AgentRunner, SequenceTheorems, TLAPS

\* The thread that won _claim_cap, until it has called run.cancel().
Owner(t) == pc[t] \in {"log", "stop_timer_won", "check_status", "cancel"}

ByMain == {"token_cap", "turn_cap"}

\* Who may be where.
InvPlaces ==
  /\ pc.timer \in {"not_started", "waiting", "stopped", "claim", "log",
                   "check_status", "cancel", "done"}
  /\ why.timer = "wall_clock_timeout"
  /\ pc.main \in {"claim", "log"} => why.main \in ByMain
  /\ pc.main = "send" => pc.timer = "not_started"
  /\ pc.main = "returned" => pc.timer # "waiting"

\* There is a reason exactly from the moment some thread owns it, and one
\* thread at most is between claiming the reason and cancelling the run.
InvOwner ==
  /\ capped = None => /\ \A t \in Thread : ~Owner(t)
                      /\ cancels = 0 /\ logged = <<>>
  /\ ~(Owner("main") /\ Owner("timer"))
  /\ \A t \in Thread : Owner(t) => cancels = 0
  /\ \A t \in Thread : pc[t] = "log" => why[t] = capped /\ logged = <<>>
  /\ \A t \in Thread : Owner(t) /\ pc[t] # "log" => logged = <<capped>>

\* What main has read agrees with what it claims.
InvReason ==
  /\ capped \in ByMain => pc.main \notin {"send", "read", "claim", "store"}
  /\ pc.main = "claim" /\ why.main = "token_cap" => total >= TokenCap
  /\ pc.main = "claim" /\ why.main = "turn_cap" => turns = TurnCap
  /\ pc.main \in {"send", "read"} /\ TurnCap > 0 => turns < TurnCap
  /\ pc.main # "claim" /\ TurnCap > 0 /\ turns >= TurnCap => capped # None

IInv == /\ TypeOK /\ InvPlaces /\ InvOwner /\ InvReason
        /\ OneCancellation /\ ReasonJustified

-----------------------------------------------------------------------------
USE CapAssumption

LEMMA Singleton ==
  ASSUME NEW r \in Reasons
  PROVE  <<r>> \in Seq(Reasons) /\ Append(<<>>, r) = <<r>> /\ <<r>> # <<>>
OBVIOUS

LEMMA InitIInv == Init => IInv
<1> SUFFICES ASSUME Init PROVE IInv
  OBVIOUS
<1> USE DEF Init, result
<1>1. TypeOK
  BY DEF TypeOK, Thread, Places, Reasons, None
<1>2. InvPlaces
  BY DEF InvPlaces
<1>3. InvOwner
  BY DEF InvOwner, Owner, Thread, None
<1>4. InvReason
  BY DEF InvReason, ByMain, None
<1>5. OneCancellation /\ ReasonJustified
  BY DEF OneCancellation, ReasonJustified, None
<1> QED BY <1>1, <1>2, <1>3, <1>4, <1>5 DEF IInv

LEMMA NextIInv == IInv /\ [Next]_vars => IInv'
<1> SUFFICES ASSUME IInv, [Next]_vars PROVE IInv'
  OBVIOUS
<1> USE DEF IInv
<1>1. CASE UNCHANGED vars
  BY <1>1 DEF vars, result, TypeOK, InvPlaces, InvOwner, Owner, InvReason, ByMain,
              OneCancellation, ReasonJustified
<1>2. CASE Send
  BY <1>2 DEF Send, result, TypeOK, InvPlaces, InvOwner, Owner, InvReason, ByMain,
              OneCancellation, ReasonJustified, Thread, Places, Reasons, None
<1>3. CASE DispatchError
  BY <1>3 DEF DispatchError, Goto, result, TypeOK, InvPlaces, InvOwner, Owner, InvReason,
              ByMain, OneCancellation, ReasonJustified, Thread, Places, Reasons, None
<1>4. ASSUME NEW d \in 0..2, ReadDelta(d) PROVE IInv'
  <2>1. /\ total' \in Nat /\ streamed' \in Nat /\ events' \in Nat /\ turns' \in 0..events'
        /\ (Trip("token_cap") /\ total' >= TokenCap) \/ Continue
    BY <1>4 DEF ReadDelta, Event, TypeOK
  <2>2. pc.main = "read" /\ UNCHANGED <<logged, capped, turns, waited, status, cancels>>
    BY <1>4 DEF ReadDelta, Event
  <2>3. TypeOK'
    BY <2>1, <2>2 DEF TypeOK, Trip, Continue, Goto, Thread, Places, Reasons, None
  <2>4. InvPlaces'
    BY <2>1, <2>2 DEF TypeOK, InvPlaces, Trip, Continue, Goto, ByMain, Thread, Places
  <2>5. InvOwner'
    BY <2>1, <2>2 DEF TypeOK, InvOwner, Owner, Trip, Continue, Goto, Thread, Places
  <2>6. InvReason' /\ ReasonJustified'
    BY <2>1, <2>2
       DEF TypeOK, InvReason, ReasonJustified, ByMain, Trip, Continue, Goto, Thread, Places, None
  <2>7. OneCancellation'
    BY <2>2 DEF OneCancellation
  <2> QED BY <2>3, <2>4, <2>5, <2>6, <2>7
<1>5. ASSUME NEW u \in 0..MaxTokens, ReadUsage(u) PROVE IInv'
  <2> USE <1>5 DEF ReadUsage, Event
  <2>1. /\ total' \in Nat /\ streamed' \in Nat /\ events' \in Nat
        /\ turns' \in 0..events' /\ turns' = turns + 1
    BY DEF TypeOK
  <2>2. \/ Trip("token_cap") /\ total' >= TokenCap
        \/ Trip("turn_cap") /\ turns' >= TurnCap /\ TurnCap > 0
        \/ Continue /\ (TurnCap > 0 => turns' < TurnCap)
    BY <2>1 DEF TypeOK
  <2> HIDE <1>5 DEF ReadUsage
  <2>3. /\ pc.main = "read" /\ turns' = turns + 1 /\ turns \in Nat
        /\ UNCHANGED <<logged, capped, waited, status, cancels>>
    BY <1>5 DEF ReadUsage, Event, TypeOK
  <2> HIDE DEF Event
  <2>4. TypeOK'
    BY <2>1, <2>2, <2>3 DEF TypeOK, Trip, Continue, Goto, Thread, Places, Reasons, None
  <2>5. InvPlaces'
    BY <2>2, <2>3 DEF TypeOK, InvPlaces, Trip, Continue, Goto, ByMain, Thread, Places
  <2>6. InvOwner'
    BY <2>2, <2>3 DEF TypeOK, InvOwner, Owner, Trip, Continue, Goto, Thread, Places
  <2>7. InvReason' /\ ReasonJustified'
    BY <2>1, <2>2, <2>3
       DEF TypeOK, InvReason, ReasonJustified, ByMain, Trip, Continue, Goto, Thread, Places, None
  <2>8. OneCancellation'
    BY <2>3 DEF OneCancellation
  <2> QED BY <2>4, <2>5, <2>6, <2>7, <2>8
<1>6. CASE SdkError \/ EventsEnd
  BY <1>6 DEF SdkError, EventsEnd, Goto, result, TypeOK, InvPlaces, InvOwner, Owner, InvReason,
              ByMain, OneCancellation, ReasonJustified, Thread, Places, Reasons, None
<1>7. ASSUME NEW t \in Thread, ClaimCap(t) PROVE IInv'
  BY <1>7 DEF ClaimCap, Goto, TypeOK, InvPlaces, InvOwner, Owner,
              InvReason, ByMain, OneCancellation, ReasonJustified, Thread, Places, Reasons, None
<1>8. ASSUME NEW t \in Thread, LogCancelled(t) PROVE IInv'
  BY <1>8, Singleton DEF LogCancelled, Goto, result, TypeOK, InvPlaces, InvOwner, Owner,
              InvReason, ByMain, OneCancellation, ReasonJustified, Thread, Places, Reasons, None
<1>9. CASE StopTimer
  BY <1>9 DEF StopTimer, MainStopsTimer, result, TypeOK, InvPlaces, InvOwner, Owner, InvReason,
              ByMain, OneCancellation, ReasonJustified, Thread, Places, Reasons, None
<1>10. ASSUME NEW t \in Thread, CheckStatus(t) PROVE IInv'
  BY <1>10 DEF CheckStatus, After, Goto, result, TypeOK, InvPlaces, InvOwner, Owner,
              InvReason, ByMain, OneCancellation, ReasonJustified, Thread, Places, Reasons, None
<1>11. ASSUME NEW t \in Thread, CancelRun(t) PROVE IInv'
  BY <1>11 DEF CancelRun, After, Raised, Goto, result, TypeOK, InvPlaces, InvOwner, Owner,
              InvReason, ByMain, OneCancellation, ReasonJustified, Thread, Places, Reasons, None
<1>12. CASE Wait
  BY <1>12 DEF Wait, Goto, result, TypeOK, InvPlaces, InvOwner, Owner, InvReason,
              ByMain, OneCancellation, ReasonJustified, Thread, Places, Reasons, None
<1>13. CASE StoreUsage
  BY <1>13 DEF StoreUsage, Goto, TypeOK, InvPlaces, InvOwner, Owner, InvReason,
              ByMain, OneCancellation, ReasonJustified, Thread, Places, Reasons, None
<1>14. CASE Finally
  BY <1>14 DEF Finally, MainStopsTimer, result, TypeOK, InvPlaces, InvOwner, Owner, InvReason,
              ByMain, OneCancellation, ReasonJustified, Thread, Places, Reasons, None
<1>15. CASE TimerFires
  BY <1>15 DEF TimerFires, Goto, result, TypeOK, InvPlaces, InvOwner, Owner, InvReason,
              ByMain, OneCancellation, ReasonJustified, Thread, Places, Reasons, None
<1>16. CASE RunStops
  BY <1>16 DEF RunStops, result, TypeOK, InvPlaces, InvOwner, Owner, InvReason,
              ByMain, OneCancellation, ReasonJustified
<1> QED
  BY <1>1, <1>2, <1>3, <1>4, <1>5, <1>6, <1>7, <1>8, <1>9, <1>10, <1>11, <1>12, <1>13,
     <1>14, <1>15, <1>16 DEF Next, Reading, MainStep, Cancelling, Thread

LEMMA Inductive == Spec => []IInv
BY InitIInv, NextIInv, PTL DEF Spec

-----------------------------------------------------------------------------
\* Whatever the order in which the event loop and the timer thread run, every
\* field of the result and of the machine has its type.
THEOREM TypeCorrect == Spec => []TypeOK
<1>1. IInv => TypeOK
  BY DEF IInv
<1> QED BY <1>1, Inductive, PTL

\* run.cancel() is called at most once, for the one reason that is recorded
\* and logged: what cap_lock is for (_claim_cap).
THEOREM SingleCancellation == Spec => []OneCancellation
<1>1. IInv => OneCancellation
  BY DEF IInv
<1> QED BY <1>1, Inductive, PTL

\* A token or turn cap is reported only with a usage that reaches it.
THEOREM JustifiedReason == Spec => []ReasonJustified
<1>1. IInv => ReasonJustified
  BY DEF IInv
<1> QED BY <1>1, Inductive, PTL

\* Every way out of run_language_agent disarms the timer, and none forgets a
\* turn cap that was reached.
THEOREM CleanExit == Spec => []CleanReturn
<1>1. IInv => CleanReturn
  BY DEF IInv, InvPlaces, InvReason, CleanReturn, TypeOK
<1> QED BY <1>1, Inductive, PTL

\* The reason, once claimed under cap_lock, is final.
THEOREM FinalReason == Spec => FirstReasonWins
<1>1. IInv /\ [Next]_vars => [(capped # None) => (capped' = capped)]_vars
  BY DEF Next, vars, result, Send, DispatchError, Reading, ReadDelta, ReadUsage, Event,
         SdkError, EventsEnd, MainStep, Cancelling, ClaimCap, LogCancelled, StopTimer,
         CheckStatus, CancelRun, Wait, StoreUsage, Finally, TimerFires, RunStops
<1> QED BY <1>1, Inductive, PTL DEF Spec, FirstReasonWins

\* After a token or turn cap the usage read from the stream is kept, whatever
\* run.wait() answers.
THEOREM KeptUsage == Spec => UsageKeptAfterCap
<1> DEFINE Kept == (capped \in {"token_cap", "turn_cap"}) => (total' = total /\ turns' = turns)
<1>1. IInv /\ [Next]_vars => [Kept]_vars
  BY DEF IInv, InvReason, ByMain, Next, vars, result, Send, DispatchError, Reading, ReadDelta,
         ReadUsage, Event, SdkError, EventsEnd, MainStep, Cancelling, ClaimCap, LogCancelled,
         StopTimer, CheckStatus, CancelRun, Wait, StoreUsage, Finally, TimerFires, RunStops
<1> QED BY <1>1, Inductive, PTL DEF Spec, UsageKeptAfterCap
=============================================================================
