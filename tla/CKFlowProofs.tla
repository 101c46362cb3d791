---------------------------- MODULE CKFlowProofs ----------------------------
(***************************************************************************)
(* The time bounds of the consumer-key flow for every value of its         *)
(* intervals and timeouts, and whenever the user validates or cancels.     *)
(***************************************************************************)
EXTENDS CKFlow, TLAPS

\* What each step may still add to the clock.
Bounded ==
    /\ step \in {"ask", "askAgain", "post", "open"} => now = 0
    /\ step = "time" => now <= FlowTimeout + MaxPollInterval /\ now <= cancelAt
    /\ step = "me" => /\ now <= FlowTimeout + MaxPollInterval + DefaultTimeout
                      /\ now <= cancelAt + DefaultTimeout
    /\ step = "failed" => now <= cancelAt + 2 * DefaultTimeout

\* A refusal is at most one timeout old when the deadline is looked at.
Refusal ==
    /\ step = "failed" /\ refused => validAt + DefaultTimeout > now
    /\ step # "done" => result = "none"

FlowInv == TypeOK /\ Bounded /\ Overrun /\ Refusal /\ ValidationSeen

LEMMA FlowConstants ==
    /\ PollInterval \in Nat /\ FlowTimeout \in Nat
    /\ CallTimeout \in Nat /\ DefaultTimeout \in Nat
    /\ MaxPollInterval \in Nat /\ PollInterval <= MaxPollInterval
    /\ PollInterval > 0 /\ DefaultTimeout > 0
    /\ \A d \in Durations : d \in Nat
    /\ \A t \in CancelTimes \cup ValidTimes : t \in Nat
<1>1. \A x \in {PollInterval, FlowTimeout, CallTimeout, DefaultTimeout} : x \in Nat /\ x > 0
  BY FlowAssumption
<1>2. QED
  BY <1>1, FlowAssumption

LEMMA FlowInit == Init => FlowInv
<1> SUFFICES ASSUME Init PROVE FlowInv
  OBVIOUS
<1> USE FlowConstants DEF Init
<1>1. delay \in PollInterval..MaxPollInterval
  OBVIOUS
<1>2. TypeOK
  BY <1>1 DEF TypeOK
<1>3. Bounded /\ Overrun
  BY DEF Bounded, Overrun
<1>4. Refusal /\ ValidationSeen
  BY DEF Refusal, ValidationSeen
<1>5. QED
  BY <1>2, <1>3, <1>4 DEF FlowInv

\* A request takes no longer than go-ovh's timeout.
LEMMA RequestEnds ==
    ASSUME NEW d \in Durations \cup {DefaultTimeout}, Request(d)
    PROVE  d \in Nat /\ d <= DefaultTimeout /\ now' = now + d /\ limit' = DefaultTimeout
  BY FlowConstants DEF Request

\* The control of the flow and the type of what does not count time.
LEMMA FlowTypes == TypeOK /\ [Next]_vars => TypeOK'
<1> SUFFICES ASSUME TypeOK, [Next]_vars PROVE TypeOK'
  OBVIOUS
<1> USE FlowConstants DEF TypeOK, Goto, Finish, clock, poll
<1>1. CASE Ask \/ Post \/ Open
  BY <1>1 DEF Ask, Post, Open
<1>2. CASE AuthTime
  <2>1. now' \in Nat /\ limit' = DefaultTimeout
    BY <1>2, RequestEnds DEF AuthTime
  <2>2. step' \in {"me", "failed"} /\ delta' \in BOOLEAN /\ refused' = FALSE
    BY <1>2 DEF AuthTime
  <2>3. UNCHANGED <<result, cancelAt, validAt, delay>>
    BY <1>2 DEF AuthTime
  <2>4. QED
    BY <2>1, <2>2, <2>3
<1>3. CASE Me
  <2>1. now' \in Nat /\ limit' = DefaultTimeout
    BY <1>3, RequestEnds DEF Me
  <2>2. /\ step' \in {"done", "failed"} /\ result' \in {result, "ok"}
        /\ refused' \in BOOLEAN
    BY <1>3 DEF Me
  <2>3. UNCHANGED <<cancelAt, validAt, delay, delta>>
    BY <1>3 DEF Me
  <2>4. QED
    BY <2>1, <2>2, <2>3
<1>4. CASE Sleep
  <2>1. CASE TimedOut \/ Cancelled
    <3>1. now' \in Nat
      BY <2>1 DEF TimedOut, Cancelled
    <3>2. QED
      BY <1>4, <2>1, <3>1 DEF Sleep, TimedOut, Cancelled
  <2>2. CASE Elapsed
    <3>1. now' \in Nat /\ delay' \in PollInterval..MaxPollInterval
      BY <2>2 DEF Elapsed, Again
    <3>2. step' \in {"me", "time"} /\ UNCHANGED <<result, limit, delta, refused>>
      BY <2>2 DEF Elapsed, Again
    <3>3. QED
      BY <1>4, <3>1, <3>2 DEF Sleep
  <2>3. QED
    BY <1>4, <2>1, <2>2 DEF Sleep
<1> QED
  <2> UNCHANGED vars => TypeOK'
    BY DEF vars
  <2> QED BY <1>1, <1>2, <1>3, <1>4 DEF Next, Poll

\* A step keeps the bounds on the clock, and what a refusal says of the user.
LEMMA FlowStep == FlowInv /\ [Next]_vars => FlowInv'
<1> SUFFICES ASSUME FlowInv, [Next]_vars PROVE FlowInv'
  OBVIOUS
<1> DEFINE Clocked == Bounded /\ Overrun
           Heard   == Refusal /\ ValidationSeen
<1> USE FlowConstants DEF FlowInv, TypeOK, Goto, Finish, clock
<1>1. (UNCHANGED vars) \/ Ask \/ Post \/ Open \/ AuthTime \/ Me \/ Sleep
  BY DEF Next, Poll
<1>2. UNCHANGED vars => Clocked' /\ Heard'
  <2>1. UNCHANGED vars => Clocked'
    BY DEF vars, Bounded, Overrun
  <2>2. UNCHANGED vars => Heard'
    BY DEF vars, Refusal, ValidationSeen, poll
  <2> QED BY <2>1, <2>2
<1>3. Ask \/ Post \/ Open => Clocked' /\ Heard'
  <2>1. Ask \/ Post \/ Open => Clocked'
    BY DEF Ask, Post, Open, Bounded, Overrun
  <2>2. Ask \/ Post \/ Open => Heard'
    BY DEF Ask, Post, Open, Refusal, ValidationSeen, poll
  <2> QED BY <2>1, <2>2
<1>4. AuthTime => Clocked' /\ Heard'
  <2>1. AuthTime => Clocked'
    BY RequestEnds DEF AuthTime, Bounded, Overrun
  <2>2. AuthTime => Heard'
    BY DEF AuthTime, Refusal, ValidationSeen, poll
  <2> QED BY <2>1, <2>2
<1>5. Me => Clocked' /\ Heard'
  <2>1. Me => Clocked'
    BY RequestEnds DEF Me, Bounded, Overrun
  <2>2. Me => Heard'
    BY RequestEnds DEF Me, Refusal, ValidationSeen, poll
  <2> QED BY <2>1, <2>2
<1>6. Sleep => Clocked' /\ Heard'
  <2>1. Sleep => Clocked'
    BY DEF Sleep, TimedOut, Cancelled, Elapsed, Again, Bounded, Overrun
  <2>2. Sleep => Heard'
    BY DEF Sleep, TimedOut, Cancelled, Elapsed, Again, Refusal, ValidationSeen, poll
  <2> QED BY <2>1, <2>2
<1>7. TypeOK'
  BY FlowTypes DEF FlowInv
<1> QED
  BY <1>1, <1>2, <1>3, <1>4, <1>5, <1>6, <1>7 DEF FlowInv

\* The clock, the delay and the step stay in their types: the doubling delay
\* between PollInterval and MaxPollInterval. (flow.go:171-181)
THEOREM FlowTypeCorrect == Spec => []TypeOK
<1>1. FlowInv => TypeOK
  BY DEF FlowInv
<1>2. QED
  BY FlowInit, FlowStep, <1>1, PTL DEF Spec

\* The flow never outlasts its deadline by more than one wait and two requests.
\* (flow.go:183-207)
THEOREM FlowBounded == Spec => []Overrun
<1>1. FlowInv => Overrun
  BY DEF FlowInv
<1>2. QED
  BY FlowInit, FlowStep, <1>1, PTL DEF Spec

\* A cancelled flow is over within two requests, wherever the cancellation finds
\* it once it polls. (flow.go:187, 196-199)
THEOREM FlowCancelled == Spec => []CancelSeen
<1>1. FlowInv => CancelSeen
  BY FlowConstants DEF FlowInv, TypeOK, Bounded, CancelSeen
<1>2. QED
  BY FlowInit, FlowStep, <1>1, PTL DEF Spec

\* A timeout after a refusal overlooks no validation but one in the last request's
\* timeout before the deadline. (flow.go:187-206)
THEOREM FlowSeesValidation == Spec => []ValidationSeen
<1>1. FlowInv => ValidationSeen
  BY DEF FlowInv
<1>2. QED
  BY FlowInit, FlowStep, <1>1, PTL DEF Spec
=============================================================================
