--------------------------- MODULE LoopbackProofs ---------------------------
(***************************************************************************)
(* For any number of connections and of concurrent calls to Wait and to    *)
(* Close: a callback's result is never lost or repeated once it is in the  *)
(* channel, and a Close that returned nil from Shutdown leaves no open     *)
(* connection behind.                                                      *)
(***************************************************************************)
EXTENDS Loopback, TLAPS

\* A callback is sent by its own handler, once; what is in the channel was sent;
\* a Wait still in its select holds no result that a receive would overwrite.
SentOnce ==
    /\ \A c \in sent : hpc[c] \in {"replying", "over"}
    /\ slot # None => slot \in sent
    /\ \A w \in Waiters : wpc[w] \in {"none", "select"} => got[w] = None

\* The listener is closed by the call that closeOnce lets in, before anything
\* else; closeOnce lets in one.
ClosedFirst ==
    /\ listening <=> once = "free"
    /\ \A x \in Closers : cpc[x] = "ok" => once = "done"
    /\ \A x, y \in Closers : cpc[x] = "shutdown" /\ cpc[y] = "shutdown" => x = y

\* Inductive by itself, and the ground of the other two inductions.
OnceInv == TypeOK /\ ClosedFirst

LEMMA OnceInit == Init => OnceInv
  BY DEF Init, OnceInv, TypeOK, ClosedFirst

LEMMA OnceStep == OnceInv /\ [Next]_vars => OnceInv'
<1> SUFFICES ASSUME OnceInv, [Next]_vars PROVE OnceInv'
  OBVIOUS
<1> USE DEF OnceInv, TypeOK, ClosedFirst, waits, closes
<1>1. ASSUME NEW c \in Callbacks, Accept(c) \/ Handle(c) PROVE OnceInv'
  BY <1>1 DEF Accept, Handle, Begin, HeaderTimeout, Send, Reply, Step
<1>2. ASSUME NEW w \in Waiters, CallWait(w) \/ Select(w) \/ Fire(w) \/ Cancel(w)
      PROVE OnceInv'
  <2>1. CASE CallWait(w) \/ GiveUp(w)
    BY <2>1 DEF CallWait, GiveUp
  <2>2. CASE Receive(w)
    BY <2>2 DEF Receive
  <2>3. CASE Fire(w)
    BY <2>3 DEF Fire
  <2>4. CASE Cancel(w)
    BY <2>4 DEF Cancel
  <2>5. QED
    BY <1>2, <2>1, <2>2, <2>3, <2>4 DEF Select
<1>3. ASSUME NEW x \in Closers, CallClose(x) \/ Closing(x) PROVE OnceInv'
  <2>1. CASE CallClose(x)
    BY <2>1 DEF CallClose
  <2>2. CASE Shutdown(x)
    BY <2>2 DEF Shutdown
  <2>3. CASE Skip(x)
    BY <2>3 DEF Skip
  <2>4. CASE ShutdownDone(x)
    BY <2>4 DEF ShutdownDone
  <2>5. CASE ShutdownDeadline(x)
    BY <2>5 DEF ShutdownDeadline
  <2>6. QED
    BY <1>3, <2>1, <2>2, <2>3, <2>4, <2>5 DEF Closing
<1>4. CASE UNCHANGED vars
  BY <1>4 DEF vars
<1>5. QED
  BY <1>1, <1>2, <1>3, <1>4 DEF Next

\* The variables keep their types for any number of connections and calls, and
\* closeOnce is held exactly while one Close is in Shutdown. (oauth.go:124-133)
THEOREM LoopbackTypeCorrect == Spec => []TypeOK
<1>1. OnceInv => TypeOK
  BY DEF OnceInv
<1>2. QED
  BY OnceInit, OnceStep, <1>1, PTL DEF Spec

-----------------------------------------------------------------------------
LEMMA ConservedStep ==
    OnceInv /\ SentOnce /\ Conserved /\ [Next]_vars => (SentOnce /\ Conserved)'
<1> SUFFICES ASSUME OnceInv, SentOnce, Conserved, [Next]_vars
             PROVE (SentOnce /\ Conserved)'
  OBVIOUS
<1> USE LoopbackAssumption DEF OnceInv, TypeOK, SentOnce, Conserved, waits, closes
<1>1. ASSUME NEW c \in Callbacks, Accept(c) \/ Handle(c)
      PROVE (SentOnce /\ Conserved)'
  <2>1. CASE Accept(c) \/ Begin(c) \/ HeaderTimeout(c) \/ Reply(c)
    BY <2>1 DEF Accept, Begin, HeaderTimeout, Reply, Step
  <2>2. CASE Send(c)
    <3>1. c \notin sent
      BY <2>2 DEF Send, Step
    <3>2. CASE slot = None
      \* c was not sent: no call to Wait holds it.
      <4>1. \A w \in Waiters : got[w] # c
        BY <3>1
      <4>2. slot' = c /\ sent' = sent \cup {c} /\ got' = got /\ wpc' = wpc
        BY <2>2, <3>2 DEF Send
      <4>3. hpc' = [hpc EXCEPT ![c] = "replying"]
        BY <2>2 DEF Send, Step
      <4>4. SentOnce'
        BY <4>2, <4>3
      <4>5. \A d \in sent' : slot' = d \/ \E w \in Waiters : got'[w] = d
        BY <3>2, <4>2
      <4>6. QED
        BY <4>1, <4>2, <4>4, <4>5
    <3>3. CASE slot # None
      BY <2>2, <3>3 DEF Send, Step
    <3>4. QED
      BY <3>2, <3>3
  <2>3. QED
    BY <1>1, <2>1, <2>2 DEF Handle
<1>2. ASSUME NEW w \in Waiters, CallWait(w) \/ Select(w) \/ Fire(w) \/ Cancel(w)
      PROVE (SentOnce /\ Conserved)'
  <2>1. CASE CallWait(w) \/ GiveUp(w) \/ Fire(w) \/ Cancel(w)
    BY <2>1 DEF CallWait, GiveUp, Fire, Cancel
  <2>2. CASE Receive(w)
    \* The result leaves the channel for w, which held none.
    <3>1. slot \in sent /\ got[w] = None /\ \A v \in Waiters : got[v] # slot
      BY <2>2 DEF Receive
    <3>2. slot' = None /\ sent' = sent /\ hpc' = hpc /\ got' = [got EXCEPT ![w] = slot]
      BY <2>2 DEF Receive
    <3>3. SentOnce'
      BY <2>2, <3>2 DEF Receive
    <3>4. ASSUME NEW d \in sent PROVE \E v \in Waiters : got'[v] = d
      <4>1. CASE d = slot
        BY <3>2, <4>1
      <4>2. CASE d # slot
        <5>1. PICK v \in Waiters : got[v] = d
          BY <4>2
        <5>2. v # w
          BY <3>1, <5>1
        <5>3. QED
          BY <3>2, <5>1, <5>2
      <4>3. QED
        BY <4>1, <4>2
    <3>5. QED
      BY <3>1, <3>2, <3>3, <3>4
  <2>3. QED
    BY <1>2, <2>1, <2>2 DEF Select
<1>3. ASSUME NEW x \in Closers, CallClose(x) \/ Closing(x)
      PROVE (SentOnce /\ Conserved)'
  BY <1>3 DEF CallClose, Closing, Shutdown, Skip, ShutdownDone, ShutdownDeadline
<1>4. CASE UNCHANGED vars
  BY <1>4 DEF vars
<1>5. QED
  BY <1>1, <1>2, <1>3, <1>4 DEF Next

\* A result that went through the channel's send is unread in the channel or was
\* returned by exactly one Wait, whatever timeouts, cancellations, later
\* callbacks and Closes do. (oauth.go:114-121, 143-147)
THEOREM ResultConserved == Spec => []Conserved
<1>1. Init => SentOnce /\ Conserved
  BY LoopbackAssumption DEF Init, SentOnce, Conserved
<1>2. QED
  BY OnceInit, OnceStep, ConservedStep, <1>1, PTL DEF Spec

-----------------------------------------------------------------------------
LEMMA CloseStep == OnceInv /\ QuietAfterClose /\ [Next]_vars => QuietAfterClose'
<1> SUFFICES ASSUME OnceInv, QuietAfterClose, [Next]_vars PROVE QuietAfterClose'
  OBVIOUS
<1> USE DEF OnceInv, TypeOK, ClosedFirst, QuietAfterClose, waits, closes
<1>1. ASSUME NEW c \in Callbacks, Accept(c) \/ Handle(c) PROVE QuietAfterClose'
  BY <1>1 DEF Accept, Handle, Begin, HeaderTimeout, Send, Reply, Step
<1>2. ASSUME NEW w \in Waiters, CallWait(w) \/ Select(w) \/ Fire(w) \/ Cancel(w)
      PROVE QuietAfterClose'
  BY <1>2 DEF CallWait, Select, Receive, GiveUp, Fire, Cancel
<1>3. ASSUME NEW x \in Closers, CallClose(x) \/ Closing(x) PROVE QuietAfterClose'
  BY <1>3 DEF CallClose, Closing, Shutdown, Skip, ShutdownDone, ShutdownDeadline
<1>4. CASE UNCHANGED vars
  BY <1>4 DEF vars
<1>5. QED
  BY <1>1, <1>2, <1>3, <1>4 DEF Next

\* Once a Close has returned nil from Shutdown, no callback is accepted, handled
\* or answered any more. (oauth.go:125-133)
THEOREM CloseIsQuiet == Spec => []QuietAfterClose
<1>1. Init => QuietAfterClose
  BY DEF Init, QuietAfterClose
<1>2. QED
  BY OnceInit, OnceStep, CloseStep, <1>1, PTL DEF Spec
=============================================================================
