------------------------ MODULE PublishCaptureProofs ------------------------
(***************************************************************************)
(* Proofs about PublishCapture, for any number of threads and any bounds:  *)
(* the safety properties the run publish_capture checks.                   *)
(*                                                                         *)
(* Threads share nothing but the clock, so the invariant is a conjunction  *)
(* over threads, and a step of one thread leaves what it says of the       *)
(* others alone (OthersUntouched).                                         *)
(***************************************************************************)
EXTENDS PublishCapture, SequenceTheorems, TLAPS

\* What thread t still holds was captured by one of its calls, is as it was
\* captured, is not stamped, and nothing of it, or of a later call, was sent.
CaptureIsPending(t) ==
  lcm[t] # None =>
    /\ lcm[t].call \in 1 .. calls[t]
    /\ lcm[t].size = batch[t][lcm[t].call]
    /\ stamp[t][lcm[t].call] = 0
    /\ \A i \in 1 .. Len(sent[t]) : sent[t][i].call < lcm[t].call

\* While a publish waits for its timestamp, nothing of it was sent, and what
\* it was decoded to is in the thread-local.
PublishIsPending(t) ==
  pc[t] = "publishing" =>
    /\ calls[t] >= 1
    /\ stamp[t][calls[t]] = 0
    /\ \A i \in 1 .. Len(sent[t]) : sent[t][i].call < calls[t]
    /\ lcm[t].call # calls[t] => batch[t][calls[t]] = 0

\* Calls that were not made have left nothing.
FutureIsBlank(t) ==
  /\ \A i \in 1 .. Len(sent[t]) : sent[t][i].call <= calls[t]
  /\ \A c \in Calls : c > calls[t] => stamp[t][c] = 0 /\ batch[t][c] = 0

\* A stamped publish has emptied the thread-local; what is in it otherwise is
\* of the publish under way or of one that failed.
CaptureHasCause(t) ==
  /\ pc[t] = "stamped" => lcm[t] = None
  /\ lcm[t] # None =>
       lcm[t].call \in failed[t] \/ (pc[t] = "publishing" /\ lcm[t].call = calls[t])

\* The inductive invariant of one thread's captures.
CaptureInv(t) ==
  /\ CaptureIsPending(t)
  /\ PublishIsPending(t)
  /\ FutureIsBlank(t)
  /\ CaptureHasCause(t)

\* A thread inside rmw_publish has a current call.
HasCall(t) == pc[t] # "idle" => calls[t] \in Calls

\* TypeOK is inductive together with this.
TypeInv == TypeOK /\ \A t \in Threads : HasCall(t)

-----------------------------------------------------------------------------
(* What a clock reading does.                                               *)

\* The events a capture becomes: one for each part, in order, with one stamp.
LEMMA StampedFacts ==
  ASSUME NEW m \in [call : Calls, size : 0 .. MaxBatch],
         NEW at \in 1 .. MaxReads
  PROVE  /\ Stamped(m, at) \in Seq(PublishEvent)
         /\ Len(Stamped(m, at)) = m.size
         /\ \A i \in 1 .. m.size :
              Stamped(m, at)[i] = [call |-> m.call, part |-> i, at |-> at]
<1>1. m.size \in Nat /\ m.size <= MaxBatch /\ m.call \in Calls
  BY BoundsAssumption
<1>2. \A i \in 1 .. m.size :
        [call |-> m.call, part |-> i, at |-> at] \in PublishEvent
  BY <1>1, BoundsAssumption DEF PublishEvent
<1>3. Stamped(m, at) \in [1 .. m.size -> PublishEvent]
  BY <1>2 DEF Stamped
<1>4. Stamped(m, at) \in Seq(PublishEvent)
  BY <1>1, <1>3, SeqDef
<1>5. Len(Stamped(m, at)) = m.size
  BY <1>1, <1>3, <1>4, LenProperties
<1> QED BY <1>4, <1>5 DEF Stamped

\* A reading either leaves the thread-local and what was sent alone, or, at the
\* wall clock, sends what the thread-local holds and empties it.
LEMMA ReadingFacts ==
  ASSUME TypeOK, NEW t \in Threads, NEW id \in ClockIds, ClockGettime(t, id)
  PROVE  /\ time' \in 1 .. MaxReads /\ time' = time + 1
         /\ \/ /\ id # WallClock \/ lcm[t] = None
               /\ lcm' = lcm /\ sent' = sent
            \/ /\ id = WallClock /\ lcm[t] # None
               /\ lcm' = [lcm EXCEPT ![t] = None]
               /\ sent' = [sent EXCEPT ![t] = @ \o Stamped(lcm[t], time + 1)]
               /\ lcm[t] \in [call : Calls, size : 0 .. MaxBatch]
               /\ sent'[t] \in Seq(PublishEvent)
               /\ Len(sent'[t]) = Len(sent[t]) + lcm[t].size
               /\ \A i \in 1 .. Len(sent[t]) : sent'[t][i] = sent[t][i]
               /\ \A i \in 1 .. lcm[t].size :
                    sent'[t][Len(sent[t]) + i] =
                      [call |-> lcm[t].call, part |-> i, at |-> time + 1]
<1>1. time' \in 1 .. MaxReads /\ time' = time + 1
  BY BoundsAssumption DEF TypeOK, ClockGettime
<1>2. CASE id # WallClock \/ lcm[t] = None
  BY <1>1, <1>2 DEF ClockGettime
<1>3. CASE id = WallClock /\ lcm[t] # None
  <2> DEFINE m == lcm[t]
             s == Stamped(m, time + 1)
  <2>1. m \in [call : Calls, size : 0 .. MaxBatch]
    BY <1>3 DEF TypeOK
  <2>2. s \in Seq(PublishEvent) /\ Len(s) = m.size
        /\ \A i \in 1 .. m.size :
             s[i] = [call |-> m.call, part |-> i, at |-> time + 1]
    BY <1>1, <2>1, StampedFacts
  <2>3. sent[t] \in Seq(PublishEvent) /\ sent \in [Threads -> Seq(PublishEvent)]
    BY DEF TypeOK
  <2>4. /\ lcm' = [lcm EXCEPT ![t] = None]
        /\ sent' = [sent EXCEPT ![t] = @ \o s]
    BY <1>3 DEF ClockGettime
  <2>5. sent'[t] = sent[t] \o s
    BY <2>3, <2>4
  <2>6. /\ sent[t] \o s \in Seq(PublishEvent)
        /\ Len(sent[t] \o s) = Len(sent[t]) + Len(s)
        /\ \A i \in 1 .. Len(sent[t]) + Len(s) :
             (sent[t] \o s)[i] = IF i <= Len(sent[t]) THEN sent[t][i]
                                 ELSE s[i - Len(sent[t])]
    BY <2>2, <2>3, ConcatProperties
  <2>7. Len(sent[t]) \in Nat /\ m.size \in Nat
    BY <2>1, <2>3, LenProperties, BoundsAssumption
  <2>8. Len(s) = m.size
    BY <2>2
  <2> HIDE DEF s
  <2>9. ASSUME NEW i \in 1 .. Len(sent[t])
        PROVE  sent'[t][i] = sent[t][i]
    <3>1. i \in 1 .. Len(sent[t]) + Len(s) /\ i <= Len(sent[t])
      <4> HIDE DEF m
      <4> QED BY <2>7, <2>8
    <3> QED BY <2>5, <2>6, <3>1
  <2>10. ASSUME NEW i \in 1 .. m.size
         PROVE  sent'[t][Len(sent[t]) + i] = s[i]
    <3>1. /\ Len(sent[t]) + i \in 1 .. Len(sent[t]) + Len(s)
          /\ ~(Len(sent[t]) + i <= Len(sent[t]))
          /\ (Len(sent[t]) + i) - Len(sent[t]) = i
      <4> HIDE DEF m
      <4> QED BY <2>7, <2>8
    <3> QED BY <2>5, <2>6, <3>1
  <2> USE DEF s
  <2> QED BY <1>1, <1>3, <2>1, <2>2, <2>4, <2>5, <2>6, <2>9, <2>10
<1> QED BY <1>2, <1>3

\* When a wall-clock reading finds something, what was sent before stays, and
\* each new event is a part of what was found.
LEMMA FlushFacts ==
  ASSUME TypeOK, NEW t \in Threads, ClockGettime(t, WallClock), lcm[t] # None
  PROVE  /\ lcm'[t] = None
         /\ lcm[t].call \in Calls /\ lcm[t].call \in Nat /\ lcm[t].size \in Nat
         /\ Len(sent[t]) \in Nat
         /\ Len(sent'[t]) = Len(sent[t]) + lcm[t].size
         /\ \A i \in 1 .. Len(sent[t]) : sent'[t][i] = sent[t][i]
         /\ \A i \in 1 .. Len(sent'[t]) : i \notin 1 .. Len(sent[t]) =>
              /\ i - Len(sent[t]) \in 1 .. lcm[t].size
              /\ sent'[t][i].call = lcm[t].call
              /\ sent'[t][i].part = i - Len(sent[t])
              /\ sent'[t][i].at = time + 1
<1>1. /\ lcm' = [lcm EXCEPT ![t] = None]
      /\ lcm[t] \in [call : Calls, size : 0 .. MaxBatch]
      /\ Len(sent'[t]) = Len(sent[t]) + lcm[t].size
      /\ \A i \in 1 .. Len(sent[t]) : sent'[t][i] = sent[t][i]
      /\ \A i \in 1 .. lcm[t].size :
           sent'[t][Len(sent[t]) + i] =
             [call |-> lcm[t].call, part |-> i, at |-> time + 1]
  <2>1. WallClock \in ClockIds
    BY DEF ClockIds
  <2> QED BY <2>1, ReadingFacts
<1>2. lcm[t].call \in Calls /\ lcm[t].call \in Nat /\ lcm[t].size \in Nat
  BY <1>1, BoundsAssumption DEF Calls
<1>3. Len(sent[t]) \in Nat
  <2>1. sent[t] \in Seq(PublishEvent)
    BY DEF TypeOK
  <2> QED BY <2>1, LenProperties
<1>4. lcm'[t] = None
  BY <1>1 DEF TypeOK
<1>5. ASSUME NEW i \in 1 .. Len(sent'[t]), i \notin 1 .. Len(sent[t])
      PROVE  /\ i - Len(sent[t]) \in 1 .. lcm[t].size
             /\ sent'[t][i].call = lcm[t].call
             /\ sent'[t][i].part = i - Len(sent[t])
             /\ sent'[t][i].at = time + 1
  <2> DEFINE p == i - Len(sent[t])
  <2>1. Len(sent'[t]) = Len(sent[t]) + lcm[t].size
    BY <1>1
  <2>2. p \in 1 .. lcm[t].size /\ Len(sent[t]) + p = i
    BY <1>2, <1>3, <1>5, <2>1
  <2> HIDE DEF p
  <2>3. sent'[t][Len(sent[t]) + p] =
          [call |-> lcm[t].call, part |-> p, at |-> time + 1]
    BY <1>1, <2>2
  <2>4. /\ sent'[t][i].call = lcm[t].call
        /\ sent'[t][i].part = p
        /\ sent'[t][i].at = time + 1
    BY <2>2, <2>3
  <2> QED BY <2>2, <2>4 DEF p
<1>6. /\ Len(sent'[t]) = Len(sent[t]) + lcm[t].size
      /\ \A i \in 1 .. Len(sent[t]) : sent'[t][i] = sent[t][i]
  BY <1>1
<1> QED BY <1>2, <1>3, <1>4, <1>5, <1>6

-----------------------------------------------------------------------------
(* Types.                                                                   *)

\* A reading keeps the types of what it touches.
LEMMA ReadingType ==
  ASSUME TypeOK, NEW t \in Threads, NEW id \in ClockIds, ClockGettime(t, id)
  PROVE  /\ time' \in 1 .. MaxReads
         /\ lcm' \in [Threads -> {None} \cup [call : Calls, size : 0 .. MaxBatch]]
         /\ sent' \in [Threads -> Seq(PublishEvent)]
<1>1. /\ time' \in 1 .. MaxReads
      /\ \/ lcm' = lcm /\ sent' = sent
         \/ /\ lcm' = [lcm EXCEPT ![t] = None]
            /\ sent' = [sent EXCEPT ![t] = sent'[t]]
            /\ sent'[t] \in Seq(PublishEvent)
  <2>1. sent \in [Threads -> Seq(PublishEvent)]
    BY DEF TypeOK
  <2>2. CASE id # WallClock \/ lcm[t] = None
    BY <2>2, ReadingFacts
  <2>3. CASE id = WallClock /\ lcm[t] # None
    BY <2>1, <2>3, ReadingFacts
  <2> QED BY <2>2, <2>3
<1>2. /\ lcm \in [Threads -> {None} \cup [call : Calls, size : 0 .. MaxBatch]]
      /\ sent \in [Threads -> Seq(PublishEvent)]
  BY DEF TypeOK
<1>3. CASE lcm' = lcm /\ sent' = sent
  BY <1>1, <1>2, <1>3
<1>4. CASE /\ lcm' = [lcm EXCEPT ![t] = None]
           /\ sent' = [sent EXCEPT ![t] = sent'[t]]
           /\ sent'[t] \in Seq(PublishEvent)
  BY <1>1, <1>2, <1>4
<1> QED BY <1>1, <1>3, <1>4

\* One step keeps the types: one case per action.
LEMMA TypeStep == TypeInv /\ [Next]_vars => TypeInv'
<1> SUFFICES ASSUME TypeInv, [Next]_vars PROVE TypeInv'
  OBVIOUS
<1> USE BoundsAssumption
<1>0. /\ TypeOK
      /\ pc \in [Threads -> {"idle", "publishing", "stamped"}]
      /\ calls \in [Threads -> 0 .. MaxCalls]
      /\ time \in 0 .. MaxReads
      /\ stamp \in [Threads -> [Calls -> 0 .. MaxReads]]
      /\ batch \in [Threads -> [Calls -> 0 .. MaxBatch]]
      /\ failed \in [Threads -> SUBSET Calls]
  BY DEF TypeInv, TypeOK
<1>1. ASSUME NEW t \in Threads, NEW n \in 0 .. MaxBatch, BeforePublish(t, n)
      PROVE  TypeInv'
  <2>1. calls[t] + 1 \in Calls
    BY <1>0, <1>1 DEF BeforePublish, StartCall, Calls
  <2>2. Captured(calls[t] + 1, n) \in [call : Calls, size : 0 .. MaxBatch]
    BY <2>1 DEF Captured
  <2>3. lcm' \in [Threads -> {None} \cup [call : Calls, size : 0 .. MaxBatch]]
    BY <1>1, <2>2 DEF BeforePublish, TypeInv, TypeOK
  <2>4. batch' \in [Threads -> [Calls -> 0 .. MaxBatch]]
    BY <1>0, <1>1, <2>1 DEF BeforePublish
  <2>5. /\ calls' \in [Threads -> 0 .. MaxCalls]
        /\ pc' \in [Threads -> {"idle", "publishing", "stamped"}]
        /\ calls'[t] \in Calls
        /\ \A u \in Threads : u # t => calls'[u] = calls[u] /\ pc'[u] = pc[u]
    BY <1>0, <1>1, <2>1 DEF BeforePublish, StartCall, Calls
  <2> QED BY <1>1, <2>3, <2>4, <2>5 DEF BeforePublish, TypeInv, TypeOK, HasCall
<1>2. ASSUME NEW t \in Threads, BeforePublishUntracked(t)
      PROVE  TypeInv'
  <2>1. calls[t] + 1 \in Calls
    BY <1>0, <1>2 DEF BeforePublishUntracked, StartCall, Calls
  <2>2. /\ calls' \in [Threads -> 0 .. MaxCalls]
        /\ pc' \in [Threads -> {"idle", "publishing", "stamped"}]
        /\ calls'[t] \in Calls
        /\ \A u \in Threads : u # t => calls'[u] = calls[u] /\ pc'[u] = pc[u]
    BY <1>0, <1>2, <2>1 DEF BeforePublishUntracked, StartCall, Calls
  <2> QED BY <1>2, <2>2 DEF BeforePublishUntracked, TypeInv, TypeOK, HasCall
<1>3. ASSUME NEW t \in Threads, NEW id \in ClockIds, ClockGettime(t, id),
             UNCHANGED <<pc, calls, batch, stamp, failed>>
      PROVE  TypeInv'
  BY <1>0, <1>3, ReadingType DEF TypeInv, TypeOK, HasCall
<1>4. ASSUME NEW t \in Threads, TakeStamp(t)
      PROVE  TypeInv'
  <2>1. /\ time' \in 1 .. MaxReads
        /\ lcm' \in [Threads -> {None} \cup [call : Calls, size : 0 .. MaxBatch]]
        /\ sent' \in [Threads -> Seq(PublishEvent)]
    BY <1>0, <1>4, ReadingType DEF TakeStamp, ClockIds
  <2>2. calls[t] \in Calls /\ time + 1 \in 0 .. MaxReads
    BY <1>0, <1>4 DEF TakeStamp, ClockGettime, TypeInv, HasCall
  <2>3. stamp' \in [Threads -> [Calls -> 0 .. MaxReads]]
    BY <1>0, <1>4, <2>2 DEF TakeStamp
  <2>4. pc' \in [Threads -> {"idle", "publishing", "stamped"}]
    BY <1>0, <1>4 DEF TakeStamp
  <2>5. ASSUME NEW u \in Threads PROVE HasCall(u)'
    BY <1>0, <1>4, <2>2 DEF TakeStamp, TypeInv, HasCall
  <2> QED BY <1>0, <1>4, <2>1, <2>3, <2>4, <2>5 DEF TakeStamp, TypeInv, TypeOK
<1>5. ASSUME NEW t \in Threads, PublishOk(t)
      PROVE  TypeInv'
  <2>1. pc' \in [Threads -> {"idle", "publishing", "stamped"}]
    BY <1>0, <1>5 DEF PublishOk
  <2>2. ASSUME NEW u \in Threads PROVE HasCall(u)'
    BY <1>0, <1>5 DEF PublishOk, TypeInv, HasCall
  <2> QED BY <1>0, <1>5, <2>1, <2>2 DEF PublishOk, TypeInv, TypeOK
<1>6. ASSUME NEW t \in Threads, PublishFailed(t)
      PROVE  TypeInv'
  <2>1. pc' \in [Threads -> {"idle", "publishing", "stamped"}]
    BY <1>0, <1>6 DEF PublishFailed
  <2>2. calls[t] \in Calls
    BY <1>0, <1>6 DEF PublishFailed, TypeInv, HasCall
  <2>3. failed' \in [Threads -> SUBSET Calls]
    BY <1>0, <1>6, <2>2 DEF PublishFailed
  <2>4. ASSUME NEW u \in Threads PROVE HasCall(u)'
    BY <1>0, <1>6 DEF PublishFailed, TypeInv, HasCall
  <2> QED BY <1>0, <1>6, <2>1, <2>3, <2>4 DEF PublishFailed, TypeInv, TypeOK
<1>7. CASE UNCHANGED vars
  BY <1>7 DEF vars, TypeInv, TypeOK, HasCall
<1> QED
  BY <1>1, <1>2, <1>3, <1>4, <1>5, <1>6, <1>7
     DEF Next, ThreadStep, EarlyRead, LateRead, OtherRead, ClockIds

\* The initial states have the types.
LEMMA TypeInit == Init => TypeInv
<1> SUFFICES ASSUME Init PROVE TypeInv
  OBVIOUS
<1>1. /\ pc \in [Threads -> {"idle", "publishing", "stamped"}]
      /\ lcm \in [Threads -> {None} \cup [call : Calls, size : 0 .. MaxBatch]]
  BY DEF Init
<1>2. <<>> \in Seq(PublishEvent)
  BY EmptySeq
<1>3. sent \in [Threads -> Seq(PublishEvent)]
  BY <1>2 DEF Init
<1>4. /\ calls \in [Threads -> 0 .. MaxCalls]
      /\ time \in 0 .. MaxReads
      /\ batch \in [Threads -> [Calls -> 0 .. MaxBatch]]
      /\ stamp \in [Threads -> [Calls -> 0 .. MaxReads]]
  BY BoundsAssumption DEF Init
<1>5. failed \in [Threads -> SUBSET Calls]
  BY DEF Init
<1>6. \A t \in Threads : HasCall(t)
  BY DEF Init, HasCall
<1> QED BY <1>1, <1>3, <1>4, <1>5, <1>6 DEF TypeInv, TypeOK

\* Every behaviour keeps the types of PublishCapture's variables: what is sent
\* is a part of a message with a stamp, whatever the clock readings.
THEOREM TypeCorrect == Spec => []TypeOK
<1>1. TypeInv => TypeOK
  BY DEF TypeInv
<1> QED BY <1>1, TypeInit, TypeStep, PTL DEF Spec

-----------------------------------------------------------------------------
(* The invariant of the captures.                                           *)

\* A reading other than the transport's: it touches the thread-local and what
\* was sent, at most; in a publish before its timestamp it is not of the wall.
PlainReading(t, id) ==
  /\ ClockGettime(t, id)
  /\ pc[t] = "publishing" => id # WallClock
  /\ UNCHANGED <<pc, calls, batch, stamp, failed>>

\* What is known of thread u is as it was.
Untouched(u) ==
  /\ pc'[u] = pc[u] /\ calls'[u] = calls[u] /\ lcm'[u] = lcm[u]
  /\ sent'[u] = sent[u] /\ batch'[u] = batch[u] /\ stamp'[u] = stamp[u]
  /\ failed'[u] = failed[u]

\* The ways a thread can step, with all plain readings taken together.
LEMMA StepCases ==
  ASSUME NEW t \in Threads, ThreadStep(t)
  PROVE  \/ \E n \in 0 .. MaxBatch : BeforePublish(t, n)
         \/ BeforePublishUntracked(t)
         \/ \E id \in ClockIds : PlainReading(t, id)
         \/ TakeStamp(t)
         \/ PublishOk(t)
         \/ PublishFailed(t)
BY DEF ThreadStep, EarlyRead, LateRead, OtherRead, PlainReading, ClockIds,
       WallClock, OtherClock

\* A reading touches no other thread.
LEMMA ReadingUntouched ==
  ASSUME TypeOK, NEW t \in Threads, NEW u \in Threads \ {t}, NEW id \in ClockIds,
         ClockGettime(t, id)
  PROVE  lcm'[u] = lcm[u] /\ sent'[u] = sent[u]
BY DEF TypeOK, ClockGettime

\* A step of one thread leaves the others alone.
LEMMA OthersUntouched ==
  ASSUME TypeInv, NEW t \in Threads, NEW u \in Threads \ {t}, ThreadStep(t)
  PROVE  Untouched(u)
<1>0. /\ TypeOK
      /\ pc \in [Threads -> {"idle", "publishing", "stamped"}]
      /\ calls \in [Threads -> 0 .. MaxCalls]
      /\ lcm \in [Threads -> {None} \cup [call : Calls, size : 0 .. MaxBatch]]
      /\ stamp \in [Threads -> [Calls -> 0 .. MaxReads]]
      /\ batch \in [Threads -> [Calls -> 0 .. MaxBatch]]
      /\ failed \in [Threads -> SUBSET Calls]
  BY DEF TypeInv, TypeOK
<1>1. CASE \E n \in 0 .. MaxBatch : BeforePublish(t, n)
  BY <1>0, <1>1 DEF BeforePublish, StartCall, Untouched
<1>2. CASE BeforePublishUntracked(t)
  BY <1>0, <1>2 DEF BeforePublishUntracked, StartCall, Untouched
<1>3. CASE \E id \in ClockIds : PlainReading(t, id)
  BY <1>0, <1>3, ReadingUntouched DEF PlainReading, Untouched
<1>4. CASE TakeStamp(t)
  <2>1. lcm'[u] = lcm[u] /\ sent'[u] = sent[u]
    BY <1>0, <1>4, ReadingUntouched DEF TakeStamp, ClockIds
  <2> QED BY <1>0, <1>4, <2>1 DEF TakeStamp, Untouched
<1>5. CASE PublishOk(t)
  BY <1>0, <1>5 DEF PublishOk, Untouched
<1>6. CASE PublishFailed(t)
  BY <1>0, <1>6 DEF PublishFailed, Untouched
<1> QED BY <1>1, <1>2, <1>3, <1>4, <1>5, <1>6, StepCases

\* The types of what is known of one thread.
LEMMA ThreadType ==
  ASSUME TypeInv, NEW t \in Threads
  PROVE  /\ pc[t] \in {"idle", "publishing", "stamped"}
         /\ calls[t] \in 0 .. MaxCalls /\ calls[t] \in Nat
         /\ lcm[t] # None => /\ lcm[t] \in [call : Calls, size : 0 .. MaxBatch]
                             /\ lcm[t].call \in Nat
         /\ sent[t] \in Seq(PublishEvent) /\ Len(sent[t]) \in Nat
         /\ \A i \in 1 .. Len(sent[t]) :
              /\ sent[t][i] \in PublishEvent
              /\ sent[t][i].call \in Calls /\ sent[t][i].call \in Nat
              /\ sent[t][i].part \in Nat /\ sent[t][i].at \in Nat
         /\ batch[t] \in [Calls -> 0 .. MaxBatch]
         /\ stamp[t] \in [Calls -> 0 .. MaxReads]
         /\ pc[t] # "idle" => calls[t] \in Calls
<1>1. sent[t] \in Seq(PublishEvent)
  BY DEF TypeInv, TypeOK
<1>2. Len(sent[t]) \in Nat
  BY <1>1, LenProperties
<1>3. ASSUME NEW i \in 1 .. Len(sent[t])
      PROVE  /\ sent[t][i] \in PublishEvent
             /\ sent[t][i].call \in Calls /\ sent[t][i].call \in Nat
             /\ sent[t][i].part \in Nat /\ sent[t][i].at \in Nat
  <2>1. sent[t][i] \in PublishEvent
    BY <1>1, ElementOfSeq
  <2> QED BY <2>1, BoundsAssumption DEF PublishEvent, Calls
<1>4. lcm[t] # None => /\ lcm[t] \in [call : Calls, size : 0 .. MaxBatch]
                       /\ lcm[t].call \in Nat
  BY BoundsAssumption DEF TypeInv, TypeOK, Calls
<1>5. /\ pc[t] \in {"idle", "publishing", "stamped"}
      /\ calls[t] \in 0 .. MaxCalls
      /\ batch[t] \in [Calls -> 0 .. MaxBatch]
      /\ stamp[t] \in [Calls -> 0 .. MaxReads]
      /\ pc[t] # "idle" => calls[t] \in Calls
  BY DEF TypeInv, TypeOK, HasCall
<1> QED BY <1>1, <1>2, <1>3, <1>4, <1>5, BoundsAssumption

\* A step of t keeps what the invariant says of t.
LEMMA OwnCaptureStep ==
  ASSUME TypeInv, NEW t \in Threads, CaptureInv(t), ThreadStep(t)
  PROVE  CaptureInv(t)'
<1> DEFINE n0 == Len(sent[t])
<1>0. /\ TypeOK
      /\ pc \in [Threads -> {"idle", "publishing", "stamped"}]
      /\ calls \in [Threads -> 0 .. MaxCalls]
      /\ lcm \in [Threads -> {None} \cup [call : Calls, size : 0 .. MaxBatch]]
      /\ stamp \in [Threads -> [Calls -> 0 .. MaxReads]]
      /\ batch \in [Threads -> [Calls -> 0 .. MaxBatch]]
      /\ failed \in [Threads -> SUBSET Calls]
      /\ MaxCalls \in Nat
  BY BoundsAssumption DEF TypeInv, TypeOK
<1>t. /\ calls[t] \in Nat /\ n0 \in Nat
      /\ lcm[t] # None => lcm[t].call \in Nat
      /\ \A i \in 1 .. n0 : sent[t][i].call \in Nat
  BY ThreadType
<1>i. /\ CaptureIsPending(t) /\ PublishIsPending(t)
      /\ FutureIsBlank(t) /\ CaptureHasCause(t)
  BY DEF CaptureInv
<1>1. ASSUME NEW n \in 0 .. MaxBatch, BeforePublish(t, n)
      PROVE  CaptureInv(t)'
  <2> DEFINE c0 == calls[t] + 1
  <2>1. /\ c0 \in Calls /\ c0 \in Nat /\ c0 > calls[t]
        /\ calls'[t] = c0 /\ pc'[t] = "publishing"
        /\ lcm'[t] = Captured(c0, n)
        /\ sent' = sent /\ stamp' = stamp /\ failed' = failed
        /\ batch'[t] = [batch[t] EXCEPT ![c0] = n]
    BY <1>0, <1>1 DEF BeforePublish, StartCall, Calls
  <2>2. /\ lcm'[t].call = c0 /\ lcm'[t].size = n
        /\ batch'[t][c0] = n
        /\ \A c \in Calls : c # c0 => batch'[t][c] = batch[t][c]
    BY <1>0, <2>1 DEF Captured
  <2>3. \A i \in 1 .. n0 : sent[t][i].call < c0
    BY <1>t, <1>i, <2>1 DEF FutureIsBlank
  <2>4. stamp[t][c0] = 0
    BY <1>i, <2>1 DEF FutureIsBlank
  <2>11. c0 \in 1 .. c0 /\ c0 >= 1
    BY <1>t, <2>1
  <2> HIDE DEF c0
  <2>5. CaptureIsPending(t)'
    BY <2>1, <2>2, <2>3, <2>4, <2>11 DEF CaptureIsPending
  <2>6. PublishIsPending(t)'
    BY <2>1, <2>2, <2>3, <2>4, <2>11 DEF PublishIsPending
  <2>7. \A i \in 1 .. n0 : sent[t][i].call <= c0
    BY <1>t, <2>1, <2>3
  <2>8. ASSUME NEW c \in Calls, c > c0
        PROVE  stamp[t][c] = 0 /\ batch'[t][c] = 0
    <3>1. c > calls[t] /\ c # c0
      BY <1>0, <1>t, <2>1, <2>8 DEF Calls
    <3> QED BY <1>i, <2>2, <3>1 DEF FutureIsBlank
  <2>9. FutureIsBlank(t)'
    BY <2>1, <2>7, <2>8 DEF FutureIsBlank
  <2>10. CaptureHasCause(t)'
    BY <2>1, <2>2 DEF CaptureHasCause
  <2> QED BY <2>5, <2>6, <2>9, <2>10 DEF CaptureInv
<1>2. CASE BeforePublishUntracked(t)
  <2> DEFINE c0 == calls[t] + 1
  <2>1. /\ c0 \in Calls /\ c0 \in Nat /\ c0 > calls[t]
        /\ pc[t] = "idle"
        /\ calls'[t] = c0 /\ pc'[t] = "publishing"
        /\ lcm' = lcm /\ sent' = sent /\ stamp' = stamp /\ failed' = failed
        /\ batch' = batch
    BY <1>0, <1>2 DEF BeforePublishUntracked, StartCall, Calls
  <2>2. \A i \in 1 .. n0 : sent[t][i].call < c0
    BY <1>t, <1>i, <2>1 DEF FutureIsBlank
  <2>3. stamp[t][c0] = 0 /\ batch[t][c0] = 0
    BY <1>i, <2>1 DEF FutureIsBlank
  <2>4. CaptureIsPending(t)'
    <3>1. lcm[t] # None => lcm[t].call \in 1 .. c0
      BY <1>t, <1>i, <2>1 DEF CaptureIsPending
    <3> QED BY <1>i, <2>1, <3>1 DEF CaptureIsPending
  <2>5. PublishIsPending(t)'
    BY <1>t, <2>1, <2>2, <2>3 DEF PublishIsPending
  <2>6. \A i \in 1 .. n0 : sent[t][i].call <= c0
    BY <1>t, <2>1, <2>2
  <2>7. ASSUME NEW c \in Calls, c > c0
        PROVE  stamp[t][c] = 0 /\ batch[t][c] = 0
    <3>1. c > calls[t]
      BY <1>0, <1>t, <2>7 DEF Calls
    <3> QED BY <1>i, <3>1 DEF FutureIsBlank
  <2>8. FutureIsBlank(t)'
    BY <2>1, <2>6, <2>7 DEF FutureIsBlank
  <2>9. CaptureHasCause(t)'
    BY <1>i, <2>1 DEF CaptureHasCause
  <2> QED BY <2>4, <2>5, <2>8, <2>9 DEF CaptureInv
<1>3. ASSUME NEW id \in ClockIds, PlainReading(t, id)
      PROVE  CaptureInv(t)'
  <2>1. /\ UNCHANGED <<pc, calls, batch, stamp, failed>>
        /\ pc[t] = "publishing" => id # WallClock
    BY <1>3 DEF PlainReading
  <2>2. CASE lcm' = lcm /\ sent' = sent
    BY <1>i, <2>1, <2>2 DEF CaptureInv, CaptureIsPending, PublishIsPending,
                            FutureIsBlank, CaptureHasCause
  <2>3. CASE id = WallClock /\ lcm[t] # None
    <3>1. ClockGettime(t, WallClock)
      BY <1>3, <2>3 DEF PlainReading
    <3>2. lcm[t].call <= calls[t]
      BY <1>i, <1>t, <2>3 DEF CaptureIsPending
    <3>3. ASSUME NEW i \in 1 .. Len(sent'[t])
          PROVE  sent'[t][i].call <= calls[t]
      <4>1. CASE i \in 1 .. n0
        BY <1>0, <1>i, <2>3, <3>1, <4>1, FlushFacts DEF FutureIsBlank
      <4>2. CASE i \notin 1 .. n0
        BY <1>0, <2>3, <3>1, <3>2, <4>2, FlushFacts
      <4> QED BY <4>1, <4>2
    <3>4. FutureIsBlank(t)'
      BY <1>i, <2>1, <3>3 DEF FutureIsBlank
    <3>5. lcm'[t] = None
      BY <1>0, <2>3, <3>1, FlushFacts
    <3> QED BY <2>1, <2>3, <3>5, <3>4 DEF CaptureInv, CaptureIsPending,
              PublishIsPending, CaptureHasCause
  <2> QED BY <1>0, <1>3, <2>2, <2>3, ReadingFacts DEF PlainReading
<1>4. CASE TakeStamp(t)
  <2>1. /\ pc[t] = "publishing" /\ pc'[t] = "stamped"
        /\ ClockGettime(t, WallClock)
        /\ calls' = calls /\ batch' = batch /\ failed' = failed
        /\ calls[t] \in Calls
        /\ \A c \in Calls : c # calls[t] => stamp'[t][c] = stamp[t][c]
    BY <1>0, <1>4, ThreadType DEF TakeStamp
  <2>2. /\ lcm'[t] = None
        /\ \A i \in 1 .. Len(sent'[t]) : sent'[t][i].call <= calls[t]
    <3>1. CASE lcm[t] = None
      <4>1. lcm' = lcm /\ sent' = sent
        BY <2>1, <3>1 DEF ClockGettime
      <4> QED BY <1>i, <3>1, <4>1 DEF FutureIsBlank
    <3>2. CASE lcm[t] # None
      <4>1. lcm'[t] = None
        BY <1>0, <2>1, <3>2, FlushFacts
      <4>2. lcm[t].call <= calls[t]
        BY <1>i, <1>t, <3>2 DEF CaptureIsPending
      <4>3. ASSUME NEW i \in 1 .. Len(sent'[t])
            PROVE  sent'[t][i].call <= calls[t]
        <5>1. CASE i \in 1 .. n0
          BY <1>0, <1>i, <2>1, <3>2, <5>1, FlushFacts DEF FutureIsBlank
        <5>2. CASE i \notin 1 .. n0
          BY <1>0, <2>1, <3>2, <4>2, <5>2, FlushFacts
        <5> QED BY <5>1, <5>2
      <4> QED BY <4>1, <4>3
    <3> QED BY <3>1, <3>2
  <2>3. \A c \in Calls : c > calls[t] => stamp'[t][c] = 0 /\ batch[t][c] = 0
    BY <1>i, <1>t, <2>1 DEF FutureIsBlank, Calls
  <2>4. FutureIsBlank(t)'
    BY <2>1, <2>2, <2>3 DEF FutureIsBlank
  <2> QED BY <2>1, <2>2, <2>4 DEF CaptureInv, CaptureIsPending,
            PublishIsPending, CaptureHasCause
<1>5. CASE PublishOk(t)
  <2>1. /\ pc[t] = "stamped" /\ pc'[t] = "idle"
        /\ UNCHANGED <<calls, lcm, sent, time, batch, stamp, failed>>
    BY <1>0, <1>5 DEF PublishOk
  <2> QED BY <1>i, <2>1 DEF CaptureInv, CaptureIsPending, PublishIsPending,
            FutureIsBlank, CaptureHasCause
<1>6. CASE PublishFailed(t)
  <2>1. /\ pc[t] \in {"publishing", "stamped"} /\ pc'[t] = "idle"
        /\ UNCHANGED <<calls, lcm, sent, time, batch, stamp>>
        /\ failed'[t] = failed[t] \cup {calls[t]}
    BY <1>0, <1>6 DEF PublishFailed
  <2> QED BY <1>i, <2>1 DEF CaptureInv, CaptureIsPending, PublishIsPending,
            FutureIsBlank, CaptureHasCause
<1> QED BY <1>1, <1>2, <1>3, <1>4, <1>5, <1>6, StepCases

\* What the invariant says of a thread no step has touched.
LEMMA UntouchedCapture ==
  ASSUME NEW u \in Threads, CaptureInv(u), Untouched(u)
  PROVE  CaptureInv(u)'
BY DEF CaptureInv, Untouched, CaptureIsPending, PublishIsPending,
       FutureIsBlank, CaptureHasCause

\* The inductive invariant of all captures.
Captures == TypeInv /\ \A t \in Threads : CaptureInv(t)

\* Nothing is captured at first.
LEMMA CapturesInit == Init => Captures
<1> SUFFICES ASSUME Init PROVE Captures
  OBVIOUS
<1>1. TypeInv
  BY TypeInit
<1>2. ASSUME NEW t \in Threads PROVE CaptureInv(t)
  <2>1. /\ pc[t] = "idle" /\ lcm[t] = None /\ sent[t] = <<>>
        /\ \A c \in Calls : stamp[t][c] = 0 /\ batch[t][c] = 0
    BY DEF Init
  <2>2. Len(sent[t]) = 0
    BY <2>1, EmptySeq
  <2> QED BY <2>1, <2>2 DEF CaptureInv, CaptureIsPending, PublishIsPending,
            FutureIsBlank, CaptureHasCause
<1> QED BY <1>1, <1>2 DEF Captures

\* A step keeps what the invariant says of its thread and of the others.
LEMMA CapturesStep == Captures /\ [Next]_vars => Captures'
<1> SUFFICES ASSUME Captures, [Next]_vars PROVE Captures'
  OBVIOUS
<1>1. TypeInv /\ TypeInv' /\ \A t \in Threads : CaptureInv(t)
  BY TypeStep DEF Captures
<1>2. ASSUME NEW u \in Threads PROVE CaptureInv(u)'
  <2>1. CASE UNCHANGED vars
    BY <1>1, <2>1, UntouchedCapture DEF vars, Untouched
  <2>2. ASSUME NEW t \in Threads, ThreadStep(t) PROVE CaptureInv(u)'
    <3>1. CASE t = u
      BY <1>1, <2>2, <3>1, OwnCaptureStep
    <3>2. CASE t # u
      BY <1>1, <2>2, <3>2, OthersUntouched, UntouchedCapture
    <3> QED BY <3>1, <3>2
  <2> QED BY <2>1, <2>2 DEF Next
<1> QED BY <1>1, <1>2 DEF Captures

\* What a thread holds between two publishes belongs to a publish that failed
\* before its timestamp (modality_after_clock_gettime has taken every other).
THEOREM LeftoverFailed == Spec => []LeftoverIsFailed
<1>1. Captures => LeftoverIsFailed
  BY DEF Captures, CaptureInv, CaptureIsPending, CaptureHasCause,
         LeftoverIsFailed
<1> QED BY <1>1, CapturesInit, CapturesStep, PTL DEF Spec

-----------------------------------------------------------------------------
(* Stamps, order, completeness: one thread's share of the properties.       *)

\* StampAgreement for one thread.
Agrees(t) ==
  \A i \in 1 .. Len(sent[t]) :
    stamp[t][sent[t][i].call] # 0 => sent[t][i].at = stamp[t][sent[t][i].call]

\* SentInCallOrder for one thread.
InOrder(t) ==
  \A i, j \in 1 .. Len(sent[t]) :
    i < j => \/ sent[t][i].call < sent[t][j].call
             \/ /\ sent[t][i].call = sent[t][j].call
                /\ sent[t][i].part < sent[t][j].part

\* StampedIsTraced for one thread.
Traced(t) ==
  \A c \in Calls : stamp[t][c] # 0 =>
    \A p \in 1 .. batch[t][c] :
      \E i \in 1 .. Len(sent[t]) : sent[t][i].call = c /\ sent[t][i].part = p

\* A step of t sends nothing or flushes what its thread-local holds.
LEMMA SentCases ==
  ASSUME TypeInv, NEW t \in Threads, ThreadStep(t)
  PROVE  \/ sent' = sent
         \/ ClockGettime(t, WallClock) /\ lcm[t] # None
<1>0. TypeOK
  BY DEF TypeInv
<1>1. ASSUME NEW id \in ClockIds, ClockGettime(t, id)
      PROVE  \/ sent' = sent
             \/ ClockGettime(t, WallClock) /\ lcm[t] # None
  <2>1. CASE id # WallClock \/ lcm[t] = None
    BY <1>1, <2>1 DEF ClockGettime
  <2>2. CASE id = WallClock /\ lcm[t] # None
    BY <1>1, <2>2
  <2> QED BY <2>1, <2>2
<1>2. CASE \E id \in ClockIds : PlainReading(t, id)
  BY <1>1, <1>2 DEF PlainReading
<1>3. CASE TakeStamp(t)
  BY <1>1, <1>3 DEF TakeStamp, ClockIds
<1>4. CASE \/ \E n \in 0 .. MaxBatch : BeforePublish(t, n)
           \/ BeforePublishUntracked(t)
           \/ PublishOk(t) \/ PublishFailed(t)
  BY <1>4 DEF BeforePublish, BeforePublishUntracked, PublishOk, PublishFailed
<1> QED BY <1>2, <1>3, <1>4, StepCases

\* Only the transport's timestamp changes a stamp, and only that of the call.
LEMMA StampCases ==
  ASSUME TypeInv, NEW t \in Threads, ThreadStep(t)
  PROVE  \/ stamp' = stamp
         \/ /\ TakeStamp(t)
            /\ calls[t] \in Calls
            /\ stamp'[t][calls[t]] = time + 1
            /\ \A c \in Calls : c # calls[t] => stamp'[t][c] = stamp[t][c]
<1>1. CASE TakeStamp(t)
  BY <1>1, ThreadType DEF TakeStamp, TypeInv, TypeOK
<1>2. CASE ~TakeStamp(t)
  BY <1>2, StepCases DEF BeforePublish, BeforePublishUntracked, PlainReading,
                         PublishOk, PublishFailed
<1> QED BY <1>1, <1>2

\* What was sent before a step is still there after it.
LEMMA SentKept ==
  ASSUME TypeInv, NEW t \in Threads, ThreadStep(t)
  PROVE  \A i \in 1 .. Len(sent[t]) :
           i \in 1 .. Len(sent'[t]) /\ sent'[t][i] = sent[t][i]
<1>1. CASE sent' = sent
  BY <1>1
<1>2. CASE ClockGettime(t, WallClock) /\ lcm[t] # None
  BY <1>2, FlushFacts DEF TypeInv
<1> QED BY <1>1, <1>2, SentCases

\* A step of t keeps the order of what it sent.
LEMMA OwnOrderStep ==
  ASSUME TypeInv, NEW t \in Threads, CaptureInv(t), InOrder(t), ThreadStep(t)
  PROVE  InOrder(t)'
<1>1. CASE sent' = sent
  BY <1>1 DEF InOrder
<1>2. CASE ClockGettime(t, WallClock) /\ lcm[t] # None
  <2> DEFINE n0 == Len(sent[t])
  <2>1. /\ n0 \in Nat /\ lcm[t].size \in Nat
        /\ \A i \in 1 .. n0 : sent'[t][i] = sent[t][i]
        /\ \A i \in 1 .. Len(sent'[t]) : i \notin 1 .. n0 =>
             /\ sent'[t][i].call = lcm[t].call
             /\ sent'[t][i].part = i - n0
        /\ Len(sent'[t]) = n0 + lcm[t].size
    BY <1>2, FlushFacts DEF TypeInv
  <2>2. \A i \in 1 .. n0 : sent[t][i].call < lcm[t].call
    BY <1>2 DEF CaptureInv, CaptureIsPending
  <2> SUFFICES ASSUME NEW i \in 1 .. Len(sent'[t]), NEW j \in 1 .. Len(sent'[t]),
                      i < j
               PROVE  \/ sent'[t][i].call < sent'[t][j].call
                      \/ /\ sent'[t][i].call = sent'[t][j].call
                         /\ sent'[t][i].part < sent'[t][j].part
    BY DEF InOrder
  <2>3. i \in Nat /\ j \in Nat
    BY <2>1
  <2>4. CASE i \in 1 .. n0 /\ j \in 1 .. n0
    <3>1. sent'[t][i] = sent[t][i] /\ sent'[t][j] = sent[t][j]
      BY <2>1, <2>4
    <3>2. \/ sent[t][i].call < sent[t][j].call
          \/ /\ sent[t][i].call = sent[t][j].call
             /\ sent[t][i].part < sent[t][j].part
      BY <2>4 DEF InOrder
    <3> QED BY <3>1, <3>2
  <2>5. CASE i \in 1 .. n0 /\ j \notin 1 .. n0
    <3>1. /\ sent'[t][i].call = sent[t][i].call
          /\ sent'[t][j].call = lcm[t].call
      BY <2>1, <2>5
    <3> QED BY <2>2, <2>5, <3>1
  <2>6. CASE i \notin 1 .. n0
    <3>1. j \notin 1 .. n0 /\ i - n0 < j - n0
      BY <2>1, <2>3, <2>6
    <3>2. /\ sent'[t][i].call = lcm[t].call /\ sent'[t][i].part = i - n0
          /\ sent'[t][j].call = lcm[t].call /\ sent'[t][j].part = j - n0
      BY <2>1, <2>6, <3>1
    <3> QED BY <3>1, <3>2
  <2> QED BY <2>4, <2>5, <2>6
<1> QED BY <1>1, <1>2, SentCases

\* A step of t keeps the agreement of its events with their stamps.
LEMMA OwnAgreesStep ==
  ASSUME TypeInv, NEW t \in Threads, CaptureInv(t), Agrees(t), ThreadStep(t)
  PROVE  Agrees(t)'
<1> DEFINE n0 == Len(sent[t])
<1>1. /\ \A i \in 1 .. n0 : /\ sent[t][i].call \in Calls
                            /\ sent[t][i].call \in Nat
      /\ calls[t] \in Nat
  BY ThreadType
<1>2. ASSUME NEW i \in 1 .. n0
      PROVE  stamp'[t][sent[t][i].call] = stamp[t][sent[t][i].call]
  <2>1. CASE stamp' = stamp
    BY <2>1
  <2>2. CASE TakeStamp(t)
    <3>1. sent[t][i].call < calls[t]
      BY <2>2 DEF TakeStamp, CaptureInv, PublishIsPending
    <3>2. sent[t][i].call # calls[t]
      BY <1>1, <3>1
    <3> QED BY <1>1, <3>2, StampCases
  <2> QED BY <2>1, <2>2, StampCases
<1>3. ASSUME NEW i \in 1 .. n0
      PROVE  stamp'[t][sent[t][i].call] # 0
               => sent[t][i].at = stamp'[t][sent[t][i].call]
  BY <1>2 DEF Agrees
<1>4. CASE sent' = sent
  BY <1>3, <1>4 DEF Agrees
<1>5. CASE ClockGettime(t, WallClock) /\ lcm[t] # None
  <2>1. /\ \A i \in 1 .. n0 : sent'[t][i] = sent[t][i]
        /\ \A i \in 1 .. Len(sent'[t]) : i \notin 1 .. n0 =>
             /\ sent'[t][i].call = lcm[t].call
             /\ sent'[t][i].at = time + 1
        /\ lcm[t].call \in Calls
    BY <1>5, FlushFacts DEF TypeInv
  <2>2. stamp[t][lcm[t].call] = 0
    BY <1>5 DEF CaptureInv, CaptureIsPending
  <2>3. stamp'[t][lcm[t].call] # 0 => stamp'[t][lcm[t].call] = time + 1
    BY <2>1, <2>2, StampCases
  <2> SUFFICES ASSUME NEW i \in 1 .. Len(sent'[t])
               PROVE  stamp'[t][sent'[t][i].call] # 0
                        => sent'[t][i].at = stamp'[t][sent'[t][i].call]
    BY DEF Agrees
  <2>4. CASE i \in 1 .. n0
    BY <1>3, <2>1, <2>4
  <2>5. CASE i \notin 1 .. n0
    BY <2>1, <2>3, <2>5
  <2> QED BY <2>4, <2>5
<1> QED BY <1>4, <1>5, SentCases

\* A step of t leaves every part of its stamped messages sent.
LEMMA OwnTracedStep ==
  ASSUME TypeInv, NEW t \in Threads, CaptureInv(t), Traced(t), ThreadStep(t)
  PROVE  Traced(t)'
<1> SUFFICES ASSUME NEW c \in Calls, stamp'[t][c] # 0, NEW p \in 1 .. batch'[t][c]
             PROVE  \E i \in 1 .. Len(sent'[t]) :
                      sent'[t][i].call = c /\ sent'[t][i].part = p
  BY DEF Traced
<1>1. CASE stamp[t][c] # 0
  <2>1. batch'[t][c] = batch[t][c]
    <3>1. CASE batch' = batch
      BY <3>1
    <3>2. CASE \E n \in 0 .. MaxBatch : BeforePublish(t, n)
      <4>1. c # calls[t] + 1
        BY <1>1, ThreadType DEF CaptureInv, FutureIsBlank
      <4> QED BY <3>2, <4>1 DEF BeforePublish, TypeInv, TypeOK
    <3> QED BY <3>1, <3>2, StepCases DEF BeforePublishUntracked, PlainReading,
                                         TakeStamp, PublishOk, PublishFailed
  <2>2. PICK i \in 1 .. Len(sent[t]) : sent[t][i].call = c /\ sent[t][i].part = p
    BY <1>1, <2>1 DEF Traced
  <2> QED BY <2>2, SentKept
<1>2. CASE stamp[t][c] = 0
  <2>1. TakeStamp(t) /\ c = calls[t]
    BY <1>2, StampCases
  <2>2. ClockGettime(t, WallClock) /\ batch' = batch /\ pc[t] = "publishing"
    BY <2>1 DEF TakeStamp
  <2>3. batch[t][c] \in Nat /\ p \in Nat /\ p >= 1 /\ p <= batch[t][c]
    BY <2>2, ThreadType, BoundsAssumption
  <2>4. lcm[t].call = calls[t]
    BY <2>1, <2>2, <2>3 DEF CaptureInv, PublishIsPending
  <2>5. lcm[t] # None
    BY <2>1, <2>4 DEF None, Calls
  <2>6. lcm[t].size = batch[t][c]
    BY <2>1, <2>4, <2>5 DEF CaptureInv, CaptureIsPending
  <2> DEFINE i == Len(sent[t]) + p
  <2>7. /\ Len(sent[t]) \in Nat
        /\ Len(sent'[t]) = Len(sent[t]) + batch[t][c]
    BY <2>2, <2>5, <2>6, FlushFacts DEF TypeInv
  <2>8. /\ i \in 1 .. Len(sent'[t]) /\ i \notin 1 .. Len(sent[t])
        /\ i - Len(sent[t]) = p
    BY <2>3, <2>7
  <2> HIDE DEF i
  <2>9. sent'[t][i].call = c /\ sent'[t][i].part = p
    BY <2>1, <2>2, <2>4, <2>5, <2>8, FlushFacts DEF TypeInv
  <2> QED BY <2>8, <2>9
<1>3. stamp[t][c] = 0 \/ stamp[t][c] # 0
  OBVIOUS
<1> QED BY <1>1, <1>2, <1>3

\* The three together, for all threads, on top of the captures.
Traces == Captures /\ \A t \in Threads : Agrees(t) /\ InOrder(t) /\ Traced(t)

\* Nothing was sent or stamped at first.
LEMMA TracesInit == Init => Traces
<1> SUFFICES ASSUME Init PROVE Traces
  OBVIOUS
<1>1. ASSUME NEW t \in Threads PROVE Agrees(t) /\ InOrder(t) /\ Traced(t)
  <2>1. sent[t] = <<>> /\ \A c \in Calls : stamp[t][c] = 0
    BY DEF Init
  <2>2. Len(sent[t]) = 0
    BY <2>1, EmptySeq
  <2> QED BY <2>1, <2>2 DEF Agrees, InOrder, Traced
<1> QED BY <1>1, CapturesInit DEF Traces

\* A step keeps the three together.
LEMMA TracesStep == Traces /\ [Next]_vars => Traces'
<1> SUFFICES ASSUME Traces, [Next]_vars PROVE Traces'
  OBVIOUS
<1>1. /\ Captures' /\ TypeInv
      /\ \A t \in Threads : CaptureInv(t) /\ Agrees(t) /\ InOrder(t) /\ Traced(t)
  BY CapturesStep DEF Traces, Captures
<1>2. ASSUME NEW u \in Threads PROVE (Agrees(u) /\ InOrder(u) /\ Traced(u))'
  <2>1. ASSUME Untouched(u) PROVE (Agrees(u) /\ InOrder(u) /\ Traced(u))'
    BY <1>1, <2>1 DEF Untouched, Agrees, InOrder, Traced
  <2>2. CASE UNCHANGED vars
    BY <2>1, <2>2 DEF vars, Untouched
  <2>3. ASSUME NEW t \in Threads, ThreadStep(t)
        PROVE  (Agrees(u) /\ InOrder(u) /\ Traced(u))'
    <3>1. CASE t = u
      BY <1>1, <2>3, <3>1, OwnAgreesStep, OwnOrderStep, OwnTracedStep
    <3>2. CASE t # u
      BY <1>1, <2>1, <2>3, <3>2, OthersUntouched
    <3> QED BY <3>1, <3>2
  <2> QED BY <2>2, <2>3 DEF Next
<1> QED BY <1>1, <1>2 DEF Traces

\* A publish event of a stamped message carries the transport's own stamp
\* (modality_after_clock_gettime), for any number of threads, calls, readings.
THEOREM StampsAgree == Spec => []StampAgreement
<1>1. Traces => StampAgreement
  BY DEF Traces, Agrees, StampAgreement
<1> QED BY <1>1, TracesInit, TracesStep, PTL DEF Spec

\* The events of a thread are sent in the order of its calls, none twice.
THEOREM CallOrder == Spec => []SentInCallOrder
<1>1. Traces => SentInCallOrder
  BY DEF Traces, InOrder, SentInCallOrder
<1> QED BY <1>1, TracesInit, TracesStep, PTL DEF Spec

\* Once the transport has stamped a message, all its events have been sent.
THEOREM StampedTraced == Spec => []StampedIsTraced
<1>1. Traces => StampedIsTraced
  BY DEF Traces, Traced, StampedIsTraced
<1> QED BY <1>1, TracesInit, TracesStep, PTL DEF Spec
=============================================================================
