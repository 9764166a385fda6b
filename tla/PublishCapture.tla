--------------------------- MODULE PublishCapture ---------------------------
(***************************************************************************)
(* How one publish becomes one (or a few) publish events with the very     *)
(* timestamp the transport puts on the message: ld_preload_shim.c          *)
(* `rmw_publish`, `clock_gettime`, and hooks.rs `modality_before_rmw_      *)
(* publish`, `modality_after_clock_gettime`, LAST_CAPTURED_MESSAGE.        *)
(*                                                                         *)
(* The hook that runs before the real rmw_publish only stores the decoded  *)
(* message in a thread-local.  The DDS layer then reads the wall clock for *)
(* the transport timestamp; the hook on clock_gettime takes the stored     *)
(* message, stamps it with that reading and sends it.  Between the two,    *)
(* other clocks are read, the publish may fail, and any code of the thread *)
(* (the hooks' own `now` included) reads the wall clock too.               *)
(*                                                                         *)
(* External, from the comments of hooks.rs: the first wall-clock reading   *)
(* of a publish is its transport timestamp.  Every reading of any clock    *)
(* gives a new value, so that two readings are never confused.             *)
(***************************************************************************)
EXTENDS Naturals, Sequences

CONSTANTS
  Threads,    \* threads that publish
  MaxCalls,   \* bound: how many rmw_publish calls each thread makes
  MaxReads,   \* bound: how many clock readings are made
  MaxBatch    \* how many events one message may become (diagnostic arrays)

ASSUME BoundsAssumption ==
  MaxCalls \in Nat /\ MaxReads \in Nat /\ MaxBatch \in Nat

VARIABLES
  pc,         \* per thread: "idle", "publishing", "stamped"
  calls,      \* per thread: how many calls it has started; the last is current
  lcm,        \* LAST_CAPTURED_MESSAGE of each thread
  sent,       \* per thread: what it passed to Sender::send, in order
  time,       \* the latest clock reading
  \* History: what is true of each call of each thread.
  batch,      \* how many events the call's message was decoded to
  stamp,      \* its transport timestamp, 0 while it has none
  failed      \* the calls that returned an error

vars == <<pc, calls, lcm, sent, time, batch, stamp, failed>>

Calls == 1 .. MaxCalls

WallClock == 0                      \* CLOCK_REALTIME
OtherClock == 1                     \* CLOCK_MONOTONIC and the rest
ClockIds == {WallClock, OtherClock}

\* Option<Vec<CapturedMessage>>: the messages of a call, in order.
None == [call |-> 0, size |-> 0]
Captured(c, n) == [call |-> c, size |-> n]

PublishEvent == [call : Calls, part : 1 .. MaxBatch, at : 1 .. MaxReads]

\* Mutated stamping: one event more than the message was decoded to.
StampedOneMore(m, at) ==
  [i \in 1 .. m.size + 1 |-> [call |-> m.call, part |-> i, at |-> at]]

\* The events a captured batch becomes when it is stamped.
Stamped(m, at) ==
  [i \in 1 .. m.size |-> [call |-> m.call, part |-> i, at |-> at]]

Init ==
  /\ pc = [t \in Threads |-> "idle"]
  /\ calls = [t \in Threads |-> 0]
  /\ lcm = [t \in Threads |-> None]
  /\ sent = [t \in Threads |-> <<>>]
  /\ time = 0
  /\ batch = [t \in Threads |-> [c \in Calls |-> 0]]
  /\ stamp = [t \in Threads |-> [c \in Calls |-> 0]]
  /\ failed = [t \in Threads |-> {}]

-----------------------------------------------------------------------------
(* The hooks.                                                               *)

\* Thread t enters rmw_publish.
StartCall(t) ==
  /\ pc[t] = "idle"
  /\ calls[t] < MaxCalls
  /\ calls' = [calls EXCEPT ![t] = @ + 1]
  /\ pc' = [pc EXCEPT ![t] = "publishing"]

\* Mutated hook: it does not replace a capture that is still there.
BeforePublishKeepsOld(t, n) ==
  /\ StartCall(t)
  /\ lcm' = [lcm EXCEPT ![t] =
                IF @ = None THEN Captured(calls[t] + 1, n) ELSE @]
  /\ batch' = [batch EXCEPT ![t][calls[t] + 1] = n]
  /\ UNCHANGED <<sent, time, stamp, failed>>

\* The publisher is traced: its message, decoded to n events, replaces
\* whatever the thread-local held.
BeforePublish(t, n) ==
  /\ StartCall(t)
  /\ lcm' = [lcm EXCEPT ![t] = Captured(calls[t] + 1, n)]
  /\ batch' = [batch EXCEPT ![t][calls[t] + 1] = n]
  /\ UNCHANGED <<sent, time, stamp, failed>>

\* A null argument, or a publisher that is not in PUBLISHERS (its topic is
\* ignored, or its type is not supported): the hook returns at once.
BeforePublishUntracked(t) ==
  /\ StartCall(t)
  /\ UNCHANGED <<lcm, sent, time, batch, stamp, failed>>

\* Mutated hook: it takes the capture at the reading of any clock.
ClockGettimeAnyId(t, id) ==
  /\ time < MaxReads
  /\ time' = time + 1
  /\ IF lcm[t] = None
       THEN UNCHANGED <<lcm, sent>>
       ELSE /\ lcm' = [lcm EXCEPT ![t] = None]
            /\ sent' = [sent EXCEPT ![t] = @ \o Stamped(lcm[t], time + 1)]

\* Mutated hook: it clones the capture where the code takes it.
ClockGettimeClones(t, id) ==
  /\ time < MaxReads
  /\ time' = time + 1
  /\ UNCHANGED lcm
  /\ IF id # WallClock \/ lcm[t] = None
       THEN UNCHANGED sent
       ELSE sent' = [sent EXCEPT ![t] = @ \o Stamped(lcm[t], time + 1)]

\* Thread t reads clock `id` and modality_after_clock_gettime runs.
ClockGettime(t, id) ==
  /\ time < MaxReads
  /\ time' = time + 1
  /\ IF id # WallClock \/ lcm[t] = None
       THEN UNCHANGED <<lcm, sent>>
       ELSE /\ lcm' = [lcm EXCEPT ![t] = None]
            /\ sent' = [sent EXCEPT ![t] = @ \o Stamped(lcm[t], time + 1)]

-----------------------------------------------------------------------------
(* The DDS layer and the rest of the thread (external).                     *)

\* Readings of other clocks before the transport timestamp is taken.
EarlyRead(t) ==
  /\ pc[t] = "publishing"
  /\ ClockGettime(t, OtherClock)
  /\ UNCHANGED <<pc, calls, batch, stamp, failed>>

\* The transport timestamp is taken.
TakeStamp(t) ==
  /\ pc[t] = "publishing"
  /\ ClockGettime(t, WallClock)
  /\ stamp' = [stamp EXCEPT ![t][calls[t]] = time + 1]
  /\ pc' = [pc EXCEPT ![t] = "stamped"]
  /\ UNCHANGED <<calls, batch, failed>>

\* Any reading after that, still inside the publish.
LateRead(t, id) ==
  /\ pc[t] = "stamped"
  /\ ClockGettime(t, id)
  /\ UNCHANGED <<pc, calls, batch, stamp, failed>>

\* rmw_publish returns RMW_RET_OK: the message was written, so it was stamped.
PublishOk(t) ==
  /\ pc[t] = "stamped"
  /\ pc' = [pc EXCEPT ![t] = "idle"]
  /\ UNCHANGED <<calls, lcm, sent, time, batch, stamp, failed>>

\* rmw_publish returns an error, before or after the timestamp; the shim
\* returns it without telling the hooks.
PublishFailed(t) ==
  /\ pc[t] \in {"publishing", "stamped"}
  /\ pc' = [pc EXCEPT ![t] = "idle"]
  /\ failed' = [failed EXCEPT ![t] = @ \cup {calls[t]}]
  /\ UNCHANGED <<calls, lcm, sent, time, batch, stamp>>

\* Outside rmw_publish the thread reads a clock: the application, rcl's logging
\* and timers, another rmw call, or `now` in another hook.
OtherRead(t, id) ==
  /\ pc[t] = "idle"
  /\ ClockGettime(t, id)
  /\ UNCHANGED <<pc, calls, batch, stamp, failed>>

-----------------------------------------------------------------------------
ThreadStep(t) ==
  \/ \E n \in 0 .. MaxBatch : BeforePublish(t, n)
  \/ BeforePublishUntracked(t)
  \/ EarlyRead(t)
  \/ TakeStamp(t)
  \/ \E id \in ClockIds : LateRead(t, id)
  \/ PublishOk(t)
  \/ PublishFailed(t)
  \/ \E id \in ClockIds : OtherRead(t, id)

Next == \E t \in Threads : ThreadStep(t)

Spec == Init /\ [][Next]_vars

-----------------------------------------------------------------------------
(* Properties.                                                              *)

TypeOK ==
  /\ pc \in [Threads -> {"idle", "publishing", "stamped"}]
  /\ calls \in [Threads -> 0 .. MaxCalls]
  /\ lcm \in [Threads -> {None} \cup [call : Calls, size : 0 .. MaxBatch]]
  /\ sent \in [Threads -> Seq(PublishEvent)]
  /\ time \in 0 .. MaxReads
  /\ batch \in [Threads -> [Calls -> 0 .. MaxBatch]]
  /\ stamp \in [Threads -> [Calls -> 0 .. MaxReads]]
  /\ failed \in [Threads -> SUBSET Calls]

\* interactions.speqtr: `sub.interaction.remote_timestamp = pub.timestamp`.  A
\* publish event of a message the transport stamped carries that very stamp:
\* no other reading of a clock, in the publish or out of it, slips in.
StampAgreement ==
  \A t \in Threads : \A i \in 1 .. Len(sent[t]) :
    LET e == sent[t][i] IN stamp[t][e.call] # 0 => e.at = stamp[t][e.call]

\* README, "When a message is published by a ROS node, an event is created":
\* once the transport has the timestamp, every event decoded from the message
\* has been sent by the publishing thread.
StampedIsTraced ==
  \A t \in Threads : \A c \in Calls :
    stamp[t][c] # 0 =>
      \A p \in 1 .. batch[t][c] :
        \E i \in 1 .. Len(sent[t]) : sent[t][i].call = c /\ sent[t][i].part = p

\* A thread sends its events in the order of its calls, the parts of one call
\* in their order, and none of them twice: what one reading flushes is never
\* overtaken or repeated by a later one.
SentInCallOrder ==
  \A t \in Threads : \A i, j \in 1 .. Len(sent[t]) :
    i < j => LET e == sent[t][i]
                 f == sent[t][j]
             IN e.call < f.call \/ (e.call = f.call /\ e.part < f.part)

\* What a thread still holds between two publishes belongs to a publish that
\* failed before the transport timestamp.
LeftoverIsFailed ==
  \A t \in Threads :
    pc[t] = "idle" /\ lcm[t] # None =>
      lcm[t].call \in failed[t] /\ stamp[t][lcm[t].call] = 0

\* hooks.rs, LAST_CAPTURED_MESSAGE: the next clock_gettime on the same thread is
\* "called by the DDS layer for the transport-level timestamp"; README:
\* `event.ros.publish` marks "events logged when a message is published".  The
\* code does not keep this: after a failed publish the next wall-clock reading
\* of the thread sends the message that was never written.
OnlyStampedIsTraced ==
  \A t \in Threads : \A i \in 1 .. Len(sent[t]) :
    stamp[t][sent[t][i].call] # 0
=============================================================================
