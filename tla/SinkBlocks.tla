----------------------------- MODULE SinkBlocks -----------------------------
(***************************************************************************)
(* The two transmit blocks of a flowgraph: HttpSink (http_sink.rs), which  *)
(* batches its input, gives each batch a window of time and hands it to a  *)
(* background task that pushes it to the server, and SdkSinkBlock          *)
(* (sdk_sink.rs), which hands the device one burst a call.                 *)
(*                                                                         *)
(* Samples are numbered from 1 in the order the flowgraph writes them, one *)
(* to a tick of the clock.  The runtime that calls work(), the block in    *)
(* front, the clocks, the server and the device are external: work() is    *)
(* called when samples or the end of the input have been announced since   *)
(* its last call, and the end is announced between two calls.  A push that *)
(* times out may have reached the server.                                  *)
(***************************************************************************)
EXTENDS Integers, Sequences

CONSTANTS
  MaxSamples,       \* bounds what the flowgraph writes
  Sizes,            \* of the buffer asked for, and of samples_per_burst
  QueueDepth,       \* 16: batches in the channel to the sender task
  Delay,            \* streaming_delay
  Lead,             \* TX_SCHEDULE_LEAD_S
  MaxClock          \* bounds the clocks

ASSUME SinkAssumption ==
  /\ Sizes \subseteq Nat /\ Sizes # {}
  /\ QueueDepth \in Nat \ {0}
  /\ MaxSamples \in Nat /\ MaxClock \in Nat /\ Delay \in Nat /\ Lead \in Nat

VARIABLES
  \* external
  written, ended,    \* samples written to the input, and whether the last one is
  woken,             \* something was announced since work() was last called
  finished,          \* the end was announced (input.finished())
  now,
  received,          \* batches the server took, or bursts the device took
  \* the block
  kind,              \* "http" | "sdk"
  size,              \* buffer_size | samples_per_burst
  consumed,
  io_finished,
  pc,                \* "idle" | "filling" | "sending"
  \* HttpSink
  input_len, taken,  \* of the input work() looks at
  sample_buffer,     \* samples in it
  batch,             \* the one push_batch is sending
  last_transmission_end_time,
  dropped_samples,
  queue,             \* the channel
  pushing,           \* what the sender task is pushing, at most one batch
  sender,            \* "running" | "gone" | "aborted"
  lost,              \* for the properties: the batches the task had when it ended
  dropped            \* the block has been dropped

input_vars == <<written, ended, woken, finished>>
sender_vars == <<queue, pushing, sender, lost>>
vars == <<input_vars, now, received, kind, size, consumed, io_finished, pc, input_len, taken,
          sample_buffer, batch, last_transmission_end_time, dropped_samples, sender_vars, dropped>>

Least(a, b) == IF a < b THEN a ELSE b
Later(a, b) == IF a < b THEN b ELSE a
Count(b) == b.last - b.first + 1
Counted(s) == LET C[k \in 0..Len(s)] == IF k = 0 THEN 0 ELSE C[k - 1] + Count(s[k]) IN C[Len(s)]
-----------------------------------------------------------------------------
\* HttpSinkBuilder and HttpSink::new: an empty buffer could never fill.
buffer_size(n) == Later(n, 1)

Init ==
  /\ kind \in {"http", "sdk"}
  /\ \E n \in Sizes :
       IF kind = "http" THEN size = buffer_size(n) ELSE n > 0 /\ size = n
  /\ now \in 0..MaxClock /\ last_transmission_end_time = now
  /\ written = 0 /\ ended = FALSE /\ woken = TRUE /\ finished = FALSE
  /\ received = << >> /\ consumed = 0 /\ io_finished = FALSE /\ pc = "idle"
  /\ input_len = 0 /\ taken = 0 /\ sample_buffer = 0 /\ batch = << >>
  /\ dropped_samples = 0 /\ queue = << >> /\ pushing = << >>
  /\ sender = "running" /\ lost = << >> /\ dropped = FALSE

-----------------------------------------------------------------------------
(* The flowgraph and the clock *)

block_vars == <<kind, size, consumed, io_finished, pc, input_len, taken, sample_buffer, batch,
                last_transmission_end_time, dropped_samples, dropped>>

Write(n) ==
  /\ ~ended /\ written + n <= MaxSamples
  /\ written' = written + n /\ woken' = TRUE
  /\ UNCHANGED <<ended, finished, now, received, block_vars, sender_vars>>

WriteLast ==
  /\ ~ended /\ ended' = TRUE
  /\ UNCHANGED <<written, woken, finished, now, received, block_vars, sender_vars>>

Announce ==
  /\ ended /\ ~finished /\ pc = "idle" /\ ~io_finished /\ ~dropped
  /\ finished' = TRUE /\ woken' = TRUE
  /\ UNCHANGED <<written, ended, now, received, block_vars, sender_vars>>

\* The clock goes on, or is set.
Tick ==
  /\ now' \in (0..MaxClock) \ {now}
  /\ UNCHANGED <<input_vars, received, block_vars, sender_vars>>

-----------------------------------------------------------------------------
(* HttpSink *)

\* Mutant: a batch starts after the delay even while the one before it is on the air.
StartOf_delay(end) == now + Delay

\* When the next batch starts, the last one having ended at end.
StartOf(end) == Later(now + Delay, end)

\* What the batch after b may start at: its end and one sample more.
EndedBy(b) == b.end + 1

Batch(first, last) ==
  [first |-> first, last |-> last, start |-> StartOf(last_transmission_end_time),
   end |-> StartOf(last_transmission_end_time) + (last - first + 1)]

\* push_batch, up to where it waits for room: the batch is what follows the last one.
push_batch(buffered, upto) ==
  LET b == Batch(upto - buffered + 1, upto)
  IN  /\ batch' = <<b>> /\ last_transmission_end_time' = EndedBy(b)
      /\ pc' = "sending"

\* Whether samples short of a batch have to be sent at the end.
LeavesSamples(buffered) == buffered > 0

Called == woken /\ pc = "idle" /\ ~io_finished /\ ~dropped

WorkOnNothing ==
  /\ Called /\ kind = "http" /\ written = consumed
  /\ woken' = FALSE
  /\ IF finished /\ LeavesSamples(sample_buffer)
     THEN push_batch(sample_buffer, consumed) /\ UNCHANGED io_finished
     ELSE io_finished' = finished /\ UNCHANGED <<pc, batch, last_transmission_end_time>>
  /\ input_len' = 0 /\ taken' = 0
  /\ UNCHANGED <<written, ended, finished, now, received, kind, size, consumed, sample_buffer,
                 dropped_samples, sender_vars, dropped>>

Work ==
  /\ Called /\ kind = "http" /\ written > consumed
  /\ woken' = FALSE /\ pc' = "filling"
  /\ input_len' = written - consumed /\ taken' = 0
  /\ UNCHANGED <<written, ended, finished, now, received, kind, size, consumed, io_finished,
                 sample_buffer, batch, last_transmission_end_time, dropped_samples,
                 sender_vars, dropped>>

\* One turn of the loop that drains the input.
Fill ==
  /\ pc = "filling" /\ taken < input_len /\ ~dropped
  /\ LET to_take == Least(IF size > sample_buffer THEN size - sample_buffer ELSE 0,
                          input_len - taken)
     IN  /\ sample_buffer' = sample_buffer + to_take /\ taken' = taken + to_take
         /\ IF sample_buffer' >= size THEN push_batch(sample_buffer', consumed + taken')
            ELSE UNCHANGED <<pc, batch, last_transmission_end_time>>
  /\ UNCHANGED <<input_vars, now, received, kind, size, consumed, io_finished, input_len,
                 dropped_samples, sender_vars, dropped>>

\* Mutant: the block finishes in its next call.
FinishesNow_next(end) == FALSE

FinishesNow(end) == end

\* The loop is over: the input is consumed, and the block finishes in this very call.
Drained ==
  /\ pc = "filling" /\ taken = input_len /\ ~dropped
  /\ consumed' = consumed + taken /\ input_len' = 0 /\ taken' = 0
  /\ IF finished /\ LeavesSamples(sample_buffer)
     THEN push_batch(sample_buffer, consumed') /\ UNCHANGED io_finished
     ELSE /\ io_finished' = FinishesNow(finished) /\ pc' = "idle"
          /\ UNCHANGED <<batch, last_transmission_end_time>>
  /\ UNCHANGED <<input_vars, now, received, kind, size, sample_buffer, dropped_samples,
                 sender_vars, dropped>>

\* Where work() goes on after push_batch: in its loop, or it was the flush at the end.
Sent ==
  /\ batch' = << >> /\ sample_buffer' = 0
  /\ IF input_len > 0 THEN pc' = "filling" /\ UNCHANGED io_finished
                      ELSE pc' = "idle" /\ io_finished' = TRUE
  /\ UNCHANGED <<input_vars, now, received, kind, size, consumed, input_len, taken,
                 last_transmission_end_time, pushing, sender, lost, dropped>>

\* tx.send finds room in the channel.
Send ==
  /\ pc = "sending" /\ ~dropped /\ sender = "running" /\ Len(queue) < QueueDepth
  /\ queue' = queue \o batch
  /\ Sent /\ UNCHANGED dropped_samples

\* Mutant: a batch that no task takes is not counted.
Untaken_quiet(b) == 0

\* What a batch that no task takes adds to dropped_samples.
Untaken(b) == Counted(b)

\* The sender task is gone.
SendFails ==
  /\ pc = "sending" /\ ~dropped /\ sender # "running"
  /\ dropped_samples' = dropped_samples + Untaken(batch)
  /\ Sent /\ UNCHANGED queue

source_vars == <<kind, size, consumed, io_finished, pc, input_len, taken, sample_buffer, batch,
                 last_transmission_end_time, dropped>>

\* The sender task takes the next batch.
Take ==
  /\ sender = "running" /\ pushing = << >> /\ queue # << >>
  /\ pushing' = <<Head(queue)>> /\ queue' = Tail(queue)
  /\ UNCHANGED <<input_vars, now, received, source_vars, dropped_samples, sender, lost>>

\* Which pushes count as dropped.
DropsIt(outcome) == outcome \in {"failed", "timed out"}

\* push_samples answers, fails, or is given up after timeout_ms.
Push(outcome) ==
  /\ pushing # << >> /\ sender = "running"
  /\ \/ outcome \in {"ok", "timed out"} /\ received' = received \o pushing
     \/ outcome \in {"failed", "timed out"} /\ UNCHANGED received
  /\ dropped_samples' = dropped_samples + IF DropsIt(outcome) THEN Counted(pushing) ELSE 0
  /\ pushing' = << >>
  /\ UNCHANGED <<input_vars, now, source_vars, queue, sender, lost>>

\* The task ends and drops its end of the channel with every batch in it, and the push in
\* progress, which may have reached the server.  Nothing counts them.
TaskEnds ==
  /\ queue' = << >> /\ pushing' = << >>
  /\ \/ UNCHANGED received /\ lost' = lost \o pushing \o queue
     \/ received' = received \o pushing /\ lost' = lost \o queue

\* The task's runtime is shut down, or it panicked.
SenderGone ==
  /\ kind = "http" /\ sender = "running" /\ ~dropped
  /\ sender' = "gone" /\ TaskEnds
  /\ UNCHANGED <<input_vars, now, source_vars, dropped_samples>>

\* The flowgraph drops its blocks, at its end or before it; HttpSink aborts its sender task.
Drop ==
  /\ ~dropped /\ dropped' = TRUE
  /\ IF kind = "http" /\ sender = "running" THEN sender' = "aborted" /\ TaskEnds
     ELSE UNCHANGED <<sender_vars, received>>
  /\ UNCHANGED <<input_vars, now, kind, size, consumed, io_finished, pc, input_len, taken,
                 sample_buffer, batch, last_transmission_end_time, dropped_samples>>

-----------------------------------------------------------------------------
(* SdkSinkBlock *)

BurstLength(len) == Least(len, size)

\* One call: a burst on the device's clock, or to be sent at once when the clock cannot be
\* read.  What the device does not take is logged and consumed all the same.  The call does
\* not ask to be called again for what it left in the input.
WorkSdk(clock, ok) ==
  /\ Called /\ kind = "sdk"
  /\ woken' = FALSE
  /\ LET len == written - consumed
         n == BurstLength(len)
         start == IF clock THEN now + Lead ELSE 0
         burst == [first |-> consumed + 1, last |-> consumed + n, start |-> start,
                   end |-> IF clock THEN start + n ELSE 0, push |-> ~clock]
     IN  IF len = 0
         THEN io_finished' = finished /\ UNCHANGED <<consumed, received>>
         ELSE /\ received' = IF ok THEN Append(received, burst) ELSE received
              /\ consumed' = consumed + n
              /\ io_finished' = (finished /\ n = len)
  /\ UNCHANGED <<written, ended, finished, now, kind, size, pc, input_len, taken, sample_buffer,
                 batch, last_transmission_end_time, dropped_samples, sender_vars, dropped>>

Over == /\ dropped /\ UNCHANGED vars

Next ==
  \/ \E n \in 1..MaxSamples : Write(n)
  \/ WriteLast \/ Announce \/ Tick
  \/ WorkOnNothing \/ Work \/ Fill \/ Drained \/ Send \/ SendFails
  \/ Take \/ \E outcome \in {"ok", "failed", "timed out"} : Push(outcome)
  \/ SenderGone \/ Drop
  \/ \E clock, ok \in BOOLEAN : WorkSdk(clock, ok)
  \/ Over

\* The runtime announces and calls, push_batch and the sender task run, and a push ends, by its
\* timeout at the latest.  Nothing obliges the flowgraph to write, to end or to drop the block.
Fairness ==
  /\ WF_vars(Announce)
  /\ WF_vars(WorkOnNothing \/ Work \/ Fill \/ Drained \/ Send \/ SendFails)
  /\ WF_vars(Take) /\ WF_vars(\E outcome \in {"ok", "failed", "timed out"} : Push(outcome))
  /\ WF_vars(\E clock, ok \in BOOLEAN : WorkSdk(clock, ok))

Spec == Init /\ [][Next]_vars /\ Fairness
-----------------------------------------------------------------------------
(* Properties *)

\* Those the server had, those lost with the sender task, and those on their way.
Batches == received \o lost \o pushing \o queue \o batch

\* The block's counters stay within what it was given and one batch is sent at a time.
TypeOK ==
  /\ written \in 0..MaxSamples /\ consumed \in 0..written
  /\ {ended, woken, finished, io_finished, dropped} \subseteq BOOLEAN
  /\ now \in 0..MaxClock /\ last_transmission_end_time \in Nat /\ dropped_samples \in Nat
  /\ kind \in {"http", "sdk"} /\ size \in Nat \ {0}
  /\ pc \in {"idle", "filling", "sending"} /\ sender \in {"running", "gone", "aborted"}
  /\ sample_buffer \in 0..size /\ taken \in 0..input_len
  /\ Len(queue) <= QueueDepth /\ Len(pushing) <= 1
  /\ (Len(batch) = IF pc = "sending" THEN 1 ELSE 0)

\* The server's batches and the device's bursts carry the input in its order, no sample twice,
\* whichever pushes failed between them.
SamplesInOrder ==
  \A k \in 1..Len(Batches) :
    /\ 1 <= Batches[k].first /\ Batches[k].first <= Batches[k].last
    /\ Batches[k].last <= written /\ Count(Batches[k]) <= size
    /\ k > 1 => Batches[k - 1].last < Batches[k].first

\* However the clock is set and however long a push takes, the windows HttpSink asks for never
\* overlap: each starts after the last sample of the one before and lasts as long as its samples.
WindowsInOrder ==
  kind = "http" =>
    \A k \in 1..Len(Batches) :
      /\ Batches[k].end = Batches[k].start + Count(Batches[k])
      /\ k > 1 => Batches[k - 1].end < Batches[k].start

\* Each sample HttpSink took from its input is still on its way, was acknowledged by the server,
\* or is counted in dropped_samples, also once the sender task is gone: a link that fails never
\* goes quiet for good.  Only what the task had when it ended, the channel and one push, is told
\* by nothing.
NothingGoesQuiet ==
  LET held == (IF batch # << >> THEN 0 ELSE sample_buffer) + Counted(batch \o queue \o pushing)
  IN  kind = "http" /\ ~dropped =>
        /\ consumed + taken <= Counted(received) + dropped_samples + held + Counted(lost)
        /\ Len(lost) <= QueueDepth + 1

\* The end of the input ends the block, with every sample sent on: the end may come with the last
\* samples, and no further call is guaranteed.  SdkSinkBlock does so when the rest is one burst.
\* A block that is dropped before has nothing to end.
EndsWithInput ==
  finished /\ (kind = "http" \/ (woken /\ written - consumed <= size)) ~> io_finished \/ dropped

\* A block that ends has taken the whole input, and HttpSink has handed on the samples short of
\* a batch, whether the end came with them or in a call of its own.
FlushesAtEnd == io_finished => consumed = written /\ (kind = "http" => sample_buffer = 0)

\* Whatever pushes fail and however slow they are, the input is sent on in order, in windows
\* that do not overlap, and each sample of it is answered for by the time the block ends, but for
\* what a sender task that ended took with it.
InputIsAnsweredFor ==
  TypeOK /\ SamplesInOrder /\ WindowsInOrder /\ NothingGoesQuiet /\ FlushesAtEnd
=============================================================================
