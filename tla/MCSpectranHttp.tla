--------------------------- MODULE MCSpectranHttp ---------------------------
(***************************************************************************)
(* SpectranSource over HTTP, what its reads return (SpectranReads) and     *)
(* what it leaves the device tuned to (SpectranTuning), side by side: in a *)
(* behaviour one of them moves.                                            *)
(*                                                                         *)
(* Packets of one and two samples, at two frequencies, two rates, and with *)
(* neither declared; reads that split packets and reads that span them.    *)
(* Two fields, so that one setter sends what another one set; the mission  *)
(* is a tuning no caller asks for.                                         *)
(***************************************************************************)
EXTENDS SpectranReads

CONSTANTS
  Fields, Values, Mission, Configured, Requests, TuningReconnects, MaxReboots, MaxHealthy,
  TuningSessions

VARIABLES
  part,   \* "tuning" | "reads"
  up, device, tuning_reader, tuning_attempts, desired, http_tuning, config, setting, live,
  set_failed, raced, tuned, reboots, healthy_losses, tuning_session

Tuning == INSTANCE SpectranTuning WITH
  MaxReconnects <- TuningReconnects, MaxSessions <- TuningSessions,
  reader <- tuning_reader, attempts <- tuning_attempts, session <- tuning_session

ASSUME TuningAssumption == Tuning!TuningAssumption

tuning_vars ==
  <<up, device, tuning_reader, tuning_attempts, desired, http_tuning, config, setting, live,
    set_failed, raced, tuned, reboots, healthy_losses, tuning_session>>

MCInit == part \in {"tuning", "reads"} /\ Init /\ Tuning!Init

ReadsMove == part = "reads" /\ Next /\ UNCHANGED <<part, tuning_vars>>
TuningMoves == part = "tuning" /\ Tuning!Next /\ UNCHANGED <<part, vars>>

MCSpec == MCInit /\ [][ReadsMove \/ TuningMoves]_<<part, vars, tuning_vars>>

\* As FairSpec of SpectranTuning.
MCFairSpec == MCSpec /\ WF_tuning_vars(part = "tuning" /\ Tuning!ReaderSteps)

\* What SpectranTuning promises; for the reads, SpectranReads says it.
TuningIsKept == Tuning!TuningIsKept
CallersRequestWins == Tuning!CallersRequestWins
ReaderComesToRest == part = "tuning" => Tuning!ReconnectingEnds
-----------------------------------------------------------------------------
MCFields == {"center_frequency_hz", "sample_rate_hz"}
MCMission == [f \in MCFields |-> 0]
MCConfigured == [f \in MCFields |-> 1]
MCRequests == MCFields \X {1, 2}

MCPackets == {[len |-> 2, freq |-> 10, rate |-> 10],
              [len |-> 1, freq |-> 20, rate |-> 10],
              [len |-> 1, freq |-> 10, rate |-> 20],
              [len |-> 1, freq |-> 0, rate |-> 0]}
=============================================================================
