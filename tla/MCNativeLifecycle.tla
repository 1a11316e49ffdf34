------------------------- MODULE MCNativeLifecycle -------------------------
(***************************************************************************)
(* A SpectranSource beside an SDK sink.  Clocks of 5 and 9 carry rates up  *)
(* to 3 and 6: a rate of 6 needs the faster one, 9 fits none.              *)
(***************************************************************************)
EXTENDS NativeLifecycle

Plain == [center |-> 1, rate |-> 6, channel |-> Unset, span |-> Unset, clock |-> Unset,
          decimation |-> Unset]
MCSetups ==
  [spectran |-> {<<"raw", [Plain EXCEPT !.channel = "Rx2"]>>,
                 <<"raw", [Plain EXCEPT !.rate = 3, !.clock = 5, !.decimation = 2]>>,
                 <<"iqreceiver", Plain>>},
   sink     |-> {<<"raw", [Plain EXCEPT !.rate = 3]>>}]
\* A device that is left on whichever clock it was found on.
MCDevices == {[present |-> Items, ignored |-> {"receiverclock"}]}

\* A sink runs beside a source of a raw stream that leaves the clock to the rate only: what
\* they share, the SDK and the device one of them holds, does not depend on these.
SinkIsBesidePlain ==
  src["sink"]["kept"].made => mode["spectran"] = "raw" /\ config["spectran"].clock = Unset
=============================================================================
