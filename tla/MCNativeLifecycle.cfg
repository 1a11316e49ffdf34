SPECIFICATION Spec
CONSTANTS
  Spectrans = {"spectran"}
  Sources = {}
  Sinks = {"sink"}
  Nobody = "nobody"
  Devices <- MCDevices
  Setups <- MCSetups
  Unset = Unset
  Centers = {1}
  Rates = {3, 6, 9}
  SpanBounds = {4}
  Channels = {"Rx1", "Rx2"}
  Rx1 = "Rx1"
  Clocks = {5, 9}
  DEFAULT_RECEIVER_CLOCK = 9
  Decimations = {1, 2}
CONSTRAINT SinkIsBesidePlain
INVARIANTS SdkIsShared DeviceIsGivenBack DeviceIsAsTold
