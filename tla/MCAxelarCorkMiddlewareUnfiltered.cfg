\* Run transfer_send_unfiltered: the transfer stack as app/app.go wires it (the
\* transfer keeper sends straight through the channel keeper; the middleware
\* holds the zero value of the axelarcork keeper).
CONSTANTS
  axelar = axelar
  other = other
  d1 = d1
  d2 = d2
  Channels <- MCChannels
  Data <- MCData
  ValidSends <- MCValidSends
  Receiver <- MCReceiver
  Orders = {"UNORDERED", "ORDERED"}
  Versions = {"", "ics20-1", "ics20-2"}
  TransferIcs4Wrapper = "channel"
  MiddlewareKeeper = "zero"
  MaxSeq = 2
SPECIFICATION Spec
INVARIANTS
  OnlyValidatedPacketsSent
\* The transfer port really falls silent once every channel is closed and no
\* packet is in flight; the send and receive bounds end the others.
CHECK_DEADLOCK FALSE
