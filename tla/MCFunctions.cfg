\* Two heads and three entries: a list can be cut in its middle and joined at
\* both ends.  All messages of two bytes.  One speed of each half of the table
\* and one that is unknown; for the other settings each case of the switch that
\* does something different, and one that is not supported; a port as the kernel
\* makes it and one with other options.  Three interfaces beside the loopback
\* for a table of two.
SPECIFICATION SpecAll
CONSTANTS
  Heads = {h1, h2}
  Entries = {e1, e2, e3}
  Poison1 = Poison1
  Poison2 = Poison2
  Bytes <- AllBytes
  MaxLength = 2
  Speeds = {9600, 115200, 4711}
  FlowControls = {0, 1, 2}
  Sizes = {7, 9}
  Parities = {"N", "O", "E", "S", "X"}
  Stops = {1, 2, 3}
  FoundPorts <- TwoPorts
  Interfaces = {lo, eth0, wlan0, usb0}
  Lo = lo
  Eth = eth0
  Empty = Empty
  BufNum = 4
  MaxNum = 2
INVARIANTS
  ListsAreSequences
  CrcIsRemainder
  PortAsAsked
  NetTableExact
\* The messages and the start of the program have an end.
CHECK_DEADLOCK FALSE
