\* Two interfaces: one that is up, one that is not.
SPECIFICATION NetSpec
CONSTANTS
  Interfaces = {lo, eth0, wlan0}
  Lo = lo
  Eth = eth0
  Empty = Empty
  BufNum = 3
  MaxNum = 4
INVARIANT DownIgnored
\* The start of the program has an end.
CHECK_DEADLOCK FALSE
