\* Two tasks that log lines of up to three bytes (one of them truncated) into a
\* ring of four cells, drained two bytes at a time.
SPECIFICATION FairSpec
CONSTANTS
  RING_SIZE = 4
  THBR_LINE_MAX = 4
  DRAIN_CHUNK = 2
  Tasks = {t1, t2}
  Sender = sender
  Nobody = nobody
  Lengths = {0, 2, 5}
  MaxLines = 2
  Datagrams = 1
INVARIANTS PathTypeOK LinesWhole OneCutOneLine
PROPERTIES ImplementsBacklog Drains
CHECK_DEADLOCK FALSE
