----------------------------- MODULE ProxyLink -----------------------------
(***************************************************************************)
(* The websocket between the BLE proxy and the Matter server, over time    *)
(* (main/ble_proxy.c: ws_event, ws_watchdog, proxy_task).                  *)
(*                                                                         *)
(* The client library dials, pings, and mostly notices a dead link.  When  *)
(* it does not, the link is half open: this side believes in a socket with *)
(* nobody behind it.  ws_watchdog is for that case.  It runs only when     *)
(* xQueueReceive has waited WAIT ticks in vain, on the task that also      *)
(* carries every message of the BLE callbacks.                             *)
(***************************************************************************)
EXTENDS Naturals

CONSTANTS
  WAIT,     \* ticks xQueueReceive waits (5 s)
  LIMIT,    \* ticks of silence the watchdog allows (60 s)
  PONG,     \* ticks within which a live server is heard of (a ping every 10 s)
  Q_DEPTH   \* places in the queue

ASSUME TimeAssumption ==
  /\ WAIT \in Nat \ {0} /\ LIMIT \in Nat \ {0} /\ PONG \in Nat \ {0}
  /\ Q_DEPTH \in Nat \ {0}
  /\ PONG < LIMIT

VARIABLES
  tcp,      \* "none", "up" or "half": what is behind the socket
  quiet,    \* ticks since s_last_rx, up to LIMIT
  heard,    \* s_last_rx is set: there was a link once
  wait,     \* ticks the proxy task has waited for a message
  queued,   \* messages in the queue
  spoke,    \* the BLE side queued a message in this tick
  since,    \* ticks since the server behind the link last sent something
  age       \* history: ticks since the link was made, or redialled by the watchdog

vars == <<tcp, quiet, heard, wait, queued, spoke, since, age>>

Put == queued' = IF queued < Q_DEPTH THEN queued + 1 ELSE queued

Init ==
  /\ tcp = "none" /\ quiet = 0 /\ heard = FALSE /\ wait = 0 /\ queued = 0 /\ age = 0
  /\ spoke = FALSE /\ since = 0

-----------------------------------------------------------------------------
(* ws_event.                                                               *)

\* WEBSOCKET_EVENT_CONNECTED: the clock starts and a hello is queued.
Connected ==
  /\ tcp = "none"
  /\ tcp' = "up"
  /\ quiet' = 0 /\ heard' = TRUE /\ age' = 0 /\ since' = 0
  /\ Put
  /\ UNCHANGED <<wait, spoke>>

MutantPongIgnored == UNCHANGED quiet
Pong == quiet' = 0

\* WEBSOCKET_EVENT_DATA: any frame is a sign of life, only commands are queued.
Frame ==
  /\ tcp = "up"
  /\ \/ Pong /\ UNCHANGED queued
     \/ quiet' = 0 /\ Put
  /\ since' = 0
  /\ UNCHANGED <<tcp, heard, wait, spoke, age>>

\* The library notices that the link is gone (WEBSOCKET_EVENT_DISCONNECTED).
LibraryNotices ==
  /\ tcp # "none"
  /\ tcp' = "none"
  /\ UNCHANGED <<quiet, heard, wait, queued, spoke, since, age>>

\* The server goes away and the library does not notice.
ServerVanishes ==
  /\ tcp = "up"
  /\ tcp' = "half"
  /\ UNCHANGED <<quiet, heard, wait, queued, spoke, since, age>>

-----------------------------------------------------------------------------
(* The BLE callbacks and the proxy task.                                   *)

\* An advertisement, a notification, the end of an operation: one more message,
\* and at most one in a tick (report_due allows one a second per device).
BleTraffic ==
  /\ ~spoke
  /\ spoke' = TRUE
  /\ Put
  /\ UNCHANGED <<tcp, quiet, heard, wait, since, age>>

Take ==
  /\ queued > 0
  /\ queued' = queued - 1
  /\ wait' = 0
  /\ UNCHANGED <<tcp, quiet, heard, spoke, since, age>>

MutantNoReset == UNCHANGED quiet
NewMinute == quiet' = 0                 \* "give the new attempt its own minute"

MutantTrustLibrary == heard /\ quiet = LIMIT /\ tcp = "none"
Silent == heard /\ quiet = LIMIT

\* Nothing came: ws_watchdog takes a silent link down and dials again.
Timeout ==
  /\ queued = 0 /\ wait = WAIT
  /\ wait' = 0
  /\ IF Silent
     THEN NewMinute /\ tcp' = "none" /\ age' = 0
     ELSE UNCHANGED <<tcp, quiet, age>>
  /\ UNCHANGED <<heard, queued, spoke, since>>

\* Time passes while the proxy task waits; a live server answers in time.
Tick ==
  /\ queued = 0 /\ wait < WAIT
  /\ tcp = "up" => since < PONG
  /\ wait' = wait + 1
  /\ quiet' = IF quiet < LIMIT THEN quiet + 1 ELSE quiet
  /\ age'   = IF age < LIMIT THEN age + 1 ELSE age
  /\ since' = IF tcp = "up" THEN since + 1 ELSE 0
  /\ spoke' = FALSE
  /\ UNCHANGED <<tcp, heard, queued>>

Next == \/ Connected \/ Frame \/ LibraryNotices \/ ServerVanishes
        \/ BleTraffic \/ Take \/ Timeout \/ Tick

Spec == Init /\ [][Next]_vars

-----------------------------------------------------------------------------
TypeOK ==
  /\ tcp \in {"none", "up", "half"}
  /\ quiet \in 0..LIMIT /\ heard \in BOOLEAN /\ wait \in 0..WAIT
  /\ queued \in 0..Q_DEPTH /\ spoke \in BOOLEAN
  /\ since \in 0..PONG /\ age \in 0..LIMIT

\* The watchdog never hangs up on a server that is there.
LiveServerSpared == [][tcp = "up" /\ Timeout => tcp' = "up"]_vars

\* A link that was just made, or dialled again by the watchdog, gets its own minute; a
\* dial of the client library's own starts none.
NewLinkHasItsMinute == [][Timeout /\ Silent => age = LIMIT]_vars
=============================================================================
