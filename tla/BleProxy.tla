------------------------------ MODULE BleProxy ------------------------------
(***************************************************************************)
(* The BLE proxy of the stick (main/ble_proxy.c): a Matter server drives   *)
(* BLE peripherals through commands that arrive over a websocket.          *)
(*                                                                         *)
(* Three tasks share the state below without a lock:                       *)
(*   - the websocket client's task runs ws_event;                          *)
(*   - the proxy task takes messages off the queue and runs the commands;  *)
(*   - the NimBLE host task runs gap_event and the on_... callbacks.       *)
(*                                                                         *)
(* NimBLE itself (which links stand, whether a scan or a connect procedure *)
(* runs, which GATT procedures are outstanding) is the environment: its    *)
(* calls succeed or fail within what its documented rules allow.           *)
(*                                                                         *)
(* Abstracted: payloads, addresses and UUIDs.  The table of characteristics*)
(* of a slot is reduced to what the commands ask of it: empty, filled, or  *)
(* filled with at least one known CCCD.                                    *)
(***************************************************************************)
EXTENDS Naturals, Sequences, FiniteSets

CONSTANTS
  MAX_CONN,   \* slots of s_conn
  MAX_LINKS,  \* links NimBLE can hold (CONFIG_BT_NIMBLE_MAX_CONNECTIONS)
  Q_DEPTH,    \* depth of the message queue
  Ids,        \* ids the server gives its commands
  NoId,       \* "no command": the id of events and of an idle operation slot
  Commands,   \* the commands the server sends
  MaxProxy    \* bound: proxy handles handed out, below the wrap at 2^16

GattCommands == {"discover_services", "discover_characteristics", "request_mtu",
                 "read_characteristic", "write_characteristic",
                 "write_and_subscribe", "subscribe_characteristic",
                 "unsubscribe_characteristic"}
AllCommands == GattCommands \cup {"start_scan", "stop_scan", "connect", "disconnect", "other"}

ASSUME SizesAssumption ==
  /\ MAX_CONN \in Nat \ {0}
  /\ MAX_LINKS \in Nat \ {0}
  /\ Q_DEPTH \in Nat \ {0}
  /\ MaxProxy \in Nat \ {0}
ASSUME IdAssumption == NoId \notin Ids
ASSUME CommandAssumption == Commands \subseteq AllCommands

Slots   == 1..MAX_CONN
Handles == 1..MAX_LINKS
Proxies == 0..MaxProxy

GattKinds == {"DISC_SVC", "DISC_CHR", "DISC_DSC_MAP", "READ", "WRITE",
              "SUB_WRITE_CCCD", "MTU", "CONNECT_MTU"}
OpKinds   == GattKinds \cup {"NONE", "CONNECT"}

\* The callback that ends an operation of kind k.
CbOf(k) == CASE k = "DISC_SVC" -> "on_disc_svc"
             [] k = "DISC_CHR" -> "on_disc_chr"
             [] k = "DISC_DSC_MAP" -> "on_disc_dsc_map"
             [] k = "READ" -> "on_read"
             [] k \in {"WRITE", "SUB_WRITE_CCCD"} -> "on_write"
             [] OTHER -> "on_mtu"
Callbacks == {"on_disc_svc", "on_disc_chr", "on_disc_dsc_map", "on_read",
              "on_write", "on_mtu"}

VARIABLES
  in_use, live, conn, proxy,  \* s_conn: one function per field
  chr,                        \* what a slot's characteristic table holds
  next_proxy,                 \* s_next_proxy_handle
  op,                         \* s_op
  q,                          \* s_q
  cur,                        \* the message the proxy task has in hand
  pc,                         \* where the proxy task stands in its handler
  scanning,                   \* s_scanning
  up,                         \* the websocket to the Matter server stands
  disc, dial, link, procs     \* NimBLE: scan, connect, links, GATT procedures

slotVars  == <<in_use, live, conn, proxy, chr>>
radioVars == <<disc, dial, link, procs>>
taskVars  == <<cur, pc>>
vars == <<slotVars, next_proxy, op, q, taskVars, scanning, up, radioVars>>

NoOp   == [kind |-> "NONE", id |-> NoId, c |-> 0, sub |-> FALSE]
NoMsg  == [kind |-> "none", id |-> NoId, cmd |-> "none", h |-> 0]
Reply(i) == [kind |-> "reply", id |-> i, cmd |-> "none", h |-> 0]
Event    == [kind |-> "event", id |-> NoId, cmd |-> "none", h |-> 0]
Command(i, c, h) == [kind |-> "cmd", id |-> i, cmd |-> c, h |-> h]

Messages == [kind : {"cmd", "reply", "event"}, id : Ids \cup {NoId},
             cmd : AllCommands \cup {"none"}, h : Proxies]
Operations == [kind : OpKinds, id : Ids \cup {NoId}, c : 0..MAX_CONN, sub : BOOLEAN]

-----------------------------------------------------------------------------
(* Helpers of the source.                                                  *)

\* q_put: a full queue drops the message.
MutantQPutUnbounded(m) == q' = Append(q, m)
q_put(m) == q' = IF Len(q) < Q_DEPTH THEN Append(q, m) ELSE q

q_put_twice(m, n) ==
  q' = IF Len(q) + 1 < Q_DEPTH THEN q \o <<m, n>>
       ELSE IF Len(q) < Q_DEPTH THEN Append(q, m) ELSE q

\* conn_alloc takes the first slot that is not in use.
Allocatable(s) == ~in_use[s] /\ \A t \in Slots : t < s => in_use[t]

\* conn_by_proxy and conn_by_nimble look slots up, pending ones included or not.
ByProxy(s, h)  == in_use[s] /\ proxy[s] = h /\ \A t \in Slots :
                    t < s => ~(in_use[t] /\ proxy[t] = h)
MutantFirstLive(s, h) == in_use[s] /\ live[s] /\ \A t \in Slots :
                           t < s => ~(in_use[t] /\ live[t])
ByNimble(s, h) == in_use[s] /\ live[s] /\ conn[s] = h /\ \A t \in Slots :
                    t < s => ~(in_use[t] /\ live[t] /\ conn[t] = h)

conn_drop_pending == in_use' = [s \in Slots |-> in_use[s] /\ live[s]]

\* conn_release_all: terminate what is live, give every slot back.  s_op and a
\* connect procedure under way are left alone.
conn_release_all ==
  /\ link' = [h \in Handles |->
                IF link[h] = "up" /\ \E s \in Slots : in_use[s] /\ live[s] /\ conn[s] = h
                THEN "closing" ELSE link[h]]
  /\ in_use' = [s \in Slots |-> FALSE]
  /\ live'   = [s \in Slots |-> live[s] /\ ~in_use[s]]
  /\ UNCHANGED <<conn, proxy, chr>>

\* NimBLE takes a call on a link it knows.
Knows(h) == h \in Handles /\ link[h] # "free"

\* A connect that did not work out gives its slot back.
MutantKeepSlot == UNCHANGED in_use
FreeOpSlot == in_use' = [in_use EXCEPT ![op.c] = FALSE]

\* ble_gap_disc_cancel, called when s_scanning is set.
MutantNoCancel == disc
DiscAfterCancel == disc /\ ~scanning

\* op_clear, then the reply for the operation that was in the slot.
MutantReplyOnly == UNCHANGED op /\ q_put(Reply(op.id))
EndOp == op' = NoOp /\ q_put(Reply(op.id))

Init ==
  /\ in_use = [s \in Slots |-> FALSE]
  /\ live   = [s \in Slots |-> FALSE]
  /\ conn   = [s \in Slots |-> 0]
  /\ proxy  = [s \in Slots |-> 0]
  /\ chr    = [s \in Slots |-> "none"]
  /\ next_proxy = 1
  /\ op = NoOp
  /\ q = <<>>
  /\ cur = NoMsg
  /\ pc = "receive"
  /\ scanning = FALSE
  /\ up = FALSE
  /\ disc = FALSE
  /\ dial = FALSE
  /\ link = [h \in Handles |-> "free"]
  /\ procs = {}

-----------------------------------------------------------------------------
(* The websocket client's task: ws_event.                                  *)

WsConnected ==
  /\ ~up
  /\ up' = TRUE
  /\ q_put(Event)                                  \* hello
  /\ UNCHANGED <<slotVars, next_proxy, op, taskVars, scanning, radioVars>>

\* The ids of commands that are on their way, at work or being answered.
IdsAbout == {q[k].id : k \in DOMAIN q} \cup {cur.id, op.id}

\* A command arrives; the server does not reuse an id it still waits for.
\* Scanning and connecting name no connection.
WsData(i, c, h) ==
  /\ up
  /\ c \in {"start_scan", "stop_scan", "connect"} => h = 0
  /\ i \notin IdsAbout
  /\ q_put(Command(i, c, h))
  /\ UNCHANGED <<slotVars, next_proxy, op, taskVars, scanning, up, radioVars>>

\* The link is lost, or one more attempt to dial has failed.
WsDisconnected ==
  /\ up' = FALSE
  /\ scanning' = FALSE
  /\ disc' = DiscAfterCancel
  /\ conn_release_all
  /\ UNCHANGED <<next_proxy, op, q, taskVars, dial, procs>>

-----------------------------------------------------------------------------
(* The proxy task: proxy_task, ws_watchdog, handle_command.                *)

\* xQueueReceive hands the oldest message over.
Receive ==
  /\ pc = "receive"
  /\ q # <<>>
  /\ cur' = Head(q)
  /\ q' = Tail(q)
  /\ pc' = "handle"
  /\ UNCHANGED <<slotVars, next_proxy, op, scanning, up, radioVars>>

\* Nothing arrived for five seconds and the server was silent for a minute: the
\* link, or the attempt at one, is taken down.  Stopping the client may or may not
\* raise DISCONNECTED.
Watchdog ==
  /\ pc = "receive"
  /\ q = <<>>
  /\ up' = FALSE
  /\ conn_release_all
  /\ \/ UNCHANGED <<scanning, disc>>
     \/ scanning' = FALSE /\ disc' = DiscAfterCancel
  /\ UNCHANGED <<next_proxy, op, q, taskVars, dial, procs>>

Done == pc' = "receive" /\ cur' = NoMsg

\* A reply or an event leaves over the socket, or is thrown away without one.
SendOut ==
  /\ pc = "handle"
  /\ cur.kind \in {"reply", "event"}
  /\ Done
  /\ UNCHANGED <<slotVars, next_proxy, op, q, scanning, up, radioVars>>

Handling(c) == pc = "handle" /\ cur.kind = "cmd" /\ cur.cmd = c

\* Every refusal and every immediate answer: the reply, and nothing else.
Answer ==
  /\ Done
  /\ q_put(Reply(cur.id))
  /\ UNCHANGED <<slotVars, next_proxy, op, scanning, up, radioVars>>

\* ble_gap_disc succeeds only while no scan and no connect procedure runs.
StartScan ==
  /\ Handling("start_scan")
  /\ \/ Answer                     \* already_scanning, or ble_gap_disc failed
     \/ /\ ~scanning /\ ~disc /\ ~dial
        /\ disc' = TRUE
        /\ pc' = "disc_started"
        /\ UNCHANGED <<slotVars, next_proxy, op, q, cur, scanning, up, dial, link, procs>>

\* ... and only then is s_scanning set: anything may happen in between.
ScanStarted ==
  /\ pc = "disc_started"
  /\ scanning' = TRUE
  /\ Done
  /\ q_put(Reply(cur.id))
  /\ UNCHANGED <<slotVars, next_proxy, op, up, radioVars>>

StopScan ==
  /\ Handling("stop_scan")
  /\ IF scanning
     THEN /\ disc' = FALSE
          /\ scanning' = FALSE
          /\ Done
          /\ q_put_twice(Reply(cur.id), Event)
          /\ UNCHANGED <<slotVars, next_proxy, op, up, dial, link, procs>>
     ELSE Answer

MutantNeverBusy == FALSE
Busy == op.kind # "NONE"

RefuseBusy ==
  /\ pc = "handle" /\ cur.kind = "cmd"
  /\ cur.cmd \notin {"start_scan", "stop_scan"}
  /\ Busy
  /\ Answer

\* A malformed address, or no free slot.
ConnectRefused ==
  /\ Handling("connect") /\ ~Busy
  /\ Answer

MutantSameHandle == next_proxy
NextHandle == next_proxy + 1                       \* s_next_proxy_handle++

\* A slot is taken, a scan stopped and the operation parked ...
ConnectBegin ==
  /\ Handling("connect") /\ ~Busy
  /\ next_proxy <= MaxProxy
  /\ \E s \in Slots :
       /\ Allocatable(s)
       /\ in_use' = [in_use EXCEPT ![s] = TRUE]
       /\ live'   = [live   EXCEPT ![s] = FALSE]
       /\ conn'   = [conn   EXCEPT ![s] = 0]
       /\ proxy'  = [proxy  EXCEPT ![s] = next_proxy]
       /\ chr'    = [chr    EXCEPT ![s] = "none"]
       /\ op' = [kind |-> "CONNECT", id |-> cur.id, c |-> s, sub |-> FALSE]
  /\ next_proxy' = NextHandle
  /\ scanning' = FALSE
  /\ disc' = DiscAfterCancel
  /\ pc' = "dial"
  /\ UNCHANGED <<q, cur, up, dial, link, procs>>

\* ... before ble_gap_connect, which refuses while it scans or connects, or has
\* no room for another link, or for reasons of its own.
Dial ==
  /\ pc = "dial"
  /\ \/ /\ ~dial /\ ~disc /\ \E h \in Handles : link[h] = "free"
        /\ dial' = TRUE
        /\ UNCHANGED <<slotVars, op, q>>
     \/ /\ FreeOpSlot
        /\ EndOp
        /\ UNCHANGED <<live, conn, proxy, chr, dial>>
  /\ Done
  /\ UNCHANGED <<next_proxy, scanning, up, disc, link, procs>>

\* Every other command names a connection by the handle the proxy gave out.
Naming(s) == pc = "handle" /\ cur.kind = "cmd" /\ ~Busy /\ ByProxy(s, cur.h)

NotConnected ==
  /\ pc = "handle" /\ cur.kind = "cmd" /\ ~Busy
  /\ cur.cmd \notin {"start_scan", "stop_scan", "connect"}
  /\ \A s \in Slots : ~ByProxy(s, cur.h)
  /\ Answer

\* The slot stays taken until the disconnect event, unless there is no link.
Disconnect(s) ==
  /\ cur.cmd = "disconnect" /\ Naming(s)
  /\ LET standing == Knows(conn[s])
     IN /\ link' = IF standing THEN [link EXCEPT ![conn[s]] = "closing"] ELSE link
        /\ in_use' = IF standing THEN in_use ELSE [in_use EXCEPT ![s] = FALSE]
        /\ live'   = IF standing THEN live ELSE [live EXCEPT ![s] = FALSE]
  /\ Done
  /\ q_put(Reply(cur.id))
  /\ UNCHANGED <<conn, proxy, chr, next_proxy, op, scanning, up, disc, dial, procs>>

\* A GATT procedure is parked in s_op and handed to NimBLE, which takes it only
\* on a link it knows, or refuses it: then op_fail answers at once.
StartGatt(s, kind, sub) ==
  /\ \/ /\ Knows(conn[s])
        /\ procs' = procs \cup {[cb |-> CbOf(kind), conn |-> conn[s]]}
        /\ op' = [kind |-> kind, id |-> cur.id, c |-> s, sub |-> sub]
        /\ UNCHANGED q
     \/ /\ op' = NoOp
        /\ q_put(Reply(cur.id))
        /\ UNCHANGED procs
  /\ Done
  /\ UNCHANGED <<in_use, live, conn, proxy, next_proxy, scanning, up, disc, dial, link>>

DiscoverServices(s) ==
  /\ cur.cmd = "discover_services" /\ Naming(s)
  /\ chr' = [chr EXCEPT ![s] = "none"]
  /\ StartGatt(s, "DISC_SVC", FALSE)

DiscoverCharacteristics(s) ==
  /\ cur.cmd = "discover_characteristics" /\ Naming(s)
  /\ chr' = [chr EXCEPT ![s] = "none"]
  /\ StartGatt(s, "DISC_CHR", FALSE)

RequestMtu(s) ==
  /\ cur.cmd = "request_mtu" /\ Naming(s)
  /\ StartGatt(s, "MTU", FALSE)
  /\ UNCHANGED chr

\* An unknown characteristic or command, a bad argument, a missing CCCD, or a
\* write nobody acknowledges, or a link that cannot be terminated: answered on the spot.
AnswerAtOnce(s) ==
  /\ cur.cmd \notin {"start_scan", "stop_scan", "connect",
                     "discover_services", "discover_characteristics", "request_mtu"}
  /\ cur.cmd = "disconnect" => Knows(conn[s])
  /\ Naming(s)
  /\ Answer

ReadCharacteristic(s) ==
  /\ cur.cmd = "read_characteristic" /\ Naming(s)
  /\ chr[s] # "none"
  /\ StartGatt(s, "READ", FALSE)
  /\ UNCHANGED chr

\* With a response, or as the first half of write_and_subscribe.
WriteCharacteristic(s) ==
  /\ cur.cmd \in {"write_characteristic", "write_and_subscribe"} /\ Naming(s)
  /\ chr[s] # "none"
  /\ StartGatt(s, "WRITE", cur.cmd = "write_and_subscribe")
  /\ UNCHANGED chr

SetSubscription(s) ==
  /\ cur.cmd \in {"subscribe_characteristic", "unsubscribe_characteristic"} /\ Naming(s)
  /\ chr[s] = "cccd"
  /\ StartGatt(s, "SUB_WRITE_CCCD", FALSE)
  /\ UNCHANGED chr

CommandOn(s) ==
  \/ Disconnect(s) \/ DiscoverServices(s) \/ DiscoverCharacteristics(s)
  \/ RequestMtu(s) \/ AnswerAtOnce(s) \/ ReadCharacteristic(s)
  \/ WriteCharacteristic(s) \/ SetSubscription(s)

-----------------------------------------------------------------------------
(* The NimBLE host task: gap_event and the GATT callbacks.                 *)

Advertisement ==                                   \* device_discovered
  /\ disc
  /\ q_put(Event)
  /\ UNCHANGED <<slotVars, next_proxy, op, taskVars, scanning, up, radioVars>>

Notification ==
  /\ \E h \in Handles, s \in Slots : link[h] = "up" /\ ByNimble(s, h)
  /\ q_put(Event)
  /\ UNCHANGED <<slotVars, next_proxy, op, taskVars, scanning, up, radioVars>>

\* NimBLE ends the scan of its own accord (a host reset).
DiscComplete ==
  /\ disc
  /\ disc' = FALSE
  /\ scanning' = FALSE
  /\ q_put(Event)
  /\ UNCHANGED <<slotVars, next_proxy, op, taskVars, up, dial, link, procs>>

Expected == op.kind = "CONNECT"

ConnectFailed ==
  /\ dial
  /\ dial' = FALSE
  /\ IF Expected
     THEN FreeOpSlot /\ EndOp
     ELSE conn_drop_pending /\ UNCHANGED <<op, q>>
  /\ UNCHANGED <<live, conn, proxy, chr, next_proxy, taskVars, scanning, up,
                 disc, link, procs>>

\* A link nobody waits for is closed; else the slot goes live and the MTU is
\* negotiated before the command is answered.
Connected(h) ==
  /\ dial /\ link[h] = "free"
  /\ dial' = FALSE
  /\ IF Expected
     THEN /\ live' = [live EXCEPT ![op.c] = TRUE]
          /\ conn' = [conn EXCEPT ![op.c] = h]
          /\ link' = [link EXCEPT ![h] = "up"]
          /\ \/ /\ op' = [op EXCEPT !.kind = "CONNECT_MTU"]
                /\ procs' = procs \cup {[cb |-> "on_mtu", conn |-> h]}
                /\ UNCHANGED q
             \/ EndOp /\ UNCHANGED procs
          /\ UNCHANGED in_use
     ELSE /\ link' = [link EXCEPT ![h] = "closing"]
          /\ conn_drop_pending
          /\ UNCHANGED <<live, conn, op, q, procs>>
  /\ UNCHANGED <<proxy, chr, next_proxy, taskVars, scanning, up, disc>>

\* A link comes down: NimBLE has failed its GATT procedures before this event.
Disconnected(h) ==
  /\ link[h] # "free"
  /\ \A p \in procs : p.conn # h
  /\ link' = [link EXCEPT ![h] = "free"]
  /\ IF \E s \in Slots : ByNimble(s, h)
     THEN /\ LET s == CHOOSE s \in Slots : ByNimble(s, h)
             IN /\ in_use' = [in_use EXCEPT ![s] = FALSE]
                /\ live'   = [live   EXCEPT ![s] = FALSE]
          /\ q_put(Event)
     ELSE UNCHANGED <<in_use, live, q>>
  /\ UNCHANGED <<conn, proxy, chr, next_proxy, op, taskVars, scanning, up,
                 disc, dial, procs>>

\* on_disc_svc, on_read, on_mtu, and on_disc_dsc_map: whatever the outcome, the
\* operation is over.  The descriptor pass leaves CCCDs in the table.
ProcEnds(p) ==
  /\ p \in procs
  /\ p.cb \in {"on_disc_svc", "on_read", "on_mtu", "on_disc_dsc_map"}
  /\ procs' = procs \ {p}
  /\ EndOp
  /\ chr' \in {chr} \cup (IF p.cb = "on_disc_dsc_map"
                          THEN {[chr EXCEPT ![op.c] = "cccd"]} ELSE {})
  /\ UNCHANGED <<in_use, live, conn, proxy, next_proxy, taskVars, scanning, up,
                 disc, dial, link>>

\* on_disc_chr: characteristics found before the end, or before a failure; after
\* the end of a discovery that found some, a second pass looks for descriptors.
CharacteristicsEnd(p) ==
  /\ p \in procs /\ p.cb = "on_disc_chr"
  /\ \E found \in {"none", "plain"}, ok \in BOOLEAN :
       /\ chr' = [chr EXCEPT ![op.c] = found]
       /\ \/ /\ ok /\ found = "plain" /\ Knows(conn[op.c])
             /\ op' = [op EXCEPT !.kind = "DISC_DSC_MAP"]
             /\ procs' = (procs \ {p}) \cup {[cb |-> "on_disc_dsc_map", conn |-> conn[op.c]]}
             /\ UNCHANGED q
          \/ procs' = procs \ {p} /\ EndOp
  /\ UNCHANGED <<in_use, live, conn, proxy, next_proxy, taskVars, scanning, up,
                 disc, dial, link>>

MutantAnswerTwice(p) ==
  /\ p \in procs /\ p.cb = "on_write"
  /\ \/ /\ op.kind = "WRITE" /\ op.sub /\ chr[op.c] = "cccd" /\ Knows(conn[op.c])
        /\ op' = [op EXCEPT !.kind = "SUB_WRITE_CCCD"]
        /\ procs' = (procs \ {p}) \cup {[cb |-> "on_write", conn |-> conn[op.c]]}
        /\ q_put(Reply(op.id))
     \/ procs' = procs \ {p} /\ EndOp
  /\ UNCHANGED <<slotVars, next_proxy, taskVars, scanning, up, disc, dial, link>>

\* on_write: after the write of write_and_subscribe, the CCCD is written next.
WriteEnds(p) ==
  /\ p \in procs /\ p.cb = "on_write"
  /\ \/ /\ op.kind = "WRITE" /\ op.sub /\ chr[op.c] = "cccd" /\ Knows(conn[op.c])
        /\ op' = [op EXCEPT !.kind = "SUB_WRITE_CCCD"]
        /\ procs' = (procs \ {p}) \cup {[cb |-> "on_write", conn |-> conn[op.c]]}
        /\ UNCHANGED q
     \/ procs' = procs \ {p} /\ EndOp
  /\ UNCHANGED <<slotVars, next_proxy, taskVars, scanning, up, disc, dial, link>>

-----------------------------------------------------------------------------
ProxyTask ==
  \/ Receive \/ Watchdog \/ SendOut \/ StartScan \/ ScanStarted \/ StopScan
  \/ RefuseBusy \/ ConnectRefused \/ ConnectBegin \/ Dial \/ NotConnected
  \/ \E s \in Slots : CommandOn(s)

WsTask ==
  \/ WsConnected \/ WsDisconnected
  \/ \E i \in Ids, c \in Commands, h \in Proxies : WsData(i, c, h)

HostTask ==
  \/ Advertisement \/ Notification \/ DiscComplete \/ ConnectFailed
  \/ \E h \in Handles : Connected(h) \/ Disconnected(h)
  \/ \E p \in procs : ProcEnds(p) \/ CharacteristicsEnd(p) \/ WriteEnds(p)

Next == ProxyTask \/ WsTask \/ HostTask

Spec == Init /\ [][Next]_vars

\* Fairness: the proxy task is scheduled, NimBLE ends a connect procedure (it
\* was given 30 s) and every GATT procedure (its own timeout is 30 s).
ProxyStep == pc # "receive" /\ ProxyTask
ConnectEnds == ConnectFailed \/ \E h \in Handles : Connected(h)
GattEnds == \E p \in procs : ProcEnds(p) \/ CharacteristicsEnd(p) \/ WriteEnds(p)
Fairness == /\ WF_vars(Receive) /\ WF_vars(ProxyStep)
            /\ WF_vars(ConnectEnds) /\ WF_vars(GattEnds)
FairSpec == Spec /\ Fairness

-----------------------------------------------------------------------------
(* Properties.                                                             *)

TypeOK ==
  /\ in_use \in [Slots -> BOOLEAN]
  /\ live \in [Slots -> BOOLEAN]
  /\ conn \in [Slots -> 0..MAX_LINKS]
  /\ proxy \in [Slots -> Proxies]
  /\ chr \in [Slots -> {"none", "plain", "cccd"}]
  /\ next_proxy \in 1..(MaxProxy + 1)
  /\ op \in Operations
  /\ q \in Seq(Messages) /\ Len(q) <= Q_DEPTH
  /\ cur \in Messages \cup {NoMsg}
  /\ pc \in {"receive", "handle", "disc_started", "dial"}
  /\ scanning \in BOOLEAN /\ up \in BOOLEAN /\ disc \in BOOLEAN /\ dial \in BOOLEAN
  /\ link \in [Handles -> {"free", "up", "closing"}]
  /\ procs \subseteq [cb : Callbacks, conn : Handles]

\* A slot taken for a connection that is not made yet belongs to the connect in
\* flight: an attempt that came to nothing never keeps its slot (the two lost
\* slots conn_drop_pending tells of), and no command can name a slot whose conn
\* field is still the zero of the memset, which is a real handle.
PendingSlotIsDialing ==
  \A s \in Slots : in_use[s] /\ ~live[s] => op.kind = "CONNECT" /\ op.c = s

\* A slot the server may use stands for a link NimBLE still has, and for one of
\* its own: an event or a terminate that names a link reaches one slot.
LiveSlotHasLink ==
  \A s \in Slots : in_use[s] /\ live[s] =>
    /\ Knows(conn[s])
    /\ \A t \in Slots : in_use[t] /\ live[t] /\ conn[t] = conn[s] => t = s

\* While an operation is parked in s_op, exactly the procedure that will end it
\* runs, on the link of its slot; while none is, no callback is to come.  So a
\* callback never answers about another command (the overwrite the "busy" refusal
\* prevents), and the proxy cannot stay busy with nothing under way.
OperationMatchesRadio ==
  /\ dial <=> op.kind = "CONNECT" /\ pc # "dial"
  /\ IF op.kind \in GattKinds
     THEN procs = {[cb |-> CbOf(op.kind), conn |-> conn[op.c]]}
     ELSE procs = {}
  /\ \A p \in procs : link[p.conn] # "free"

\* What the three of them rest on: an operation has a slot, and the proxy task
\* dials for a connect.
OperationHasSlot ==
  /\ op.kind # "NONE" => op.c \in Slots
  /\ pc = "dial" => op.kind = "CONNECT"

\* The inductive invariant of the proofs.
Consistent ==
  TypeOK /\ PendingSlotIsDialing /\ LiveSlotHasLink /\ OperationMatchesRadio /\ OperationHasSlot

\* A command is in one place at a time - queued, in hand, parked as the operation
\* or as its reply - so it is answered at most once.
Places(i) == {k \in DOMAIN q : q[k].id = i}
OneAnswerPerCommand ==
  \A i \in Ids :
    /\ \A j, k \in Places(i) : j = k
    /\ Places(i) # {} => cur.id # i /\ op.id # i
    /\ cur.id = i => op.id # i \/ pc = "dial"

\* A running scan is one the proxy knows of, so that stop_scan, connect and a
\* lost server can end it; a connect never meets a scan and fails for it.
ScanUnderControl ==
  /\ disc => scanning \/ pc = "disc_started"
  /\ pc = "dial" => ~disc

\* No two connections go by one handle (while fewer than 2^16 were made).
HandlesUnique ==
  \A s, t \in Slots : in_use[s] /\ in_use[t] /\ proxy[s] = proxy[t] => s = t

\* The slot an operation works on is not given to another connection before the
\* operation ends, even when conn_release_all has already freed it: the callbacks
\* write through s_op.c.
SlotHeldByOperation ==
  [][\A s \in Slots : op.kind # "NONE" /\ op.c = s => proxy'[s] = proxy[s]]_vars

\* Every command that reached the queue leaves it, its operation ends, and its
\* answer is sent or dropped: the proxy never wedges.
EveryCommandSettles ==
  \A i \in Ids : (i \in IdsAbout) ~> (i \notin IdsAbout)

\* With no operation in flight, a link that stands is one a slot accounts for: a
\* link nobody waits for any more is closed, "left standing it would hold a slot
\* for good".
StandingLinkHasSlot ==
  op.kind = "NONE" => \A h \in Handles : link[h] = "up" =>
    \E s \in Slots : in_use[s] /\ live[s] /\ conn[s] = h

-----------------------------------------------------------------------------
(* The proxy implements the desk.                                          *)

Queued(i, kind) == \E k \in DOMAIN q : q[k].id = i /\ q[k].kind = kind

CommandState == [i \in Ids |->
  IF op.id = i THEN "working"
  ELSE IF Queued(i, "cmd") \/ (cur.id = i /\ cur.kind = "cmd") THEN "asked"
  ELSE IF Queued(i, "reply") \/ (cur.id = i /\ cur.kind = "reply") THEN "answered"
  ELSE "free"]

Desk == INSTANCE CommandDesk WITH state <- CommandState, full <- Len(q) = Q_DEPTH

\* Refused or worked on, one at a time, answered at most once, and no answer lost
\* but to a full queue.
ImplementsDesk == Desk!Spec
=============================================================================
