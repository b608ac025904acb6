--------------------------- MODULE BleProxyProofs ---------------------------
(***************************************************************************)
(* Proofs about the BLE proxy, for every number of slots, links, ids and   *)
(* queue places.                                                           *)
(***************************************************************************)
EXTENDS BleProxy, SequenceTheorems, TLAPS

-----------------------------------------------------------------------------
(* Messages and the queue.                                                 *)

QueueOK == q \in Seq(Messages) /\ Len(q) <= Q_DEPTH

LEMMA MessageTypes ==
  /\ Event \in Messages
  /\ \A i \in Ids \cup {NoId} : Reply(i) \in Messages
  /\ \A i \in Ids, c \in Commands, h \in Proxies : Command(i, c, h) \in Messages
BY CommandAssumption, SizesAssumption
   DEF Messages, Event, Reply, Command, NoMsg, Proxies, AllCommands

LEMMA PutOne ==
  ASSUME QueueOK, NEW m \in Messages, q_put(m)
  PROVE  QueueOK'
BY SizesAssumption DEF QueueOK, q_put

LEMMA PutTwo ==
  ASSUME QueueOK, NEW m \in Messages, NEW n \in Messages, q_put_twice(m, n)
  PROVE  QueueOK'
<1>1. <<m, n>> \in Seq(Messages) /\ Len(<<m, n>>) = 2
  OBVIOUS
<1>2. q \o <<m, n>> \in Seq(Messages) /\ Len(q \o <<m, n>>) = Len(q) + 2
  BY <1>1, ConcatProperties DEF QueueOK
<1>3. Append(q, m) \in Seq(Messages) /\ Len(Append(q, m)) = Len(q) + 1
  BY DEF QueueOK
<1>4. QED
  BY <1>2, <1>3, SizesAssumption DEF QueueOK, q_put_twice

LEMMA TakeOne ==
  ASSUME QueueOK, q # <<>>
  PROVE  /\ Head(q) \in Messages
         /\ Tail(q) \in Seq(Messages) /\ Len(Tail(q)) <= Q_DEPTH
BY SizesAssumption DEF QueueOK

LEMMA OperationTypes ==
  /\ NoOp \in Operations
  /\ \A k \in OpKinds, i \in Ids \cup {NoId}, s \in Slots, b \in BOOLEAN :
       [kind |-> k, id |-> i, c |-> s, sub |-> b] \in Operations
  /\ \A o \in Operations : /\ o.kind \in OpKinds /\ o.id \in Ids \cup {NoId}
                           /\ o.c \in 0..MAX_CONN /\ o.sub \in BOOLEAN
  /\ \A o \in Operations, k \in OpKinds : [o EXCEPT !.kind = k] \in Operations
<1>1. 0 \in 0..MAX_CONN /\ Slots \subseteq 0..MAX_CONN
  BY SizesAssumption DEF Slots
<1>2. NoOp \in Operations
  BY <1>1 DEF NoOp, Operations, OpKinds
<1>3. ASSUME NEW o \in Operations, NEW k \in OpKinds
      PROVE  [o EXCEPT !.kind = k] \in Operations
  BY DEF Operations
<1>4. ASSUME NEW k \in OpKinds, NEW i \in Ids \cup {NoId}, NEW s \in Slots, NEW b \in BOOLEAN
      PROVE  [kind |-> k, id |-> i, c |-> s, sub |-> b] \in Operations
  BY <1>1 DEF Operations
<1>5. ASSUME NEW o \in Operations
      PROVE  /\ o.kind \in OpKinds /\ o.id \in Ids \cup {NoId}
             /\ o.c \in 0..MAX_CONN /\ o.sub \in BOOLEAN
  BY DEF Operations
<1>6. QED
  BY <1>2, <1>3, <1>4, <1>5

-----------------------------------------------------------------------------
(* Type correctness.                                                       *)

LEMMA InitType == Init => TypeOK
<1> SUFFICES ASSUME Init PROVE TypeOK
  OBVIOUS
<1>1. op \in Operations
  BY OperationTypes DEF Init
<1>2. q \in Seq(Messages) /\ Len(q) <= Q_DEPTH
  BY SizesAssumption DEF Init
<1>3. /\ conn \in [Slots -> 0..MAX_LINKS] /\ proxy \in [Slots -> Proxies]
      /\ next_proxy \in 1..(MaxProxy + 1)
  BY SizesAssumption DEF Init, Slots, Proxies
<1>4. QED
  BY <1>1, <1>2, <1>3 DEF Init, TypeOK

USE DEF Slots, Handles, Proxies, vars, slotVars, radioVars, taskVars

LEMMA IdTypes ==
  ASSUME TypeOK
  PROVE  /\ cur.id \in Ids \cup {NoId} /\ op.id \in Ids \cup {NoId}
         /\ Reply(cur.id) \in Messages /\ Reply(op.id) \in Messages
BY MessageTypes, OperationTypes DEF TypeOK, Messages, NoMsg

LEMMA StartGattType ==
  ASSUME TypeOK, NEW s \in Slots, NEW k \in GattKinds, NEW b \in BOOLEAN,
         chr' \in [Slots -> {"none", "plain", "cccd"}], StartGatt(s, k, b)
  PROVE  TypeOK'
<1>1. CbOf(k) \in Callbacks
  BY DEF CbOf, Callbacks
<1>2. op' \in Operations
  BY OperationTypes, IdTypes DEF StartGatt, OpKinds
<1>3. QueueOK'
  BY PutOne, IdTypes DEF StartGatt, QueueOK, TypeOK
<1>4. procs' \subseteq [cb : Callbacks, conn : Handles]
  BY <1>1 DEF StartGatt, TypeOK, Knows
<1>5. QED
  BY <1>2, <1>3, <1>4 DEF StartGatt, TypeOK, QueueOK, Done

LEMMA CommandType ==
  ASSUME TypeOK, NEW s \in Slots, CommandOn(s)
  PROVE  TypeOK'
<1>1. CASE Disconnect(s)
  BY <1>1, PutOne, IdTypes DEF Disconnect, TypeOK, QueueOK, Done, Knows
<1>2. CASE DiscoverServices(s)
  BY <1>2, StartGattType DEF DiscoverServices, TypeOK, GattKinds
<1>3. CASE DiscoverCharacteristics(s)
  BY <1>3, StartGattType DEF DiscoverCharacteristics, TypeOK, GattKinds
<1>4. CASE RequestMtu(s)
  BY <1>4, StartGattType DEF RequestMtu, TypeOK, GattKinds
<1>5. CASE AnswerAtOnce(s)
  BY <1>5, PutOne, IdTypes DEF AnswerAtOnce, Answer, Done, TypeOK, QueueOK
<1>6. CASE ReadCharacteristic(s)
  BY <1>6, StartGattType DEF ReadCharacteristic, TypeOK, GattKinds
<1>7. CASE WriteCharacteristic(s)
  BY <1>7, StartGattType DEF WriteCharacteristic, TypeOK, GattKinds
<1>8. CASE SetSubscription(s)
  BY <1>8, StartGattType DEF SetSubscription, TypeOK, GattKinds
<1>9. QED
  BY <1>1, <1>2, <1>3, <1>4, <1>5, <1>6, <1>7, <1>8 DEF CommandOn

LEMMA ProxyType ==
  ASSUME TypeOK, ProxyTask
  PROVE  TypeOK'
<1> USE SizesAssumption, IdTypes, MessageTypes
<1> USE DEF TypeOK, Done, Answer
<1>1. CASE Receive
  BY <1>1, TakeOne DEF Receive, QueueOK
<1>2. CASE Watchdog
  BY <1>2 DEF Watchdog, conn_release_all, DiscAfterCancel
<1>3. CASE SendOut
  BY <1>3 DEF SendOut
<1>4. CASE StartScan
  BY <1>4, PutOne DEF StartScan, Handling, QueueOK
<1>5. CASE ScanStarted
  BY <1>5, PutOne DEF ScanStarted, QueueOK
<1>6. CASE StopScan
  BY <1>6, PutOne, PutTwo DEF StopScan, QueueOK
<1>7. CASE RefuseBusy
  BY <1>7, PutOne DEF RefuseBusy, QueueOK
<1>8. CASE ConnectRefused
  BY <1>8, PutOne DEF ConnectRefused, QueueOK
<1>9. CASE ConnectBegin
  <2>1. PICK s \in Slots :
          /\ in_use' = [in_use EXCEPT ![s] = TRUE]
          /\ live'   = [live   EXCEPT ![s] = FALSE]
          /\ conn'   = [conn   EXCEPT ![s] = 0]
          /\ proxy'  = [proxy  EXCEPT ![s] = next_proxy]
          /\ chr'    = [chr    EXCEPT ![s] = "none"]
          /\ op' = [kind |-> "CONNECT", id |-> cur.id, c |-> s, sub |-> FALSE]
    BY <1>9 DEF ConnectBegin
  <2>2. op' \in Operations
    BY <2>1, OperationTypes DEF OpKinds
  <2>3. next_proxy \in Proxies /\ next_proxy' \in 1..(MaxProxy + 1)
    BY <1>9 DEF ConnectBegin, NextHandle
  <2>4. /\ in_use' \in [Slots -> BOOLEAN] /\ live' \in [Slots -> BOOLEAN]
        /\ conn' \in [Slots -> 0..MAX_LINKS] /\ proxy' \in [Slots -> Proxies]
        /\ chr' \in [Slots -> {"none", "plain", "cccd"}]
    BY <2>1, <2>3, SizesAssumption, 0 \in 0..MAX_LINKS
  <2>5. /\ UNCHANGED <<q, cur, up, dial, link, procs>>
        /\ pc' = "dial" /\ scanning' = FALSE /\ disc' \in BOOLEAN
    BY <1>9 DEF ConnectBegin, DiscAfterCancel
  <2>6. QED
    BY <2>2, <2>3, <2>4, <2>5
<1>10. CASE Dial
  <2>1. op' \in Operations /\ QueueOK'
    BY <1>10, PutOne, OperationTypes DEF Dial, EndOp, QueueOK
  <2>2. in_use' \in [Slots -> BOOLEAN]
    BY <1>10 DEF Dial, FreeOpSlot
  <2>3. QED
    BY <1>10, <2>1, <2>2 DEF Dial, QueueOK
<1>11. CASE NotConnected
  BY <1>11, PutOne DEF NotConnected, QueueOK
<1>12. ASSUME NEW s \in Slots, CommandOn(s) PROVE TypeOK'
  BY <1>12, CommandType
<1>13. QED
  BY <1>1, <1>2, <1>3, <1>4, <1>5, <1>6, <1>7, <1>8, <1>9, <1>10, <1>11, <1>12
     DEF ProxyTask

LEMMA WsType ==
  ASSUME TypeOK, WsTask
  PROVE  TypeOK'
<1> USE MessageTypes DEF TypeOK
<1>1. CASE WsConnected
  BY <1>1, PutOne DEF WsConnected, QueueOK
<1>2. CASE WsDisconnected
  BY <1>2 DEF WsDisconnected, conn_release_all, DiscAfterCancel
<1>3. ASSUME NEW i \in Ids, NEW c \in Commands, NEW h \in Proxies, WsData(i, c, h)
      PROVE  TypeOK'
  BY <1>3, PutOne DEF WsData, QueueOK
<1>4. QED
  BY <1>1, <1>2, <1>3 DEF WsTask

LEMMA CallbackType ==
  ASSUME TypeOK, NEW p \in procs, ProcEnds(p) \/ CharacteristicsEnd(p) \/ WriteEnds(p)
  PROVE  TypeOK'
<1>1. ASSUME EndOp PROVE op' \in Operations /\ QueueOK'
  BY <1>1, PutOne, OperationTypes, IdTypes DEF EndOp, QueueOK, TypeOK
<1>2. ASSUME NEW k \in GattKinds, op' = [op EXCEPT !.kind = k], UNCHANGED q
      PROVE  op' \in Operations /\ QueueOK'
  BY <1>2, OperationTypes DEF TypeOK, QueueOK, OpKinds
<1>3. ASSUME NEW cb \in Callbacks, Knows(conn[op.c]),
             procs' = (procs \ {p}) \cup {[cb |-> cb, conn |-> conn[op.c]]}
      PROVE  procs' \subseteq [cb : Callbacks, conn : Handles]
  BY <1>3 DEF TypeOK, Knows
<1>4. ASSUME procs' = procs \ {p}
      PROVE  procs' \subseteq [cb : Callbacks, conn : Handles]
  BY <1>4 DEF TypeOK
<1>5. CASE ProcEnds(p)
  BY <1>1, <1>4, <1>5 DEF ProcEnds, TypeOK, QueueOK
<1>6. CASE CharacteristicsEnd(p)
  <2>1. PICK found \in {"none", "plain"} :
          /\ chr' = [chr EXCEPT ![op.c] = found]
          /\ \/ /\ Knows(conn[op.c])
                /\ op' = [op EXCEPT !.kind = "DISC_DSC_MAP"]
                /\ procs' = (procs \ {p}) \cup {[cb |-> "on_disc_dsc_map", conn |-> conn[op.c]]}
                /\ UNCHANGED q
             \/ procs' = procs \ {p} /\ EndOp
    BY <1>6 DEF CharacteristicsEnd
  <2>2. chr' \in [Slots -> {"none", "plain", "cccd"}]
    BY <2>1 DEF TypeOK
  <2>3. op' \in Operations /\ QueueOK'
    BY <1>1, <1>2, <2>1 DEF GattKinds
  <2>4. procs' \subseteq [cb : Callbacks, conn : Handles]
    BY <1>3, <1>4, <2>1 DEF Callbacks
  <2>5. QED
    BY <1>6, <2>2, <2>3, <2>4 DEF CharacteristicsEnd, TypeOK, QueueOK
<1>7. CASE WriteEnds(p)
  <2>1. op' \in Operations /\ QueueOK'
    BY <1>1, <1>2, <1>7 DEF WriteEnds, GattKinds
  <2>2. procs' \subseteq [cb : Callbacks, conn : Handles]
    BY <1>3, <1>4, <1>7 DEF WriteEnds, Callbacks
  <2>3. QED
    BY <1>7, <2>1, <2>2 DEF WriteEnds, TypeOK, QueueOK
<1>8. QED
  BY <1>5, <1>6, <1>7

LEMMA HostType ==
  ASSUME TypeOK, HostTask
  PROVE  TypeOK'
<1> USE MessageTypes, IdTypes DEF TypeOK
<1>1. CASE Advertisement
  BY <1>1, PutOne DEF Advertisement, QueueOK
<1>2. CASE Notification
  BY <1>2, PutOne DEF Notification, QueueOK
<1>3. CASE DiscComplete
  BY <1>3, PutOne DEF DiscComplete, QueueOK
<1>4. CASE ConnectFailed
  BY <1>4, PutOne, OperationTypes
     DEF ConnectFailed, QueueOK, FreeOpSlot, EndOp, conn_drop_pending
<1>5. ASSUME NEW h \in Handles, Connected(h)
      PROVE  TypeOK'
  <2>a. ASSUME EndOp PROVE op' \in Operations /\ QueueOK'
    BY <2>a, PutOne, OperationTypes DEF EndOp, QueueOK
  <2>b. [op EXCEPT !.kind = "CONNECT_MTU"] \in Operations
    BY OperationTypes DEF OpKinds, GattKinds
  <2>1. op' \in Operations /\ QueueOK'
    BY <1>5, <2>a, <2>b DEF Connected, QueueOK
  <2>2. procs' \subseteq [cb : Callbacks, conn : Handles]
    BY <1>5 DEF Connected, Callbacks
  <2>c. in_use' \in [Slots -> BOOLEAN]
    BY <1>5 DEF Connected, conn_drop_pending
  <2>d. live' \in [Slots -> BOOLEAN]
    BY <1>5 DEF Connected
  <2>e. conn' \in [Slots -> 0..MAX_LINKS]
    BY <1>5, SizesAssumption DEF Connected
  <2>3. in_use' \in [Slots -> BOOLEAN] /\ live' \in [Slots -> BOOLEAN]
        /\ conn' \in [Slots -> 0..MAX_LINKS]
    BY <2>c, <2>d, <2>e
  <2>4. link' \in [Handles -> {"free", "up", "closing"}] /\ dial' = FALSE
    BY <1>5 DEF Connected
  <2>5. QED
    BY <1>5, <2>1, <2>2, <2>3, <2>4 DEF Connected, QueueOK
<1>6. ASSUME NEW h \in Handles, Disconnected(h)
      PROVE  TypeOK'
  BY <1>6, PutOne DEF Disconnected, QueueOK
<1>7. QED
  BY <1>1, <1>2, <1>3, <1>4, <1>5, <1>6, CallbackType DEF HostTask

LEMMA TypeStep == TypeOK /\ [Next]_vars => TypeOK'
<1>1. TypeOK /\ UNCHANGED vars => TypeOK'
  BY DEF TypeOK
<1>2. QED
  BY <1>1, ProxyType, WsType, HostType DEF Next

\* Every variable keeps to its type, and the queue to its depth, whatever the
\* sizes of the tables.
THEOREM TypeCorrect == Spec => []TypeOK
BY InitType, TypeStep, PTL DEF Spec

-----------------------------------------------------------------------------
(* Slots, operation and radio agree.                                       *)

LEMMA InitConsistent == Init => Consistent
BY InitType
   DEF Init, Consistent, PendingSlotIsDialing, LiveSlotHasLink,
       OperationMatchesRadio, OperationHasSlot, NoOp, GattKinds

\* What most steps do to slots, operation and radio: nothing.
Quiet == /\ UNCHANGED <<in_use, live, conn, op, dial, link, procs>>
         /\ pc' = "dial" <=> pc = "dial"

LEMMA QuietKeeps ==
  ASSUME Consistent, TypeOK', Quiet
  PROVE  Consistent'
BY DEF Consistent, Quiet, PendingSlotIsDialing, LiveSlotHasLink,
       OperationMatchesRadio, OperationHasSlot, Knows

LEMMA QuietSteps ==
  ASSUME \/ Receive \/ SendOut \/ StartScan \/ ScanStarted \/ StopScan
         \/ RefuseBusy \/ ConnectRefused \/ NotConnected
         \/ \E s \in Slots : AnswerAtOnce(s)
         \/ WsConnected \/ \E i \in Ids, c \in Commands, h \in Proxies : WsData(i, c, h)
         \/ Advertisement \/ Notification \/ DiscComplete
  PROVE  Quiet
BY DEF Receive, SendOut, StartScan, ScanStarted, StopScan, RefuseBusy, Handling,
       ConnectRefused, NotConnected, AnswerAtOnce, Naming, Answer, Done,
       WsConnected, WsData, Advertisement, Notification, DiscComplete, Quiet

\* Giving every slot back keeps everything consistent, in the middle of an
\* operation too.
LEMMA ReleaseKeeps ==
  ASSUME Consistent, TypeOK', conn_release_all, UNCHANGED <<op, dial, procs, pc>>
  PROVE  Consistent'
<1> USE DEF Consistent, conn_release_all
<1>1. PendingSlotIsDialing' /\ LiveSlotHasLink'
  BY DEF PendingSlotIsDialing, LiveSlotHasLink
<1>2. OperationMatchesRadio'
  BY DEF OperationMatchesRadio, TypeOK
<1>3. OperationHasSlot'
  BY DEF OperationHasSlot
<1>4. QED
  BY <1>1, <1>2, <1>3

LEMMA IdleRadio ==
  ASSUME Consistent, ~Busy
  PROVE  /\ procs = {} /\ ~dial /\ op.kind = "NONE"
         /\ \A s \in Slots : in_use[s] => live[s]
         /\ pc # "dial"
BY DEF Consistent, Busy, PendingSlotIsDialing, OperationMatchesRadio,
       OperationHasSlot, GattKinds, TypeOK

LEMMA ConnectBeginKeeps ==
  ASSUME Consistent, TypeOK', ConnectBegin
  PROVE  Consistent'
<1>1. PICK s \in Slots :
        /\ in_use' = [in_use EXCEPT ![s] = TRUE]
        /\ live'   = [live   EXCEPT ![s] = FALSE]
        /\ conn'   = [conn   EXCEPT ![s] = 0]
        /\ op' = [kind |-> "CONNECT", id |-> cur.id, c |-> s, sub |-> FALSE]
  BY DEF ConnectBegin
<1>2. /\ UNCHANGED <<dial, link, procs>>
      /\ pc' = "dial"
  BY DEF ConnectBegin
<1>3. procs = {} /\ ~dial /\ \A t \in Slots : in_use[t] => live[t]
  BY IdleRadio DEF ConnectBegin
<1>4. PendingSlotIsDialing'
  BY <1>1, <1>3 DEF PendingSlotIsDialing, Consistent, TypeOK
<1>5. LiveSlotHasLink'
  BY <1>1, <1>2 DEF LiveSlotHasLink, Consistent, TypeOK, Knows
<1>6. OperationMatchesRadio'
  BY <1>1, <1>2, <1>3 DEF OperationMatchesRadio, GattKinds
<1>7. OperationHasSlot'
  BY <1>1, <1>2 DEF OperationHasSlot
<1>8. QED
  BY <1>4, <1>5, <1>6, <1>7 DEF Consistent

LEMMA DialKeeps ==
  ASSUME Consistent, TypeOK', Dial
  PROVE  Consistent'
<1>1. /\ op.kind = "CONNECT" /\ op.c \in Slots /\ ~dial /\ procs = {}
      /\ \A s \in Slots : in_use[s] /\ ~live[s] => s = op.c
  BY DEF Consistent, Dial, OperationHasSlot, OperationMatchesRadio,
         PendingSlotIsDialing, GattKinds, TypeOK
<1>2. CASE dial' /\ UNCHANGED <<slotVars, op, q>>
  BY <1>1, <1>2 DEF Dial, Done, Consistent, PendingSlotIsDialing, LiveSlotHasLink,
     OperationMatchesRadio, OperationHasSlot, GattKinds, Knows, TypeOK
<1>3. CASE FreeOpSlot /\ EndOp /\ UNCHANGED <<live, conn, proxy, chr, dial>>
  <2>1. op'.kind = "NONE" /\ pc' = "receive" /\ UNCHANGED <<link, procs>>
    BY <1>3 DEF EndOp, NoOp, Dial, Done
  <2>2. PendingSlotIsDialing'
    BY <1>1, <1>3 DEF FreeOpSlot, PendingSlotIsDialing, Consistent, TypeOK
  <2>3. LiveSlotHasLink'
    BY <1>3, <2>1 DEF FreeOpSlot, LiveSlotHasLink, Consistent, TypeOK, Knows
  <2>4. OperationMatchesRadio' /\ OperationHasSlot'
    BY <1>1, <1>3, <2>1 DEF OperationMatchesRadio, OperationHasSlot, GattKinds
  <2>5. QED
    BY <2>2, <2>3, <2>4 DEF Consistent
<1>4. QED
  BY <1>2, <1>3 DEF Dial

LEMMA DisconnectKeeps ==
  ASSUME Consistent, TypeOK', NEW s \in Slots, Disconnect(s)
  PROVE  Consistent'
<1>1. /\ procs = {} /\ ~dial /\ op.kind = "NONE" /\ pc # "dial" /\ pc' = "receive"
      /\ in_use[s] /\ live[s]
  BY IdleRadio DEF Disconnect, Naming, ByProxy, Done
<1>2. Knows(conn[s])
  BY <1>1 DEF Consistent, LiveSlotHasLink
<1>3. /\ link' = [link EXCEPT ![conn[s]] = "closing"]
      /\ UNCHANGED <<in_use, live, conn, op, dial, procs>>
  BY <1>2 DEF Disconnect, Knows
<1>4. \A h \in Handles : link[h] # "free" => link'[h] # "free"
  BY <1>2, <1>3 DEF Knows, Consistent, TypeOK
<1>5. QED
  BY <1>1, <1>3, <1>4 DEF Consistent, PendingSlotIsDialing, LiveSlotHasLink,
     OperationMatchesRadio, OperationHasSlot, GattKinds, Knows

LEMMA StartGattKeeps ==
  ASSUME Consistent, TypeOK', NEW s \in Slots, NEW k \in GattKinds, NEW b \in BOOLEAN,
         Naming(s), StartGatt(s, k, b)
  PROVE  Consistent'
<1>1. /\ procs = {} /\ ~dial /\ op.kind = "NONE" /\ pc # "dial" /\ pc' = "receive"
      /\ \A t \in Slots : in_use[t] => live[t]
  BY IdleRadio DEF Naming, StartGatt, Done
<1>2. UNCHANGED <<in_use, live, conn, dial, link>>
  BY DEF StartGatt
<1>3. PendingSlotIsDialing' /\ LiveSlotHasLink'
  BY <1>1, <1>2 DEF PendingSlotIsDialing, LiveSlotHasLink, Consistent, Knows
<1>4. CASE /\ Knows(conn[s])
           /\ procs' = procs \cup {[cb |-> CbOf(k), conn |-> conn[s]]}
           /\ op' = [kind |-> k, id |-> cur.id, c |-> s, sub |-> b]
  <2>1. op'.kind = k /\ op'.c = s /\ procs' = {[cb |-> CbOf(k), conn |-> conn'[s]]}
    BY <1>1, <1>2, <1>4
  <2>2. OperationMatchesRadio'
    BY <1>1, <1>2, <1>4, <2>1 DEF OperationMatchesRadio, GattKinds, Knows
  <2>3. OperationHasSlot'
    BY <1>1, <2>1 DEF OperationHasSlot
  <2>4. QED
    BY <1>3, <2>2, <2>3 DEF Consistent
<1>5. CASE op' = NoOp /\ UNCHANGED procs
  <2>1. op'.kind = "NONE"
    BY <1>5 DEF NoOp
  <2>2. QED
    BY <1>1, <1>2, <1>3, <1>5, <2>1
       DEF OperationMatchesRadio, OperationHasSlot, GattKinds, Consistent
<1>6. QED
  BY <1>4, <1>5 DEF StartGatt

LEMMA CommandKeeps ==
  ASSUME Consistent, TypeOK', NEW s \in Slots, CommandOn(s)
  PROVE  Consistent'
<1>1. CASE Disconnect(s)
  BY <1>1, DisconnectKeeps
<1>2. CASE AnswerAtOnce(s)
  BY <1>2, QuietSteps, QuietKeeps
<1>3. CASE DiscoverServices(s)
  BY <1>3, StartGattKeeps DEF DiscoverServices, GattKinds
<1>4. CASE DiscoverCharacteristics(s)
  BY <1>4, StartGattKeeps DEF DiscoverCharacteristics, GattKinds
<1>5. CASE RequestMtu(s)
  BY <1>5, StartGattKeeps DEF RequestMtu, GattKinds
<1>6. CASE ReadCharacteristic(s)
  BY <1>6, StartGattKeeps DEF ReadCharacteristic, GattKinds
<1>7. CASE WriteCharacteristic(s)
  BY <1>7, StartGattKeeps DEF WriteCharacteristic, GattKinds
<1>8. CASE SetSubscription(s)
  BY <1>8, StartGattKeeps DEF SetSubscription, GattKinds
<1>9. QED
  BY <1>1, <1>2, <1>3, <1>4, <1>5, <1>6, <1>7, <1>8 DEF CommandOn

\* While a connect procedure runs, the operation is that connect: the branches of
\* gap_event for a link nobody waits for are never taken.
LEMMA DialingIsExpected ==
  ASSUME Consistent, dial
  PROVE  Expected /\ op.c \in Slots /\ procs = {} /\ pc # "dial"
BY DEF Consistent, OperationMatchesRadio, OperationHasSlot, Expected, GattKinds

LEMMA ConnectFailedKeeps ==
  ASSUME Consistent, TypeOK', ConnectFailed
  PROVE  Consistent'
<1>1. /\ Expected /\ op.c \in Slots /\ procs = {} /\ pc # "dial"
      /\ \A s \in Slots : in_use[s] /\ ~live[s] => s = op.c
  BY DialingIsExpected DEF ConnectFailed, Consistent, PendingSlotIsDialing
<1>2. /\ op'.kind = "NONE" /\ ~dial' /\ UNCHANGED <<live, conn, pc, link, procs>>
      /\ in_use' = [in_use EXCEPT ![op.c] = FALSE]
  BY <1>1 DEF ConnectFailed, FreeOpSlot, EndOp, NoOp, taskVars
<1>3. PendingSlotIsDialing'
  BY <1>1, <1>2 DEF PendingSlotIsDialing, Consistent, TypeOK
<1>4. LiveSlotHasLink'
  BY <1>2 DEF LiveSlotHasLink, Consistent, TypeOK, Knows
<1>5. OperationMatchesRadio' /\ OperationHasSlot'
  BY <1>1, <1>2 DEF OperationMatchesRadio, OperationHasSlot, GattKinds
<1>6. QED
  BY <1>3, <1>4, <1>5 DEF Consistent

LEMMA ConnectedKeeps ==
  ASSUME Consistent, TypeOK', NEW h \in Handles, Connected(h)
  PROVE  Consistent'
<1>1. /\ Expected /\ op.c \in Slots /\ procs = {} /\ pc # "dial" /\ link[h] = "free"
      /\ \A s \in Slots : in_use[s] /\ ~live[s] => s = op.c
  BY DialingIsExpected DEF Connected, Consistent, PendingSlotIsDialing
<1>2. /\ live' = [live EXCEPT ![op.c] = TRUE]
      /\ conn' = [conn EXCEPT ![op.c] = h]
      /\ link' = [link EXCEPT ![h] = "up"]
      /\ ~dial' /\ UNCHANGED <<in_use, pc>>
  BY <1>1 DEF Connected, taskVars
<1>3. \A s \in Slots : in_use[s] /\ live[s] => conn[s] # h
  BY <1>1 DEF Consistent, LiveSlotHasLink, Knows
<1>4. PendingSlotIsDialing'
  BY <1>1, <1>2 DEF PendingSlotIsDialing, Consistent, TypeOK
<1>5. LiveSlotHasLink'
  BY <1>1, <1>2, <1>3 DEF LiveSlotHasLink, Consistent, TypeOK, Knows
<1>6. CASE /\ op' = [op EXCEPT !.kind = "CONNECT_MTU"]
           /\ procs' = procs \cup {[cb |-> "on_mtu", conn |-> h]}
  <2>1. op'.kind = "CONNECT_MTU" /\ op'.c = op.c /\ conn'[op.c] = h /\ link'[h] = "up"
    BY <1>1, <1>2, <1>6 DEF Consistent, TypeOK, Operations
  <2>2. procs' = {[cb |-> CbOf("CONNECT_MTU"), conn |-> h]}
    BY <1>1, <1>6 DEF CbOf
  <2>3. QED
    BY <1>1, <1>2, <1>4, <1>5, <2>1, <2>2
       DEF OperationMatchesRadio, OperationHasSlot, GattKinds, Consistent
<1>7. CASE EndOp /\ UNCHANGED procs
  <2>1. op'.kind = "NONE"
    BY <1>7 DEF EndOp, NoOp
  <2>2. QED
    BY <1>1, <1>2, <1>4, <1>5, <1>7, <2>1
       DEF OperationMatchesRadio, OperationHasSlot, GattKinds, Consistent
<1>8. QED
  BY <1>1, <1>6, <1>7 DEF Connected

LEMMA DisconnectedKeeps ==
  ASSUME Consistent, TypeOK', NEW h \in Handles, Disconnected(h)
  PROVE  Consistent'
<1>1. /\ link' = [link EXCEPT ![h] = "free"]
      /\ \A p \in procs : p.conn # h
      /\ UNCHANGED <<conn, op, pc, dial, procs>>
  BY DEF Disconnected, taskVars
<1>2. ASSUME NEW s \in Slots, in_use'[s], live'[s]
      PROVE  in_use[s] /\ live[s] /\ conn[s] # h
  <2>1. CASE \E t \in Slots : ByNimble(t, h)
    <3>1. PICK t \in Slots : /\ ByNimble(t, h)
                             /\ in_use' = [in_use EXCEPT ![t] = FALSE]
                             /\ live' = [live EXCEPT ![t] = FALSE]
      BY <2>1 DEF Disconnected
    <3>2. s # t /\ in_use[s] /\ live[s]
      BY <1>2, <3>1 DEF Consistent, TypeOK
    <3>3. QED
      BY <3>1, <3>2 DEF ByNimble, Consistent, LiveSlotHasLink
  <2>2. CASE ~ \E t \in Slots : ByNimble(t, h)
    <3>1. in_use[s] /\ live[s]
      BY <1>2, <2>2 DEF Disconnected
    <3>2. SUFFICES ASSUME conn[s] = h PROVE FALSE
      BY <3>1
    <3>3. \A t \in Slots : in_use[t] /\ live[t] /\ conn[t] = h => t = s
      BY <3>1, <3>2 DEF Consistent, LiveSlotHasLink
    <3>4. ByNimble(s, h)
      BY <3>1, <3>2, <3>3 DEF ByNimble
    <3>5. QED
      BY <2>2, <3>4
  <2>3. QED
    BY <2>1, <2>2
<1>3. ASSUME NEW s \in Slots, in_use'[s], ~live'[s]
      PROVE  in_use[s] /\ ~live[s]
  BY <1>3 DEF Disconnected, Consistent, TypeOK
<1>4. PendingSlotIsDialing'
  BY <1>1, <1>3 DEF PendingSlotIsDialing, Consistent
<1>5. LiveSlotHasLink'
  BY <1>1, <1>2 DEF LiveSlotHasLink, Consistent, Knows, TypeOK
<1>6. OperationMatchesRadio'
  BY <1>1 DEF OperationMatchesRadio, Consistent, TypeOK
<1>7. OperationHasSlot'
  BY <1>1 DEF OperationHasSlot, Consistent
<1>8. QED
  BY <1>4, <1>5, <1>6, <1>7 DEF Consistent

\* A callback finds the operation that started its procedure still parked.
LEMMA CallbackIsExpected ==
  ASSUME Consistent, NEW p \in procs
  PROVE  /\ op.kind \in GattKinds /\ op.c \in Slots /\ ~dial /\ pc # "dial"
         /\ procs = {p} /\ p = [cb |-> CbOf(op.kind), conn |-> conn[op.c]]
         /\ \A s \in Slots : in_use[s] => live[s]
BY DEF Consistent, OperationMatchesRadio, OperationHasSlot, PendingSlotIsDialing, GattKinds

LEMMA EndKeeps ==
  ASSUME Consistent, TypeOK', NEW p \in procs, procs' = procs \ {p}, EndOp,
         UNCHANGED <<in_use, live, conn, pc, dial, link>>
  PROVE  Consistent'
<1>1. procs' = {} /\ ~dial /\ pc # "dial" /\ \A s \in Slots : in_use[s] => live[s]
  BY CallbackIsExpected
<1>2. op'.kind = "NONE"
  BY DEF EndOp, NoOp
<1>3. QED
  BY <1>1, <1>2 DEF Consistent, PendingSlotIsDialing, LiveSlotHasLink,
     OperationMatchesRadio, OperationHasSlot, GattKinds, Knows

LEMMA NextPassKeeps ==
  ASSUME Consistent, TypeOK', NEW p \in procs, NEW k \in GattKinds, Knows(conn[op.c]),
         procs' = (procs \ {p}) \cup {[cb |-> CbOf(k), conn |-> conn[op.c]]},
         op' = [op EXCEPT !.kind = k],
         UNCHANGED <<in_use, live, conn, pc, dial, link>>
  PROVE  Consistent'
<1>1. /\ op.c \in Slots /\ procs' = {[cb |-> CbOf(k), conn |-> conn[op.c]]}
      /\ ~dial /\ pc # "dial" /\ \A s \in Slots : in_use[s] => live[s]
  BY CallbackIsExpected
<1>2. op'.kind = k /\ op'.c = op.c
  BY DEF Consistent, TypeOK, Operations
<1>3. QED
  BY <1>1, <1>2 DEF Consistent, PendingSlotIsDialing, LiveSlotHasLink,
     OperationMatchesRadio, OperationHasSlot, GattKinds, Knows

LEMMA CallbackKeeps ==
  ASSUME Consistent, TypeOK', NEW p \in procs,
         ProcEnds(p) \/ CharacteristicsEnd(p) \/ WriteEnds(p)
  PROVE  Consistent'
<1>1. CASE ProcEnds(p)
  BY <1>1, EndKeeps DEF ProcEnds, taskVars
<1>2. CASE CharacteristicsEnd(p)
  <2>1. CASE procs' = procs \ {p} /\ EndOp
    BY <1>2, <2>1, EndKeeps DEF CharacteristicsEnd, taskVars
  <2>2. CASE /\ Knows(conn[op.c])
             /\ op' = [op EXCEPT !.kind = "DISC_DSC_MAP"]
             /\ procs' = (procs \ {p}) \cup {[cb |-> "on_disc_dsc_map", conn |-> conn[op.c]]}
    <3>1. CbOf("DISC_DSC_MAP") = "on_disc_dsc_map" /\ "DISC_DSC_MAP" \in GattKinds
      BY DEF CbOf, GattKinds
    <3>2. QED
      BY <1>2, <2>2, <3>1, NextPassKeeps DEF CharacteristicsEnd, taskVars
  <2>3. QED
    BY <1>2, <2>1, <2>2 DEF CharacteristicsEnd
<1>3. CASE WriteEnds(p)
  <2>1. CASE procs' = procs \ {p} /\ EndOp
    BY <1>3, <2>1, EndKeeps DEF WriteEnds, taskVars, slotVars
  <2>2. CASE /\ Knows(conn[op.c])
             /\ op' = [op EXCEPT !.kind = "SUB_WRITE_CCCD"]
             /\ procs' = (procs \ {p}) \cup {[cb |-> "on_write", conn |-> conn[op.c]]}
    <3>1. CbOf("SUB_WRITE_CCCD") = "on_write" /\ "SUB_WRITE_CCCD" \in GattKinds
      BY DEF CbOf, GattKinds
    <3>2. QED
      BY <1>3, <2>2, <3>1, NextPassKeeps DEF WriteEnds, taskVars, slotVars
  <2>3. QED
    BY <1>3, <2>1, <2>2 DEF WriteEnds
<1>4. QED
  BY <1>1, <1>2, <1>3

LEMMA ProxyKeeps ==
  ASSUME Consistent, TypeOK', ProxyTask
  PROVE  Consistent'
<1>1. CASE Watchdog
  BY <1>1, ReleaseKeeps DEF Watchdog, taskVars
<1>2. CASE ConnectBegin
  BY <1>2, ConnectBeginKeeps
<1>3. CASE Dial
  BY <1>3, DialKeeps
<1>4. ASSUME NEW s \in Slots, CommandOn(s) PROVE Consistent'
  BY <1>4, CommandKeeps
<1>5. CASE \/ Receive \/ SendOut \/ StartScan \/ ScanStarted \/ StopScan
           \/ RefuseBusy \/ ConnectRefused \/ NotConnected
  BY <1>5, QuietSteps, QuietKeeps
<1>6. QED
  BY <1>1, <1>2, <1>3, <1>4, <1>5 DEF ProxyTask

LEMMA WsKeeps ==
  ASSUME Consistent, TypeOK', WsTask
  PROVE  Consistent'
<1>1. CASE WsDisconnected
  BY <1>1, ReleaseKeeps DEF WsDisconnected, taskVars
<1>2. CASE WsConnected \/ \E i \in Ids, c \in Commands, h \in Proxies : WsData(i, c, h)
  BY <1>2, QuietSteps, QuietKeeps
<1>3. QED
  BY <1>1, <1>2 DEF WsTask

LEMMA HostKeeps ==
  ASSUME Consistent, TypeOK', HostTask
  PROVE  Consistent'
<1>1. CASE Advertisement \/ Notification \/ DiscComplete
  BY <1>1, QuietSteps, QuietKeeps
<1>2. CASE ConnectFailed
  BY <1>2, ConnectFailedKeeps
<1>3. ASSUME NEW h \in Handles, Connected(h) \/ Disconnected(h) PROVE Consistent'
  BY <1>3, ConnectedKeeps, DisconnectedKeeps
<1>4. ASSUME NEW p \in procs, ProcEnds(p) \/ CharacteristicsEnd(p) \/ WriteEnds(p)
      PROVE  Consistent'
  BY <1>4, CallbackKeeps
<1>5. QED
  BY <1>1, <1>2, <1>3, <1>4 DEF HostTask

LEMMA ConsistentStep == Consistent /\ [Next]_vars => Consistent'
<1> SUFFICES ASSUME Consistent, [Next]_vars PROVE Consistent'
  OBVIOUS
<1>1. TypeOK'
  BY TypeStep DEF Consistent
<1>2. CASE UNCHANGED vars
  BY <1>1, <1>2, QuietKeeps DEF Quiet
<1>3. CASE Next
  BY <1>1, <1>3, ProxyKeeps, WsKeeps, HostKeeps DEF Next
<1>4. QED
  BY <1>2, <1>3

\* Slots, operation slot and radio agree in every state the three tasks reach.
THEOREM AlwaysConsistent == Spec => []Consistent
BY InitConsistent, ConsistentStep, PTL DEF Spec

\* No slot is leaked by a connection attempt that came to nothing.
THEOREM NoSlotLeak == Spec => []PendingSlotIsDialing
<1>1. Consistent => PendingSlotIsDialing
  BY DEF Consistent
<1>2. QED
  BY <1>1, AlwaysConsistent, PTL

\* A live slot names a link of its own that NimBLE still has.
THEOREM LiveSlots == Spec => []LiveSlotHasLink
<1>1. Consistent => LiveSlotHasLink
  BY DEF Consistent
<1>2. QED
  BY <1>1, AlwaysConsistent, PTL

\* Exactly the procedure of the parked operation is under way: no callback answers
\* for another command and the proxy is never busy with nothing.
THEOREM OperationIsUnderWay == Spec => []OperationMatchesRadio
<1>1. Consistent => OperationMatchesRadio
  BY DEF Consistent
<1>2. QED
  BY <1>1, AlwaysConsistent, PTL

-----------------------------------------------------------------------------
(* The slot an operation works on.                                         *)

LEMMA SlotHeldStep ==
  ASSUME Consistent, [Next]_vars
  PROVE  \A s \in Slots : op.kind # "NONE" /\ op.c = s => proxy'[s] = proxy[s]
<1>1. CASE ConnectBegin
  BY <1>1, IdleRadio DEF ConnectBegin
<1>2. CASE UNCHANGED proxy
  BY <1>2
<1>3. ConnectBegin \/ UNCHANGED proxy
  <2>1. CASE ProxyTask
    BY <2>1 DEF ProxyTask, Receive, Watchdog, SendOut, StartScan, ScanStarted, StopScan,
       RefuseBusy, ConnectRefused, Dial, NotConnected, CommandOn, Answer, Disconnect,
       DiscoverServices, DiscoverCharacteristics, RequestMtu, AnswerAtOnce,
       ReadCharacteristic, WriteCharacteristic, SetSubscription, StartGatt,
       conn_release_all
  <2>2. CASE WsTask
    BY <2>2 DEF WsTask, WsConnected, WsDisconnected, WsData, conn_release_all
  <2>3. CASE HostTask
    BY <2>3 DEF HostTask, Advertisement, Notification, DiscComplete, ConnectFailed,
       Connected, Disconnected, ProcEnds, CharacteristicsEnd, WriteEnds
  <2>4. QED
    BY <2>1, <2>2, <2>3 DEF Next
<1>4. QED
  BY <1>1, <1>2, <1>3

\* The slot of an operation in flight is not given to another connection.
THEOREM SlotIsHeld == Spec => SlotHeldByOperation
<1>1. Consistent /\ [Next]_vars =>
        [\A s \in Slots : op.kind # "NONE" /\ op.c = s => proxy'[s] = proxy[s]]_vars
  BY SlotHeldStep
<1>2. QED
  BY <1>1, AlwaysConsistent, PTL DEF Spec, SlotHeldByOperation

-----------------------------------------------------------------------------
(* The scan.                                                               *)

LEMMA CancelKeeps ==
  ASSUME ScanUnderControl, disc' = DiscAfterCancel, scanning' = FALSE, pc' = pc
  PROVE  ScanUnderControl'
<1>1. disc' => disc /\ ~scanning
  BY DEF DiscAfterCancel
<1>2. QED
  BY <1>1 DEF ScanUnderControl

LEMMA ScanStep ==
  ASSUME TypeOK, ScanUnderControl, [Next]_vars
  PROVE  ScanUnderControl'
<1> USE DEF ScanUnderControl
<1>1. CASE UNCHANGED vars
  BY <1>1
<1>2. CASE ProxyTask
  <2>1. CASE \E s \in Slots : CommandOn(s)
    BY <2>1 DEF CommandOn, Disconnect, DiscoverServices, DiscoverCharacteristics, RequestMtu,
       AnswerAtOnce, ReadCharacteristic, WriteCharacteristic, SetSubscription, StartGatt,
       Answer, Done, Naming
  <2>2. CASE StartScan
    BY <2>2 DEF StartScan, Answer, Done, Handling
  <2>3. CASE ScanStarted
    BY <2>3 DEF ScanStarted, Done
  <2>4. CASE StopScan
    BY <2>4 DEF StopScan, Answer, Done, Handling
  <2>5. CASE ConnectBegin
    <3>1. pc = "handle" /\ disc' = DiscAfterCancel
      BY <2>5 DEF ConnectBegin, Handling
    <3>2. disc => scanning
      BY <3>1
    <3>3. ~disc'
      BY <3>1, <3>2, Zenon DEF DiscAfterCancel
    <3>4. QED
      BY <3>3
  <2>6. CASE Dial
    BY <2>6 DEF Dial, Done
  <2>7. CASE Watchdog
    <3>1. CASE UNCHANGED <<scanning, disc>>
      BY <2>7, <3>1 DEF Watchdog
    <3>2. CASE scanning' = FALSE /\ disc' = DiscAfterCancel
      BY <2>7, <3>2, CancelKeeps DEF Watchdog
    <3>3. QED
      BY <2>7, <3>1, <3>2 DEF Watchdog
  <2>8. CASE Receive \/ SendOut
    BY <2>8 DEF Receive, SendOut, Done
  <2>9. CASE RefuseBusy \/ ConnectRefused \/ NotConnected
    BY <2>9 DEF RefuseBusy, ConnectRefused, NotConnected, Answer, Done, Handling
  <2>10. QED
    BY <1>2, <2>1, <2>2, <2>3, <2>4, <2>5, <2>6, <2>7, <2>8, <2>9 DEF ProxyTask
<1>3. CASE WsTask
  <2>1. CASE WsDisconnected
    <3>1. disc' = DiscAfterCancel /\ scanning' = FALSE /\ pc' = pc
      BY <2>1 DEF WsDisconnected
    <3>2. QED
      BY <3>1, CancelKeeps
  <2>2. CASE WsConnected
    BY <2>2 DEF WsConnected
  <2>3. CASE \E i \in Ids, c \in Commands, h \in Proxies : WsData(i, c, h)
    BY <2>3 DEF WsData
  <2>4. QED
    BY <1>3, <2>1, <2>2, <2>3 DEF WsTask
<1>4. CASE HostTask
  BY <1>4 DEF HostTask, Advertisement, Notification, DiscComplete, ConnectFailed,
     Connected, Disconnected, ProcEnds, CharacteristicsEnd, WriteEnds
<1>5. QED
  BY <1>1, <1>2, <1>3, <1>4 DEF Next

\* A running scan is known to the proxy, and a connect never meets one.
THEOREM ScanIsKnown == Spec => []ScanUnderControl
<1>1. Init => ScanUnderControl
  BY DEF Init, ScanUnderControl
<1>2. TypeOK /\ ScanUnderControl /\ [Next]_vars => ScanUnderControl'
  BY ScanStep
<1>3. QED
  BY <1>1, <1>2, TypeCorrect, PTL DEF Spec

-----------------------------------------------------------------------------
(* The handles given to the server.                                        *)

\* Handles are given out in order, so every one in use is below the next.
HandlesInOrder ==
  /\ HandlesUnique
  /\ \A s \in Slots : in_use[s] => proxy[s] < next_proxy

LEMMA HandleStep ==
  ASSUME TypeOK, HandlesInOrder, [Next]_vars
  PROVE  HandlesInOrder'
<1> USE DEF HandlesInOrder, HandlesUnique, TypeOK
<1>1. CASE ConnectBegin
  <2>1. PICK s \in Slots :
          /\ in_use' = [in_use EXCEPT ![s] = TRUE]
          /\ proxy'  = [proxy  EXCEPT ![s] = next_proxy]
    BY <1>1 DEF ConnectBegin
  <2>2. next_proxy' = next_proxy + 1
    BY <1>1 DEF ConnectBegin, NextHandle
  <2>3. QED
    BY <2>1, <2>2
<1>2. CASE /\ UNCHANGED <<proxy, next_proxy>>
           /\ \A s \in Slots : in_use'[s] => in_use[s]
  BY <1>2
<1>3. \/ ConnectBegin
      \/ /\ UNCHANGED <<proxy, next_proxy>>
         /\ \A s \in Slots : in_use'[s] => in_use[s]
  <2>1. CASE UNCHANGED vars
    BY <2>1
  <2>2. CASE ProxyTask
    <3>1. CASE \E s \in Slots : CommandOn(s)
      BY <3>1 DEF CommandOn, Disconnect, DiscoverServices, DiscoverCharacteristics,
         RequestMtu, AnswerAtOnce, ReadCharacteristic, WriteCharacteristic,
         SetSubscription, StartGatt, Answer
    <3>2. CASE StartScan \/ ScanStarted \/ StopScan \/ Receive \/ SendOut
               \/ RefuseBusy \/ ConnectRefused \/ NotConnected
      BY <3>2 DEF StartScan, ScanStarted, StopScan, Receive, SendOut, RefuseBusy,
         ConnectRefused, NotConnected, Answer
    <3>3. CASE Watchdog \/ Dial
      BY <3>3 DEF Watchdog, conn_release_all, Dial, FreeOpSlot
    <3>4. QED
      BY <2>2, <3>1, <3>2, <3>3 DEF ProxyTask
  <2>3. CASE WsTask
    BY <2>3 DEF WsTask, WsConnected, WsDisconnected, WsData, conn_release_all
  <2>4. CASE HostTask
    <3>1. CASE Advertisement \/ Notification \/ DiscComplete \/ ConnectFailed
      BY <3>1 DEF Advertisement, Notification, DiscComplete, ConnectFailed,
         conn_drop_pending, FreeOpSlot
    <3>2. CASE \E h \in Handles : Connected(h) \/ Disconnected(h)
      BY <3>2 DEF Connected, Disconnected, conn_drop_pending
    <3>3. CASE \E p \in procs : ProcEnds(p) \/ CharacteristicsEnd(p) \/ WriteEnds(p)
      BY <3>3 DEF ProcEnds, CharacteristicsEnd, WriteEnds
    <3>4. QED
      BY <2>4, <3>1, <3>2, <3>3 DEF HostTask
  <2>5. QED
    BY <2>1, <2>2, <2>3, <2>4 DEF Next
<1>4. QED
  BY <1>1, <1>2, <1>3

\* While fewer handles than 2^16 were given out, no two connections share one.
THEOREM HandlesAreUnique == Spec => []HandlesUnique
<1>1. Init => HandlesInOrder
  BY DEF Init, HandlesInOrder, HandlesUnique
<1>2. TypeOK /\ HandlesInOrder /\ [Next]_vars => HandlesInOrder'
  BY HandleStep
<1>3. HandlesInOrder => HandlesUnique
  BY DEF HandlesInOrder
<1>4. QED
  BY <1>1, <1>2, <1>3, TypeCorrect, PTL DEF Spec

-----------------------------------------------------------------------------
(* Where a command is.                                                     *)

\* What a step does to the queue, as far as commands are concerned: nothing, or it
\* adds one message at the end, for which there was room.
Kinds == {"cmd", "reply", "event"}
QueueStays ==
  \A i \in Ids : /\ Places(i)' = Places(i)
                 /\ \A k \in Kinds : Queued(i, k)' <=> Queued(i, k)
QueueGains(m) ==
  /\ Len(q) < Q_DEPTH
  /\ \A i \in Ids : /\ Places(i)' = IF m.id = i THEN Places(i) \cup {Len(q) + 1} ELSE Places(i)
                    /\ \A k \in Kinds :
                         Queued(i, k)' <=> Queued(i, k) \/ (m.id = i /\ m.kind = k)

LEMMA SameQueue ==
  ASSUME q' = q
  PROVE  QueueStays
BY DEF QueueStays, Places, Queued

LEMMA LongerQueue ==
  ASSUME QueueOK, NEW m \in Messages, Len(q) < Q_DEPTH, q' \in Seq(Messages),
         Len(q') > Len(q), \A k \in 1..Len(q) : q'[k] = q[k], q'[Len(q) + 1] = m,
         \A k \in (Len(q) + 2)..Len(q') : q'[k].id = NoId
  PROVE  QueueGains(m)
<1>1. /\ Len(q) \in Nat /\ DOMAIN q = 1..Len(q)
      /\ Len(q') \in Nat /\ DOMAIN q' = 1..Len(q')
  BY DEF QueueOK
<1>2. ASSUME NEW i \in Ids, NEW k \in DOMAIN q', q'[k].id = i
      PROVE  \/ k \in DOMAIN q /\ q'[k] = q[k]
             \/ k = Len(q) + 1 /\ m.id = i /\ q'[k] = m
  <2>1. k \notin (Len(q) + 2)..Len(q')
    BY <1>2, IdAssumption
  <2>2. k \in 1..Len(q) \/ k = Len(q) + 1
    BY <1>1, <2>1
  <2> QED
    BY <1>1, <1>2, <2>2
<1>3. \A k \in DOMAIN q : k \in DOMAIN q' /\ q'[k] = q[k]
  BY <1>1
<1>4. Len(q) + 1 \in DOMAIN q'
  BY <1>1
<1>5. ASSUME NEW i \in Ids
      PROVE  Places(i)' = IF m.id = i THEN Places(i) \cup {Len(q) + 1} ELSE Places(i)
  BY <1>2, <1>3, <1>4 DEF Places
<1>6. ASSUME NEW i \in Ids, NEW k \in Kinds
      PROVE  Queued(i, k)' <=> Queued(i, k) \/ (m.id = i /\ m.kind = k)
  BY <1>2, <1>3, <1>4 DEF Queued
<1> QED
  BY <1>5, <1>6 DEF QueueGains

LEMMA PutStays ==
  ASSUME TypeOK, q_put(Event)
  PROVE  QueueStays
<1>1. CASE q' = q
  BY <1>1, SameQueue
<1>2. CASE Len(q) < Q_DEPTH /\ q' = Append(q, Event)
  <2>1. QueueOK /\ Event \in Messages
    BY MessageTypes DEF TypeOK, QueueOK
  <2>2. QueueGains(Event)
    BY <1>2, <2>1, LongerQueue, AppendProperties DEF QueueOK
  <2> QED
    BY <2>2, IdAssumption DEF QueueGains, QueueStays, Event
<1> QED
  BY <1>1, <1>2 DEF q_put

LEMMA PutGains ==
  ASSUME TypeOK, NEW m \in Messages, q_put(m)
  PROVE  QueueGains(m) \/ (Len(q) = Q_DEPTH /\ QueueStays)
<1>1. QueueOK
  BY DEF TypeOK, QueueOK
<1>2. CASE Len(q) < Q_DEPTH
  BY <1>1, <1>2, LongerQueue, AppendProperties DEF QueueOK, q_put
<1>3. CASE ~(Len(q) < Q_DEPTH)
  BY <1>1, <1>3, SameQueue, SizesAssumption DEF QueueOK, q_put
<1> QED
  BY <1>2, <1>3

LEMMA PutTwiceGains ==
  ASSUME TypeOK, NEW m \in Messages, q_put_twice(m, Event)
  PROVE  QueueGains(m) \/ (Len(q) = Q_DEPTH /\ QueueStays)
<1>1. QueueOK /\ Event \in Messages /\ Event.id = NoId
  BY MessageTypes DEF TypeOK, QueueOK, Event
<1>2. CASE Len(q) + 1 < Q_DEPTH
  <2>1. <<m, Event>> \in Seq(Messages) /\ Len(<<m, Event>>) = 2
    BY <1>1
  <2>2. /\ q' \in Seq(Messages) /\ Len(q') = Len(q) + 2
        /\ \A k \in 1..(Len(q) + 2) :
             q'[k] = IF k <= Len(q) THEN q[k] ELSE <<m, Event>>[k - Len(q)]
    BY <1>1, <1>2, <2>1, ConcatProperties DEF QueueOK, q_put_twice
  <2>3. q'[Len(q) + 1] = m /\ q'[Len(q) + 2] = Event
    BY <1>1, <2>2 DEF QueueOK
  <2> QED
    BY <1>1, <1>2, <2>2, <2>3, LongerQueue, SizesAssumption DEF QueueOK
<1>3. CASE ~(Len(q) + 1 < Q_DEPTH)
  <2>1. q_put(m)
    BY <1>3 DEF q_put, q_put_twice
  <2> QED
    BY <2>1, PutGains
<1> QED
  BY <1>2, <1>3

\* What the task and the operation slot say about the commands they hold.
TaskInHand ==
  /\ pc = "receive" => cur = NoMsg
  /\ pc \in {"disc_started", "dial"} => cur.kind = "cmd"
  /\ pc = "dial" => op.id = cur.id
  /\ op.kind = "NONE" => op.id = NoId

DeskInv == Consistent /\ OneAnswerPerCommand /\ TaskInHand

\* Every step is one of these, as far as commands are concerned.
Put(m) == QueueGains(m) \/ (Len(q) = Q_DEPTH /\ QueueStays)
HandsFree == pc' = "receive" /\ cur' = NoMsg

Aside ==
  /\ QueueStays /\ cur' = cur /\ op'.id = op.id
  /\ op'.kind = "NONE" => op.kind = "NONE"
  /\ pc' = pc \/ (pc = "handle" /\ cur.kind = "cmd" /\ pc' = "disc_started")
Arrives(i, c, h) ==
  i \notin IdsAbout /\ QueueGains(Command(i, c, h)) /\ UNCHANGED <<cur, op, pc>>
Leaves == cur.kind \in {"reply", "event"} /\ pc = "handle" /\ QueueStays /\ op' = op /\ HandsFree
AnswersAtOnce ==
  /\ pc \in {"handle", "disc_started"} /\ cur.kind = "cmd"
  /\ Put(Reply(cur.id)) /\ op'.id = op.id /\ (op'.kind = "NONE" => op'.id = NoId) /\ HandsFree
Starts ==
  /\ pc = "handle" /\ cur.kind = "cmd" /\ op.kind = "NONE"
  /\ QueueStays /\ op'.id = cur.id /\ op'.kind # "NONE"
  /\ HandsFree \/ (pc' = "dial" /\ cur' = cur)
Dials == pc = "dial" /\ QueueStays /\ op' = op /\ HandsFree
Ends ==
  /\ op.kind # "NONE" /\ op' = NoOp /\ Put(Reply(op.id))
  /\ IF pc = "dial" THEN HandsFree ELSE UNCHANGED <<cur, pc>>

Moves ==
  \/ Aside \/ Receive \/ Leaves \/ AnswersAtOnce \/ Starts \/ Dials \/ Ends
  \/ \E i \in Ids, c \in Commands, h \in Proxies : Arrives(i, c, h)

LEMMA AnswerMoves ==
  ASSUME DeskInv, Answer, pc = "handle", cur.kind = "cmd"
  PROVE  AnswersAtOnce
<1>1. TypeOK
  BY DEF DeskInv, Consistent
<1>2. Put(Reply(cur.id))
  BY <1>1, IdTypes, PutGains DEF Answer, Put
<1> QED
  BY <1>2 DEF Answer, AnswersAtOnce, Done, HandsFree, DeskInv, TaskInHand

LEMMA GattMoves ==
  ASSUME DeskInv, NEW s \in Slots, NEW k \in GattKinds, NEW b \in BOOLEAN,
         Naming(s), StartGatt(s, k, b)
  PROVE  Moves
<1>1. /\ TypeOK /\ pc = "handle" /\ cur.kind = "cmd" /\ op.kind = "NONE"
      /\ HandsFree /\ op.id = NoId
  BY DEF DeskInv, Consistent, TaskInHand, Naming, Busy, StartGatt, Done, HandsFree
<1>2. CASE op' = [kind |-> k, id |-> cur.id, c |-> s, sub |-> b] /\ UNCHANGED q
  BY <1>1, <1>2, SameQueue DEF Starts, GattKinds, Moves
<1>3. CASE op' = NoOp /\ q_put(Reply(cur.id))
  <2>1. Put(Reply(cur.id))
    BY <1>1, <1>3, IdTypes, PutGains DEF Put
  <2> QED
    BY <1>1, <1>3, <2>1 DEF AnswersAtOnce, NoOp, Moves
<1> QED
  BY <1>2, <1>3 DEF StartGatt

LEMMA CommandMoves ==
  ASSUME DeskInv, NEW s \in Slots, CommandOn(s)
  PROVE  Moves
<1>1. CASE Disconnect(s)
  <2>1. /\ pc = "handle" /\ cur.kind = "cmd" /\ HandsFree /\ op' = op
        /\ q_put(Reply(cur.id)) /\ TypeOK
    BY <1>1 DEF Disconnect, Naming, Done, HandsFree, DeskInv, Consistent
  <2>2. Put(Reply(cur.id))
    BY <2>1, IdTypes, PutGains DEF Put
  <2> QED
    BY <2>1, <2>2 DEF AnswersAtOnce, DeskInv, TaskInHand, Moves
<1>2. CASE AnswerAtOnce(s)
  BY <1>2, AnswerMoves DEF AnswerAtOnce, Naming, Moves
<1>3. CASE DiscoverServices(s)
  BY <1>3, GattMoves DEF DiscoverServices, GattKinds
<1>4. CASE DiscoverCharacteristics(s)
  BY <1>4, GattMoves DEF DiscoverCharacteristics, GattKinds
<1>5. CASE RequestMtu(s)
  BY <1>5, GattMoves DEF RequestMtu, GattKinds
<1>6. CASE ReadCharacteristic(s)
  BY <1>6, GattMoves DEF ReadCharacteristic, GattKinds
<1>7. CASE WriteCharacteristic(s)
  BY <1>7, GattMoves DEF WriteCharacteristic, GattKinds
<1>8. CASE SetSubscription(s)
  BY <1>8, GattMoves DEF SetSubscription, GattKinds
<1> QED
  BY <1>1, <1>2, <1>3, <1>4, <1>5, <1>6, <1>7, <1>8 DEF CommandOn

LEMMA EndOpMoves ==
  ASSUME DeskInv, op.kind # "NONE", EndOp, IF pc = "dial" THEN HandsFree ELSE UNCHANGED <<cur, pc>>
  PROVE  Moves
<1>1. Put(Reply(op.id))
  BY IdTypes, PutGains DEF EndOp, Put, DeskInv, Consistent
<1> QED
  BY <1>1 DEF EndOp, Ends, Moves

LEMMA ProxyMoves ==
  ASSUME DeskInv, ProxyTask
  PROVE  Moves
<1>0. TypeOK
  BY DEF DeskInv, Consistent
<1>1. CASE Receive
  BY <1>1 DEF Moves
<1>2. CASE Watchdog
  BY <1>2, SameQueue DEF Watchdog, Aside, Moves
<1>3. CASE SendOut
  BY <1>3, SameQueue DEF SendOut, Done, Leaves, HandsFree, Moves
<1>4. CASE StartScan
  BY <1>4, AnswerMoves, SameQueue DEF StartScan, Handling, Aside, Moves
<1>5. CASE ScanStarted
  <2>1. Put(Reply(cur.id))
    BY <1>0, <1>5, IdTypes, PutGains DEF ScanStarted, Put
  <2> QED
    BY <1>5, <2>1 DEF ScanStarted, AnswersAtOnce, Done, HandsFree, DeskInv, TaskInHand, Moves
<1>6. CASE StopScan
  <2>1. CASE Answer
    BY <1>6, <2>1, AnswerMoves DEF StopScan, Handling, Moves
  <2>2. CASE Done /\ q_put_twice(Reply(cur.id), Event) /\ op' = op
    <3>1. Put(Reply(cur.id))
      BY <1>0, <2>2, IdTypes, PutTwiceGains DEF Put
    <3> QED
      BY <1>6, <2>2, <3>1 DEF StopScan, Handling, AnswersAtOnce, Done, HandsFree, DeskInv,
         TaskInHand, Moves
  <2> QED
    BY <1>6, <2>1, <2>2 DEF StopScan
<1>7. CASE RefuseBusy \/ ConnectRefused \/ NotConnected
  BY <1>7, AnswerMoves DEF RefuseBusy, ConnectRefused, NotConnected, Handling, Moves
<1>8. CASE ConnectBegin
  <2>1. op'.kind = "CONNECT" /\ op'.id = cur.id
    BY <1>8 DEF ConnectBegin
  <2> QED
    BY <1>8, <2>1, SameQueue DEF ConnectBegin, Handling, Busy, Starts, Moves
<1>9. CASE Dial
  <2>1. pc = "dial" /\ op.kind = "CONNECT" /\ HandsFree
    BY <1>9 DEF Dial, Done, HandsFree, DeskInv, Consistent, OperationHasSlot
  <2>2. CASE UNCHANGED <<op, q>>
    BY <2>1, <2>2, SameQueue DEF Dials, Moves
  <2>3. CASE EndOp
    BY <2>1, <2>3, EndOpMoves
  <2> QED
    BY <1>9, <2>2, <2>3 DEF Dial
<1>10. CASE \E s \in Slots : CommandOn(s)
  BY <1>10, CommandMoves
<1> QED
  BY <1>1, <1>2, <1>3, <1>4, <1>5, <1>6, <1>7, <1>8, <1>9, <1>10 DEF ProxyTask

LEMMA WsMoves ==
  ASSUME DeskInv, WsTask
  PROVE  Moves
<1>0. TypeOK
  BY DEF DeskInv, Consistent
<1>1. CASE WsConnected
  BY <1>0, <1>1, PutStays DEF WsConnected, Aside, Moves
<1>2. CASE WsDisconnected
  BY <1>2, SameQueue DEF WsDisconnected, Aside, Moves
<1>3. ASSUME NEW i \in Ids, NEW c \in Commands, NEW h \in Proxies, WsData(i, c, h)
      PROVE  Moves
  <2>1. QueueGains(Command(i, c, h)) \/ QueueStays
    BY <1>0, <1>3, MessageTypes, PutGains DEF WsData
  <2> QED
    BY <1>3, <2>1 DEF WsData, Arrives, Aside, Moves
<1> QED
  BY <1>1, <1>2, <1>3 DEF WsTask

LEMMA HostMoves ==
  ASSUME DeskInv, HostTask
  PROVE  Moves
<1>0. TypeOK
  BY DEF DeskInv, Consistent
<1>1. CASE Advertisement \/ Notification \/ DiscComplete
  BY <1>0, <1>1, PutStays DEF Advertisement, Notification, DiscComplete, Aside, Moves
<1>2. CASE ConnectFailed
  <2>1. Expected /\ pc # "dial" /\ EndOp
    BY <1>2, DialingIsExpected DEF ConnectFailed, DeskInv
  <2> QED
    BY <1>2, <2>1, EndOpMoves DEF ConnectFailed, Expected
<1>3. ASSUME NEW h \in Handles, Connected(h)
      PROVE  Moves
  <2>1. Expected /\ pc # "dial" /\ op.c \in Slots
    BY <1>3, DialingIsExpected DEF Connected, DeskInv
  <2>2. CASE EndOp
    BY <1>3, <2>1, <2>2, EndOpMoves DEF Connected, Expected
  <2>3. CASE op' = [op EXCEPT !.kind = "CONNECT_MTU"] /\ UNCHANGED q
    <3>1. op'.id = op.id /\ op'.kind = "CONNECT_MTU"
      BY <1>0, <2>3 DEF TypeOK, Operations
    <3> QED
      BY <1>3, <2>3, <3>1, SameQueue DEF Connected, Aside, Moves
  <2> QED
    BY <1>3, <2>1, <2>2, <2>3 DEF Connected
<1>4. ASSUME NEW h \in Handles, Disconnected(h)
      PROVE  Moves
  BY <1>0, <1>4, PutStays, SameQueue DEF Disconnected, Aside, Moves
<1>5. ASSUME NEW p \in procs, ProcEnds(p) \/ CharacteristicsEnd(p) \/ WriteEnds(p)
      PROVE  Moves
  <2>1. op.kind \in GattKinds /\ pc # "dial"
    BY CallbackIsExpected DEF DeskInv
  <2>2. UNCHANGED <<cur, pc>>
    BY <1>5 DEF ProcEnds, CharacteristicsEnd, WriteEnds
  <2>3. CASE EndOp
    BY <2>1, <2>2, <2>3, EndOpMoves DEF GattKinds
  <2>4. ASSUME NEW k \in GattKinds, op' = [op EXCEPT !.kind = k], UNCHANGED q
        PROVE  Moves
    <3>1. op'.id = op.id /\ op'.kind = k
      BY <1>0, <2>4 DEF TypeOK, Operations
    <3> QED
      BY <2>2, <2>4, <3>1, SameQueue DEF Aside, Moves, GattKinds
  <2>5. \/ EndOp
        \/ op' = [op EXCEPT !.kind = "DISC_DSC_MAP"] /\ UNCHANGED q
        \/ op' = [op EXCEPT !.kind = "SUB_WRITE_CCCD"] /\ UNCHANGED q
    BY <1>5 DEF ProcEnds, CharacteristicsEnd, WriteEnds
  <2> QED
    BY <2>3, <2>4, <2>5 DEF GattKinds
<1> QED
  BY <1>1, <1>2, <1>3, <1>4, <1>5 DEF HostTask

LEMMA EveryStepMoves == DeskInv /\ [Next]_vars => Moves
<1>1. DeskInv /\ UNCHANGED vars => Moves
  BY SameQueue DEF Aside, Moves
<1> QED
  BY <1>1, ProxyMoves, WsMoves, HostMoves DEF Next

-----------------------------------------------------------------------------
(* At most one answer.                                                     *)

LEMMA Nowhere ==
  ASSUME DeskInv, NEW i \in Ids, i \notin IdsAbout
  PROVE  Places(i) = {} /\ cur.id # i /\ op.id # i
BY DEF IdsAbout, Places

LEMMA ReceiveKeeps ==
  ASSUME DeskInv, Receive
  PROVE  OneAnswerPerCommand' /\ TaskInHand'
<1>1. /\ q \in Seq(Messages) /\ q # <<>> /\ pc = "receive" /\ cur = NoMsg
      /\ cur' = Head(q) /\ q' = Tail(q) /\ op' = op /\ pc' = "handle"
  BY DEF Receive, DeskInv, Consistent, TypeOK, TaskInHand
<1>2. /\ cur' = q[1] /\ 1 \in DOMAIN q
      /\ \A k \in DOMAIN q' : k + 1 \in DOMAIN q /\ q'[k] = q[k + 1] /\ k \in Nat /\ k # 0
  BY <1>1, HeadTailProperties
<1>3. \A i \in Ids : cur'.id = i => 1 \in Places(i)
  BY <1>2 DEF Places
<1>4. \A i \in Ids : \A k \in Places(i)' : k + 1 \in Places(i) /\ k \in Nat /\ k # 0
  BY <1>2 DEF Places
<1>5. ASSUME NEW i \in Ids
      PROVE  /\ \A j, k \in Places(i)' : j = k
             /\ Places(i)' # {} => cur'.id # i /\ op'.id # i
             /\ cur'.id = i => op'.id # i
  <2>1. \A j, k \in Places(i) : j = k
    BY DEF DeskInv, OneAnswerPerCommand
  <2>2. Places(i) # {} => op.id # i
    BY DEF DeskInv, OneAnswerPerCommand
  <2>3. \A j, k \in Places(i)' : j = k
    BY <1>4, <2>1
  <2>4. Places(i)' # {} => cur'.id # i
    BY <1>3, <1>4, <2>1
  <2> QED
    BY <1>1, <1>3, <1>4, <2>2, <2>3, <2>4
<1>6. OneAnswerPerCommand'
  BY <1>5 DEF OneAnswerPerCommand
<1> QED
  BY <1>1, <1>6 DEF TaskInHand, DeskInv

LEMMA MovesKeep ==
  ASSUME DeskInv, Moves
  PROVE  OneAnswerPerCommand' /\ TaskInHand'
<1> USE DEF DeskInv, OneAnswerPerCommand, TaskInHand, HandsFree, NoMsg
<1>0. TypeOK /\ QueueOK /\ \A i \in Ids : Len(q) + 1 \notin Places(i)
  BY DEF Consistent, TypeOK, QueueOK, Places
<1>1. CASE Aside
  BY <1>1 DEF Aside, QueueStays
<1>2. CASE Receive
  BY <1>2, ReceiveKeeps
<1>3. CASE Leaves
  BY <1>3, IdAssumption DEF Leaves, QueueStays
<1>4. CASE AnswersAtOnce
  BY <1>0, <1>4, IdAssumption DEF AnswersAtOnce, Put, QueueGains, QueueStays, Reply
<1>5. CASE Starts
  BY <1>5, IdAssumption DEF Starts, QueueStays
<1>6. CASE Dials
  BY <1>6, IdAssumption DEF Dials, QueueStays
<1>7. CASE Ends
  BY <1>0, <1>7, IdAssumption DEF Ends, Put, QueueGains, QueueStays, Reply, NoOp
<1>8. ASSUME NEW i \in Ids, NEW c \in Commands, NEW h \in Proxies, Arrives(i, c, h)
      PROVE  OneAnswerPerCommand' /\ TaskInHand'
  BY <1>0, <1>8, Nowhere DEF Arrives, QueueGains, Command
<1> QED
  BY <1>1, <1>2, <1>3, <1>4, <1>5, <1>6, <1>7, <1>8 DEF Moves

LEMMA DeskStep == DeskInv /\ [Next]_vars => DeskInv'
BY EveryStepMoves, MovesKeep, ConsistentStep DEF DeskInv

LEMMA DeskInit == Init => DeskInv
BY InitConsistent, IdAssumption
   DEF Init, DeskInv, OneAnswerPerCommand, TaskInHand, Places, NoOp, NoMsg

LEMMA AlwaysDesk == Spec => []DeskInv
BY DeskInit, DeskStep, PTL DEF Spec

\* A command is queued, in hand, parked or being answered, never two of them: no
\* order of commands, callbacks and lost connections makes it answered twice.
THEOREM NeverAnsweredTwice == Spec => []OneAnswerPerCommand
<1>1. DeskInv => OneAnswerPerCommand
  BY DEF DeskInv
<1> QED
  BY <1>1, AlwaysDesk, PTL

-----------------------------------------------------------------------------
(* The proxy implements the desk.                                          *)

StateOf(i) == CommandState[i]

LEMMA InHandOnce ==
  ASSUME DeskInv, NEW i \in Ids
  PROVE  /\ cur.id = i \/ op.id = i => \A k \in Kinds : ~Queued(i, k)
         /\ cur.id = i => op.id # i \/ pc = "dial"
         /\ Queued(i, "cmd") => ~Queued(i, "reply")
<1>1. \A k \in Kinds : Queued(i, k) => Places(i) # {}
  BY DEF Queued, Places
<1>2. \A n \in DOMAIN q, m \in DOMAIN q : q[n].id = i /\ q[m].id = i => n = m
  BY DEF DeskInv, OneAnswerPerCommand, Places
<1> QED
  BY <1>1, <1>2 DEF DeskInv, OneAnswerPerCommand, Queued

LEMMA DeskMove ==
  ASSUME NEW i \in Ids, NEW from, NEW to, StateOf(i) = from, StateOf(i)' = to,
         \A j \in Ids : j # i => StateOf(j)' = StateOf(j)
  PROVE  Desk!Move(i, from, to)
<1>1. CommandState = [j \in Ids |-> CommandState[j]] /\ CommandState' = [j \in Ids |-> CommandState'[j]]
  BY DEF CommandState
<1>2. CommandState' = [CommandState EXCEPT ![i] = to]
  BY <1>1 DEF StateOf
<1> QED
  BY <1>2 DEF Desk!Move, StateOf

LEMMA DeskStutters ==
  ASSUME \A j \in Ids : StateOf(j)' = StateOf(j)
  PROVE  UNCHANGED CommandState
<1>1. CommandState = [j \in Ids |-> CommandState[j]] /\ CommandState' = [j \in Ids |-> CommandState'[j]]
  BY DEF CommandState
<1> QED
  BY <1>1 DEF StateOf

LEMMA StateIs ==
  ASSUME NEW i \in Ids
  PROVE  StateOf(i) = IF op.id = i THEN "working"
                      ELSE IF Queued(i, "cmd") \/ (cur.id = i /\ cur.kind = "cmd") THEN "asked"
                      ELSE IF Queued(i, "reply") \/ (cur.id = i /\ cur.kind = "reply") THEN "answered"
                      ELSE "free"
BY DEF StateOf, CommandState

LEMMA StateBecomes ==
  ASSUME NEW i \in Ids
  PROVE  StateOf(i)' = IF op'.id = i THEN "working"
                       ELSE IF Queued(i, "cmd")' \/ (cur'.id = i /\ cur'.kind = "cmd") THEN "asked"
                       ELSE IF Queued(i, "reply")' \/ (cur'.id = i /\ cur'.kind = "reply") THEN "answered"
                       ELSE "free"
BY DEF StateOf, CommandState

LEMMA OthersStay ==
  ASSUME NEW j \in Ids, op'.id = j <=> op.id = j,
         Queued(j, "cmd")' <=> Queued(j, "cmd"), Queued(j, "reply")' <=> Queued(j, "reply"),
         \A k \in Kinds : cur'.id = j /\ cur'.kind = k <=> cur.id = j /\ cur.kind = k
  PROVE  StateOf(j)' = StateOf(j)
BY StateIs, StateBecomes DEF Kinds

LEMMA ReceiveOnDesk ==
  ASSUME DeskInv, Receive
  PROVE  UNCHANGED CommandState
<1>1. /\ q \in Seq(Messages) /\ q # <<>> /\ cur = NoMsg
      /\ cur' = Head(q) /\ q' = Tail(q) /\ op' = op
  BY DEF Receive, DeskInv, Consistent, TypeOK, TaskInHand
<1>2. /\ cur' = q[1] /\ 1 \in DOMAIN q
      /\ \A k \in DOMAIN q' : k + 1 \in DOMAIN q /\ q'[k] = q[k + 1]
      /\ \A k \in DOMAIN q : k = 1 \/ (k - 1 \in DOMAIN q' /\ q'[k - 1] = q[k])
  BY <1>1, HeadTailProperties
<1>3. ASSUME NEW j \in Ids, NEW k \in Kinds
      PROVE  Queued(j, k) <=> Queued(j, k)' \/ (cur'.id = j /\ cur'.kind = k)
  <2>1. Queued(j, k)' => Queued(j, k)
    BY <1>2 DEF Queued
  <2>2. cur'.id = j /\ cur'.kind = k => Queued(j, k)
    BY <1>2 DEF Queued
  <2>3. Queued(j, k) => Queued(j, k)' \/ (cur'.id = j /\ cur'.kind = k)
    BY <1>2 DEF Queued
  <2> QED
    BY <2>1, <2>2, <2>3
<1>4. ASSUME NEW j \in Ids PROVE StateOf(j)' = StateOf(j)
  <2>1. cur.id # j
    BY <1>1, IdAssumption DEF NoMsg
  <2> QED
    BY <1>1, <1>3, <2>1, StateIs, StateBecomes DEF Kinds
<1> QED
  BY <1>4, DeskStutters

LEMMA LeavesOnDesk ==
  ASSUME DeskInv, Leaves
  PROVE  Desk!Next \/ UNCHANGED CommandState
<1>1. /\ op' = op /\ cur'.id = NoId /\ cur.kind \in {"reply", "event"}
      /\ \A j \in Ids, k \in Kinds : Queued(j, k)' <=> Queued(j, k)
  BY DEF Leaves, QueueStays, HandsFree, NoMsg
<1>2. ASSUME NEW j \in Ids, j # cur.id PROVE StateOf(j)' = StateOf(j)
  <2>1. cur'.id # j
    BY <1>1, IdAssumption
  <2> QED
    BY <1>1, <1>2, <2>1, OthersStay DEF Kinds
<1>3. ASSUME NEW i \in Ids, i = cur.id PROVE Desk!Next \/ UNCHANGED CommandState
  <2>1. /\ op.id # i /\ op'.id # i /\ cur'.id # i
        /\ \A k \in Kinds : ~Queued(i, k) /\ ~Queued(i, k)'
    BY <1>1, <1>3, InHandOnce, IdAssumption DEF Leaves, Kinds
  <2>2. StateOf(i)' = "free"
    BY <2>1, StateBecomes DEF Kinds
  <2>3. CASE cur.kind = "reply"
    <3>1. StateOf(i) = "answered"
      BY <1>3, <2>1, <2>3, StateIs DEF Kinds
    <3>2. Desk!Move(i, "answered", "free")
      BY <1>2, <1>3, <2>2, <3>1, DeskMove
    <3> QED
      BY <3>2 DEF Desk!Next, Desk!Deliver
  <2>4. CASE cur.kind = "event"
    <3>1. StateOf(i) = "free"
      BY <2>1, <2>4, StateIs DEF Kinds
    <3> QED
      BY <1>2, <1>3, <2>2, <3>1, DeskStutters
  <2> QED
    BY <1>1, <2>3, <2>4
<1>4. CASE cur.id \notin Ids
  BY <1>2, <1>4, DeskStutters
<1> QED
  BY <1>3, <1>4

\* A reply is queued, or lost to a full queue.
LEMMA ReplyOnDesk ==
  ASSUME DeskInv, NEW i \in Ids, Put(Reply(i)), StateOf(i) \in {"asked", "working"},
         ~Queued(i, "cmd"), ~Queued(i, "reply"), op'.id # i, cur'.id # i,
         \A j \in Ids : j # i => StateOf(j)' = StateOf(j)
  PROVE  Desk!Next
<1>1. CASE QueueGains(Reply(i))
  <2>1. Queued(i, "reply")' /\ ~Queued(i, "cmd")' /\ Len(q) # Q_DEPTH
    BY <1>1 DEF QueueGains, Reply, Kinds
  <2>2. StateOf(i)' = "answered"
    BY <2>1, StateBecomes
  <2>3. Desk!Move(i, "asked", "answered") \/ Desk!Move(i, "working", "answered")
    BY <2>2, DeskMove
  <2> QED
    BY <2>1, <2>3 DEF Desk!Next, Desk!Answer
<1>2. CASE Len(q) = Q_DEPTH /\ QueueStays
  <2>1. StateOf(i)' = "free"
    BY <1>2, StateBecomes DEF QueueStays, Kinds
  <2>2. Desk!Move(i, "asked", "free") \/ Desk!Move(i, "working", "free")
    BY <2>1, DeskMove
  <2> QED
    BY <1>2, <2>2 DEF Desk!Next, Desk!Lose
<1> QED
  BY <1>1, <1>2 DEF Put

LEMMA AnswersOnDesk ==
  ASSUME DeskInv, AnswersAtOnce
  PROVE  Desk!Next \/ UNCHANGED CommandState
<1>1. /\ op'.id = op.id /\ cur'.id = NoId /\ cur.kind = "cmd" /\ Put(Reply(cur.id))
      /\ pc # "dial"
  BY DEF AnswersAtOnce, HandsFree, NoMsg
<1>2. ASSUME NEW j \in Ids, j # cur.id PROVE StateOf(j)' = StateOf(j)
  <2>1. \A k \in Kinds : Queued(j, k)' <=> Queued(j, k)
    BY <1>1, <1>2 DEF Put, QueueGains, QueueStays, Reply
  <2> QED
    BY <1>1, <1>2, <2>1, OthersStay, IdAssumption DEF Kinds
<1>3. CASE cur.id \in Ids
  <2>1. op.id # cur.id /\ ~Queued(cur.id, "cmd") /\ ~Queued(cur.id, "reply")
    BY <1>1, <1>3, InHandOnce DEF Kinds
  <2>2. StateOf(cur.id) = "asked"
    BY <1>1, <1>3, <2>1, StateIs
  <2>3. cur'.id # cur.id
    BY <1>1, <1>3, IdAssumption
  <2> QED
    BY <1>1, <1>2, <1>3, <2>1, <2>2, <2>3, ReplyOnDesk
<1>4. CASE cur.id \notin Ids
  BY <1>2, <1>4, DeskStutters
<1> QED
  BY <1>3, <1>4

LEMMA EndsOnDesk ==
  ASSUME DeskInv, Ends
  PROVE  Desk!Next \/ UNCHANGED CommandState
<1>1. op'.id = NoId /\ Put(Reply(op.id))
  BY DEF Ends, NoOp
<1>2. (cur' = cur /\ pc # "dial") \/ (cur'.id = NoId /\ cur.id = op.id)
  BY DEF Ends, HandsFree, NoMsg, DeskInv, TaskInHand
<1>3. ASSUME NEW j \in Ids, j # op.id PROVE StateOf(j)' = StateOf(j)
  <2>1. \A k \in Kinds : Queued(j, k)' <=> Queued(j, k)
    BY <1>1, <1>3 DEF Put, QueueGains, QueueStays, Reply
  <2> QED
    BY <1>1, <1>2, <1>3, <2>1, OthersStay, IdAssumption DEF Kinds
<1>4. CASE op.id \in Ids
  <2>1. ~Queued(op.id, "cmd") /\ ~Queued(op.id, "reply") /\ cur'.id # op.id
    BY <1>2, <1>4, InHandOnce, IdAssumption DEF Kinds
  <2>2. StateOf(op.id) = "working" /\ op'.id # op.id
    BY <1>1, <1>4, StateIs, IdAssumption
  <2> QED
    BY <1>1, <1>3, <1>4, <2>1, <2>2, ReplyOnDesk
<1>5. CASE op.id \notin Ids
  BY <1>3, <1>5, DeskStutters
<1> QED
  BY <1>4, <1>5

LEMMA StartsOnDesk ==
  ASSUME DeskInv, Starts
  PROVE  Desk!Next \/ UNCHANGED CommandState
<1>1. /\ op.id = NoId /\ op'.id = cur.id /\ cur.kind = "cmd" /\ QueueStays
      /\ cur' = cur \/ cur'.id = NoId
  BY DEF Starts, HandsFree, NoMsg, DeskInv, TaskInHand
<1>2. \A j \in Ids : j # cur.id => StateOf(j)' = StateOf(j)
  BY <1>1, OthersStay, IdAssumption DEF QueueStays, Kinds
<1>3. \A j \in Ids : StateOf(j) # "working"
  BY <1>1, StateIs, IdAssumption
<1>4. ASSUME NEW i \in Ids, i = cur.id PROVE Desk!Next
  <2>1. StateOf(i) = "asked" /\ StateOf(i)' = "working"
    BY <1>1, <1>4, StateIs, StateBecomes, IdAssumption
  <2>2. Desk!Move(i, "asked", "working")
    BY <1>2, <1>4, <2>1, DeskMove
  <2> QED
    BY <1>3, <2>2 DEF Desk!Next, Desk!Start, StateOf
<1>5. CASE cur.id \notin Ids
  BY <1>2, <1>5, DeskStutters
<1> QED
  BY <1>4, <1>5

LEMMA ArrivesOnDesk ==
  ASSUME DeskInv, NEW i \in Ids, NEW c \in Commands, NEW h \in Proxies, Arrives(i, c, h)
  PROVE  Desk!Next
<1>1. op' = op /\ cur' = cur /\ QueueGains(Command(i, c, h)) /\ Len(q) # Q_DEPTH
  BY DEF Arrives, QueueGains, DeskInv, Consistent, TypeOK
<1>2. Places(i) = {} /\ cur.id # i /\ op.id # i
  BY Nowhere DEF Arrives
<1>3. ~Queued(i, "cmd") /\ ~Queued(i, "reply")
  BY <1>2 DEF Queued, Places
<1>4. StateOf(i) = "free"
  BY <1>2, <1>3, StateIs
<1>5. StateOf(i)' = "asked"
  BY <1>1, <1>2, StateBecomes DEF QueueGains, Command, Kinds
<1>6. \A j \in Ids : j # i => StateOf(j)' = StateOf(j)
  BY <1>1, OthersStay DEF QueueGains, Command, Kinds
<1>7. Desk!Move(i, "free", "asked")
  BY <1>4, <1>5, <1>6, DeskMove
<1> QED
  BY <1>1, <1>7 DEF Desk!Next, Desk!Ask

LEMMA MovesOnDesk ==
  ASSUME DeskInv, Moves
  PROVE  Desk!Next \/ UNCHANGED CommandState
<1>1. CASE Aside
  BY <1>1, OthersStay, DeskStutters DEF Aside, QueueStays, Kinds
<1>2. CASE Dials
  <2>1. op' = op /\ cur'.id = NoId /\ QueueStays /\ op.id = cur.id
    BY <1>2 DEF Dials, HandsFree, NoMsg, DeskInv, TaskInHand
  <2>2. ASSUME NEW j \in Ids PROVE StateOf(j)' = StateOf(j)
    BY <2>1, StateIs, StateBecomes, IdAssumption DEF QueueStays, Kinds
  <2> QED
    BY <2>2, DeskStutters
<1> QED
  BY <1>1, <1>2, ReceiveOnDesk, LeavesOnDesk, AnswersOnDesk, EndsOnDesk, StartsOnDesk,
     ArrivesOnDesk DEF Moves

LEMMA InitOnDesk == Init => Desk!Init
<1> SUFFICES ASSUME Init PROVE Desk!Init
  OBVIOUS
<1>1. q = <<>> /\ op.id = NoId /\ cur.id = NoId
  BY DEF Init, NoOp, NoMsg
<1>2. \A i \in Ids : ~Queued(i, "cmd") /\ ~Queued(i, "reply")
  BY <1>1 DEF Queued
<1>3. CommandState = [i \in Ids |-> "free"]
  BY <1>1, <1>2, IdAssumption DEF CommandState
<1>4. (Len(q) = Q_DEPTH) = FALSE
  BY <1>1, SizesAssumption
<1> QED
  BY <1>3, <1>4 DEF Desk!Init

\* Whatever peripherals, commands and the connection to the server do, a command is
\* refused or worked on, one at a time, and answered at most once; an answer is lost
\* to a full queue only.
THEOREM ProxyIsDesk == Spec => ImplementsDesk
<1>1. DeskInv /\ [Next]_vars => [Desk!Next]_<<CommandState, Len(q) = Q_DEPTH>>
  <2> SUFFICES ASSUME DeskInv, [Next]_vars
               PROVE  [Desk!Next]_<<CommandState, Len(q) = Q_DEPTH>>
    OBVIOUS
  <2>1. Desk!Next \/ UNCHANGED CommandState
    BY EveryStepMoves, MovesOnDesk
  <2> QED
    BY <2>1 DEF Desk!Next
<1> QED
  BY <1>1, InitOnDesk, AlwaysDesk, PTL DEF Spec, ImplementsDesk, Desk!Spec
=============================================================================
