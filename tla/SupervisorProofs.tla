-------------------------- MODULE SupervisorProofs --------------------------
(***************************************************************************)
(* Proofs about the add-on's supervisor, for any number of pumps, clients, *)
(* requests and networks, every policy and every choice of checks.         *)
(***************************************************************************)
EXTENDS Supervisor, FiniteSetTheorems, TLAPS

-----------------------------------------------------------------------------
(* The steps of the flash cycle know their job.                            *)

JobOK ==
  /\ pc = "boot" => job.kind = "up"
  /\ pc \in {"start", "stop"} => job.kind # "none"
  /\ pc \in {"write", "writing"} => Uses(job.kind)
  /\ pc \in {"unlink", "compare", "already", "answer"} => job.kind \in Mail
  /\ pc \in Rounds \cup {"ask", "verify", "reboot"} => job.kind = "none"

\* The supervisor's esptool; those who flash stand-alone have the others.
Own == tool \ Clients

\* Pumps and the supervisor's esptool take turns.
PortOK ==
  /\ running = {} \/ (running = {pump} /\ Own = {})
  /\ pc \in {"off", "boot", "start", "write", "writing"} => running = {}
  /\ Own # {} => pc = "writing"

Cares == [silent : 0..2, unreachable : 0..2, identity_seen : BOOLEAN, ble_synced : BOOLEAN]

\* TypeOK in three parts: the loop's state, what is asked and answered, the stick.
LoopType ==
  /\ pc \in Places /\ job \in Jobs
  /\ pump \in Pumps \cup {None} /\ running \subseteq Pumps
  /\ stopping \in BOOLEAN
  /\ care \in Cares
  /\ remedy \in {"none", "tried", "in vain"}

Stages == {"idle", "cleared", "waiting", "alone"}
AskType ==
  /\ req \in [Mail -> Asks \cup {None}] /\ res \in [Mail -> Asks \cup {None}]
  /\ client \in [Clients -> [at : Stages, kind : Mail \cup {None}, force : BOOLEAN]]
  /\ crossed \subseteq Clients
  /\ asked \in [Clients -> Nat] /\ \A c \in Clients : asked[c] <= MaxAsks[c]

Sticks == [app : Apps, setting : Settings, network : Networks, hand : BOOLEAN]
StickType ==
  /\ tool \subseteq Clients \cup {"supervisor"}
  /\ stick \in Sticks
  /\ remembered \in Networks \cup {None}

LEMMA TypeParts == TypeOK <=> LoopType /\ AskType /\ StickType
BY DEF TypeOK, LoopType, AskType, Stages, StickType, Sticks, Cares

-----------------------------------------------------------------------------
(* Facts about the operators.                                              *)

OwnKinds == {"none", "up", "first", "exited", "silent", "rebuild", "reboot"}

LEMMA JobTypes ==
  /\ \A k \in OwnKinds : ForItself(k) \in Jobs /\ ForItself(k).kind = k
  /\ Done \in Jobs /\ Done.kind = "none"
  /\ \A k \in Mail, a \in Asks : [kind |-> k, ask |-> a] \in Jobs
  /\ \A j \in Jobs : /\ j.kind \in Mail => j.ask \in Asks
                     /\ j.kind \in Mail \cup OwnKinds
BY DEF Jobs, ForItself, Done, Mail, OwnKinds

\* Whatever esptool leaves behind is a stick.
LEMMA StickTypes ==
  ASSUME stick \in Sticks
  PROVE  /\ \A f \in BOOLEAN : AfterFlash(f) \subseteq Sticks
         /\ AfterRestore \subseteq Sticks
<1>1. {"current", "blank"} \subseteq Apps
  BY SupervisorAssumption
<1>2. ASSUME NEW f \in BOOLEAN, NEW s \in AfterFlash(f)
      PROVE  s \in Sticks
  <2>1. s = stick \/ s \in [app : {"current", "blank"}, setting : Settings, network : Networks, hand : {FALSE}]
    BY <1>2 DEF AfterFlash
  <2>2. QED
    BY <1>1, <2>1 DEF Sticks
<1>3. stick.app \in Apps
  BY DEF Sticks
<1>4. AfterRestore \subseteq Sticks
  BY <1>3 DEF AfterRestore, Sticks
<1>5. QED
  BY <1>2, <1>4

\* A client's record with another stage in it.
LEMMA ClientStage ==
  ASSUME AskType, NEW c \in Clients, NEW s \in Stages,
         client' = [client EXCEPT ![c].at = s]
  PROVE  client' \in [Clients -> [at : Stages, kind : Mail \cup {None}, force : BOOLEAN]]
<1>1. [client[c] EXCEPT !.at = s] \in [at : Stages, kind : Mail \cup {None}, force : BOOLEAN]
  BY DEF AskType
<1>2. client' = [client EXCEPT ![c] = [client[c] EXCEPT !.at = s]]
  OBVIOUS
<1>3. QED
  BY <1>1, <1>2 DEF AskType

LEMMA ClientAt ==
  ASSUME AskType, NEW c \in Clients, NEW s, client' = [client EXCEPT ![c].at = s]
  PROVE  client'[c].at = s /\ \A d \in Clients \ {c} : client'[d] = client[d]
<1>1. client' = [client EXCEPT ![c] = [client[c] EXCEPT !.at = s]]
  OBVIOUS
<1>2. [client[c] EXCEPT !.at = s].at = s
  BY DEF AskType
<1>3. QED
  BY <1>1, <1>2 DEF AskType

-----------------------------------------------------------------------------
(* Each step changes what it should, and nothing else.                     *)

askVars == <<req, res, client, asked, crossed>>

LEMMA AskFrame ==
  ASSUME [Next]_vars
  PROVE  \/ UNCHANGED askVars
         \/ Start \/ Boot \/ RemoveRequest \/ TakeBackup \/ Answer \/ End
         \/ \E c \in Clients : Client(c)
<1> USE DEF askVars, files, others, Quiet
<1>1. CASE UNCHANGED vars
  BY <1>1 DEF vars
<1>2. CASE Terminate \/ PumpExits \/ StickChanges
  BY <1>2 DEF Terminate, PumpExits, StickChanges
<1>3. CASE Service
  BY <1>3 DEF Service, StopPump, Esptool, NoFile, Dies, EsptoolEnds, StartPump, Ask
<1>4. CASE Leave \/ Kill
  BY <1>4 DEF Leave, Kill
<1>5. CASE Pass \/ PumpExited \/ ReadRequest \/ Compare
  BY <1>5 DEF Pass, PumpExited, ReadRequest, Compare
<1>6. CASE Probe \/ Reached \/ Unreached \/ VerifyFails \/ Reboot
  BY <1>6 DEF Probe, Reached, Unreached, VerifyFails, Reboot
<1>7. CASE (\E s \in BOOLEAN : Identify(s)) \/ SyncBle
  BY <1>7 DEF Identify, SyncBle
<1>8. QED
  BY <1>1, <1>2, <1>3, <1>4, <1>5, <1>6, <1>7 DEF Next, Loop

\* One request more is still within the bound.
LEMMA AskOnce ==
  ASSUME AskType, NEW c \in Clients, asked[c] < MaxAsks[c],
         asked' = [asked EXCEPT ![c] = @ + 1]
  PROVE  asked' \in [Clients -> Nat] /\ \A d \in Clients : asked'[d] <= MaxAsks[d]
<1>1. asked[c] \in Nat /\ MaxAsks[c] \in Nat
  BY SupervisorAssumption DEF AskType
<1>2. asked'[c] = asked[c] + 1 /\ \A d \in Clients \ {c} : asked'[d] = asked[d]
  BY DEF AskType
<1>3. asked' \in [Clients -> Nat]
  BY <1>1 DEF AskType
<1>4. asked'[c] <= MaxAsks[c]
  BY <1>1, <1>2
<1>5. QED
  BY <1>2, <1>3, <1>4 DEF AskType

\* A request found in its file is still a request.
LEMMA LeftType ==
  ASSUME req \in [Mail -> Asks \cup {None}]
  PROVE  LeftIn(req) \in [Mail -> Asks \cup {None}]
<1>1. ASSUME NEW k \in Mail, req[k] # None
      PROVE  [req[k] EXCEPT !.left = TRUE] \in Asks
  BY <1>1 DEF Asks
<1>2. QED
  BY <1>1 DEF LeftIn

LEMMA AskStep ==
  ASSUME TypeOK, JobOK, [Next]_vars
  PROVE  AskType'
<1> AskType /\ LoopType
  BY TypeParts
<1> USE DEF AskType, files, others
<1>1. CASE UNCHANGED askVars
  BY <1>1 DEF askVars
<1>2. CASE Start
  BY <1>2, LeftType DEF Start
<1>3. CASE Boot
  BY <1>3 DEF Boot, WithoutFlash
<1>4. CASE RemoveRequest
  BY <1>4 DEF RemoveRequest
<1>5. CASE TakeBackup
  BY <1>5 DEF TakeBackup
<1>6. CASE Answer
  <2>1. job.ask \in Asks
    BY <1>6, JobTypes DEF Answer, JobOK, LoopType
  <2>2. QED
    BY <1>6, <2>1 DEF Answer, Reply
<1> DEFINE Does == [at : Stages, kind : Mail \cup {None}, force : BOOLEAN]
<1>0. Idle \in Does
  BY DEF Idle, Stages
<1>7. CASE End
  <2>1. \A c \in Clients : (IF client[c].at = "alone" THEN client[c] ELSE Idle) \in Does
    BY <1>0
  <2>2. QED
    BY <1>7, <2>1 DEF End
<1>8. ASSUME NEW c \in Clients, Client(c)
      PROVE  AskType'
  <2>1. ASSUME NEW k \in Mail, NEW f \in BOOLEAN, Clear(c, k, f)
        PROVE  AskType'
    <3>1. res' \in [Mail -> Asks \cup {None}]
      BY <2>1 DEF Clear, WithoutAnswer
    <3>2. crossed' \subseteq Clients
      BY <2>1 DEF Clear, Crossing
    <3>3. client' \in [Clients -> Does]
      BY <2>1 DEF Clear, Stages
    <3>4. QED
      BY <2>1, <3>1, <3>2, <3>3, AskOnce DEF Clear
  <2>2. CASE Post(c)
    <3>1. AskOf(c) \in Asks
      BY SupervisorAssumption DEF AskOf, Asks
    <3>2. req' \in [Mail -> Asks \cup {None}]
      BY <2>2, <3>1 DEF Post
    <3>3. QED
      BY <2>2, <3>2, ClientStage DEF Post, Stages
  <2>3. CASE Told(c) \/ GiveUp(c)
    BY <1>0, <2>3 DEF Told, GiveUp
  <2>4. ASSUME NEW f \in BOOLEAN, AloneBegin(c, f)
        PROVE  AskType'
    BY <2>4, AskOnce DEF AloneBegin, Mail, Stages
  <2>5. CASE AloneEnd(c)
    BY <1>0, <2>5 DEF AloneEnd
  <2>6. QED
    BY <1>8, <2>1, <2>2, <2>3, <2>4, <2>5 DEF Client
<1>9. QED
  BY <1>1, <1>2, <1>3, <1>4, <1>5, <1>6, <1>7, <1>8, AskFrame

LEMMA StickStep ==
  ASSUME TypeOK, [Next]_vars
  PROVE  StickType'
<1> LoopType /\ AskType /\ StickType
  BY TypeParts
<1> USE DEF StickType, files, others, supervisor, Quiet
<1>1. CASE UNCHANGED vars
  BY <1>1 DEF vars
<1>2. CASE Start \/ Boot \/ Terminate \/ PumpExits
  BY <1>2 DEF Start, Boot, Terminate, PumpExits
<1>3. CASE StickChanges
  BY <1>3 DEF StickChanges, Sticks
<1>4. CASE End
  BY <1>4 DEF End
<1>5. CASE EsptoolEnds
  <2>1. Forced \in BOOLEAN
    <3>1. CASE job.kind = "flash"
      BY <3>1, JobTypes DEF Forced, LoopType, Asks, Mail
    <3>2. CASE job.kind # "flash"
      BY <3>2 DEF Forced
    <3>3. QED
      BY <3>1, <3>2
  <2>2. stick' = stick \/ stick' \in AfterRestore \/ stick' \in AfterFlash(Forced)
    BY <1>5 DEF EsptoolEnds
  <2>3. stick' \in Sticks
    BY <2>1, <2>2, StickTypes
  <2>4. QED
    BY <1>5, <2>3 DEF EsptoolEnds
<1>6. CASE StopPump \/ Esptool \/ NoFile \/ StartPump \/ Ask
  BY <1>6 DEF StopPump, Esptool, NoFile, StartPump, Ask
<1>7. CASE Pass \/ PumpExited \/ ReadRequest \/ RemoveRequest \/ TakeBackup \/ Compare \/ Answer
  BY <1>7 DEF Pass, PumpExited, ReadRequest, RemoveRequest, TakeBackup, Compare, Answer
<1>8. CASE Probe \/ Reached \/ Unreached \/ VerifyFails \/ Reboot
  BY <1>8 DEF Probe, Reached, Unreached, VerifyFails, Reboot
<1>9. ASSUME NEW s \in BOOLEAN, Identify(s)
      PROVE  StickType'
  BY <1>9 DEF Identify, Sticks
<1>10. CASE SyncBle
  BY <1>10, SupervisorAssumption DEF SyncBle, Sticks
<1>11. ASSUME NEW c \in Clients, Client(c)
       PROVE  StickType'
  <2>1. CASE AloneEnd(c)
    <3>1. PICK s \in AfterFlash(FALSE) : stick' = [s EXCEPT !.hand = TRUE]
      BY <2>1 DEF AloneEnd
    <3>2. s \in Sticks
      BY <3>1, StickTypes
    <3>3. QED
      BY <2>1, <3>1, <3>2 DEF AloneEnd, Sticks
  <2>2. CASE (\E f \in BOOLEAN : AloneBegin(c, f))
    BY <2>2 DEF AloneBegin
  <2>3. CASE Post(c) \/ Told(c) \/ GiveUp(c) \/ \E k \in Mail, f \in BOOLEAN : Clear(c, k, f)
    BY <2>3 DEF Post, Told, GiveUp, Clear
  <2>4. QED
    BY <1>11, <2>1, <2>2, <2>3 DEF Client
<1>12. QED
  BY <1>1, <1>2, <1>3, <1>4, <1>5, <1>6, <1>7, <1>8, <1>9, <1>10, <1>11
     DEF Next, Service, Loop, Kill, Leave, Dies

-----------------------------------------------------------------------------
(* The loop's own state.                                                   *)

loopVars == <<pc, job, pump, running, stopping, care, remedy>>

\* The counters.
LEMMA Counts ==
  /\ \A n \in 0..2 : AfterMiss(n) \in 0..2 /\ WhenReached(n) = 0 /\ (n + 1) % 3 \in 0..2
  /\ AfterMiss(0) = 1 /\ AfterMiss(1) = 2 /\ AfterMiss(2) = 0
  /\ 0 \in 0..2
<1>1. /\ AfterMiss(0) = 1 /\ AfterMiss(1) = 2 /\ AfterMiss(2) = 0
  BY DEF AfterMiss
<1>2. \A n \in 0..2 : (n + 1) % 3 \in 0..2
  OBVIOUS
<1>3. QED
  BY <1>1, <1>2 DEF WhenReached, AfterMiss

LEMMA FreshType == Fresh \in Cares
BY DEF Cares, Fresh

\* Where the loop goes on.
LEMMA Onward ==
  /\ After["pump"] = "restore" /\ After["restore"] = "backup" /\ After["backup"] = "flash"
  /\ After["flash"] = "probe" /\ After["probe"] = "reach" /\ After["reach"] = "identity"
  /\ After["identity"] = "ble" /\ After["ble"] = "status" /\ After["status"] = "pump"
  /\ DOMAIN After = Rounds
BY DEF After, Rounds

LEMMA Resuming ==
  /\ Resumes["up"] = "ask" /\ Resumes["first"] = "pump" /\ Resumes["exited"] = "restore"
  /\ Resumes["silent"] = "reach" /\ Resumes["rebuild"] = "verify" /\ Resumes["reboot"] = "identity"
  /\ Resumes["restore"] = "answer" /\ Resumes["backup"] = "answer" /\ Resumes["flash"] = "answer"
BY DEF Resumes

LEMMA LoopStep ==
  ASSUME TypeOK, JobOK, PortOK, [Next]_vars
  PROVE  LoopType' /\ JobOK'
<1> LoopType /\ AskType /\ StickType
  BY TypeParts
<1> USE DEF LoopType, JobOK, files, others, supervisor, Places, Rounds, Uses
<1>1. CASE UNCHANGED loopVars
  BY <1>1 DEF loopVars
<1>2. CASE Start
  BY <1>2, JobTypes DEF Start, OwnKinds
<1>3. CASE Boot
  BY <1>3 DEF Boot
<1>4. CASE Terminate \/ PumpExits
  BY <1>4 DEF Terminate, PumpExits
<1>5. CASE End
  BY <1>5, JobTypes, FreshType DEF End
<1>6. CASE StopPump
  BY <1>6 DEF StopPump, Stopped
<1>7. CASE Esptool \/ EsptoolEnds \/ NoFile
  BY <1>7 DEF Esptool, EsptoolEnds, NoFile, Uses, Mail
<1>8. CASE StartPump
  <2>1. running = {} /\ pump' \in Pumps
    BY <1>8, SupervisorAssumption DEF StartPump, PortOK
  <2>2. job.kind \in {"up", "first", "exited", "silent", "rebuild", "reboot",
                      "restore", "backup", "flash"}
    BY <1>8, JobTypes DEF StartPump, OwnKinds, Mail
  <2>3. pc' \in {"ask", "pump", "restore", "reach", "verify", "identity", "answer"}
    BY <1>8, <2>2, Resuming DEF StartPump
  <2>4. pc' = "answer" => job.kind \in Mail
    BY <1>8, <2>2, Resuming DEF StartPump, Mail
  <2>5. job' \in Jobs /\ (job.kind \in Mail => job' = job)
    BY <1>8, JobTypes DEF StartPump
  <2>6. pc' # "answer" => job'.kind = "none"
    <3>1. job.kind \in Mail => pc' = "answer"
      BY <1>8, <2>2, Resuming DEF StartPump, Mail
    <3>2. job.kind \notin Mail => job' = Done
      BY <1>8 DEF StartPump
    <3>3. QED
      BY <3>1, <3>2, JobTypes
  <2>7. QED
    BY <1>8, <2>1, <2>3, <2>4, <2>5, <2>6 DEF StartPump
<1>9. CASE Ask \/ PumpExited
  BY <1>9, JobTypes DEF Ask, PumpExited, OwnKinds
<1>10. CASE Pass
  <2>1. pc' \in Rounds
    BY <1>10, Onward DEF Pass
  <2>2. job'.kind = "none"
    BY <1>10, Onward DEF Pass
  <2>3. QED
    BY <1>10, <2>1, <2>2 DEF Pass
<1>11. CASE ReadRequest
  <2>1. pc \in Mail /\ req[pc] \in Asks
    BY <1>11 DEF ReadRequest, Mail, AskType
  <2>2. QED
    BY <1>11, <2>1, JobTypes DEF ReadRequest
<1>12. CASE RemoveRequest
  BY <1>12 DEF RemoveRequest, Mail
<1>13. CASE TakeBackup
  <2>1. req["backup"] \in Asks
    BY <1>13 DEF TakeBackup, Mail, AskType
  <2>2. QED
    BY <1>13, <2>1, JobTypes DEF TakeBackup, Mail
<1>14. CASE Compare
  BY <1>14 DEF Compare, Mail
<1>15. CASE Answer
  <2>1. pc' \in Rounds
    BY <1>15, Onward DEF Answer, Mail
  <2>2. care' \in Cares
    <3>1. care' = care \/ care' = [care EXCEPT !.identity_seen = FALSE, !.ble_synced = FALSE]
      BY <1>15 DEF Answer
    <3>2. [care EXCEPT !.identity_seen = FALSE, !.ble_synced = FALSE] \in Cares
      BY DEF Cares
    <3>3. QED
      BY <3>1, <3>2
  <2>3. QED
    BY <1>15, <2>1, <2>2, JobTypes DEF Answer
<1>16. CASE Probe
  <2>1. care' \in Cares
    <3>1. PICK n \in {0, (care.silent + 1) % 3} : care' = [care EXCEPT !.silent = n]
      BY <1>16 DEF Probe
    <3>2. n \in 0..2
      <4>1. care.silent \in 0..2
        BY DEF Cares
      <4>2. (care.silent + 1) % 3 \in 0..2
        BY <4>1, Counts
      <4>3. n = 0 \/ n = (care.silent + 1) % 3
        OBVIOUS
      <4>4. 0 \in 0..2
        BY Counts
      <4>5. QED
        BY <4>2, <4>3, <4>4
    <3>3. QED
      BY <3>1, <3>2 DEF Cares
  <2>2. \/ pc' = "reach" /\ job' = job
        \/ pc' = "stop" /\ job' = ForItself("silent")
    BY <1>16 DEF Probe
  <2>3. QED
    BY <1>16, <2>1, <2>2, JobTypes DEF Probe, OwnKinds
<1>17. CASE Reached
  <2>1. care' \in Cares
    <3>1. PICK n \in {0, AfterMiss(care.unreachable)} : care' = [care EXCEPT !.unreachable = n]
      BY <1>17, Counts DEF Reached, Cares
    <3>2. n \in 0..2
      <4>1. care.unreachable \in 0..2
        BY DEF Cares
      <4>2. AfterMiss(care.unreachable) \in 0..2
        BY <4>1, Counts
      <4>3. n = 0 \/ n = AfterMiss(care.unreachable)
        OBVIOUS
      <4>4. 0 \in 0..2
        BY Counts
      <4>5. QED
        BY <4>2, <4>3, <4>4
    <3>3. QED
      BY <3>1, <3>2 DEF Cares
  <2>2. QED
    BY <1>17, <2>1 DEF Reached
<1>18. CASE Unreached
  <2>1. care' \in Cares
    <3>1. PICK n \in {0, AfterMiss(care.unreachable)} : care' = [care EXCEPT !.unreachable = n]
      BY <1>18, Counts DEF Unreached, Cares
    <3>2. n \in 0..2
      <4>1. care.unreachable \in 0..2
        BY DEF Cares
      <4>2. AfterMiss(care.unreachable) \in 0..2
        BY <4>1, Counts
      <4>3. n = 0 \/ n = AfterMiss(care.unreachable)
        OBVIOUS
      <4>4. 0 \in 0..2
        BY Counts
      <4>5. QED
        BY <4>2, <4>3, <4>4
    <3>3. QED
      BY <3>1, <3>2 DEF Cares
  <2>2. \/ pc' \in {"identity", "reboot"} /\ job' = job
        \/ pc' = "stop" /\ job' = ForItself("rebuild")
    BY <1>18 DEF Unreached
  <2>3. QED
    BY <1>18, <2>1, <2>2, JobTypes DEF Unreached, OwnKinds
<1>19. CASE VerifyFails \/ Reboot
  BY <1>19, JobTypes DEF VerifyFails, Reboot, OwnKinds
<1>20. ASSUME NEW s \in BOOLEAN, Identify(s)
       PROVE  LoopType' /\ JobOK'
  <2>1. care' \in Cares
    <3>1. care' = care \/ care' = [care EXCEPT !.identity_seen = TRUE]
      BY <1>20 DEF Identify
    <3>2. [care EXCEPT !.identity_seen = TRUE] \in Cares
      BY DEF Cares
    <3>3. QED
      BY <3>1, <3>2
  <2>2. pc' \in {"ble", "pump"}
    BY <1>20, Onward DEF Identify, Looks
  <2>3. job'.kind = "none"
    BY <1>20 DEF Identify, Looks
  <2>4. QED
    BY <1>20, <2>1, <2>2, <2>3 DEF Identify
<1>21. CASE SyncBle
  <2>1. care' \in Cares
    <3>1. [care EXCEPT !.ble_synced = TRUE] \in Cares
      BY DEF Cares
    <3>2. QED
      BY <1>21, <3>1 DEF SyncBle
  <2>2. QED
    BY <1>21, <2>1 DEF SyncBle
<1>22. ASSUME NEW c \in Clients, Client(c)
       PROVE  UNCHANGED loopVars
  BY <1>22 DEF Client, Clear, Post, Told, GiveUp, AloneBegin, AloneEnd, loopVars
<1>23. CASE StickChanges \/ UNCHANGED vars
  BY <1>23 DEF StickChanges, vars, loopVars
<1>24. QED
  BY <1>1, <1>2, <1>3, <1>4, <1>5, <1>6, <1>7, <1>8, <1>9, <1>10, <1>11, <1>12, <1>13, <1>14,
     <1>15, <1>16, <1>17, <1>18, <1>19, <1>20, <1>21, <1>22, <1>23
     DEF Next, Service, Loop, Kill, Leave, Dies

-----------------------------------------------------------------------------
(* The port.                                                               *)

LEMMA PortInit == Init => PortOK
BY DEF Init, PortOK, Own

LEMMA PortClients ==
  ASSUME PortOK, NEW c \in Clients, Client(c)
  PROVE  PortOK'
<1>1. UNCHANGED <<pc, running, pump>>
  BY DEF Client, Clear, Post, Told, GiveUp, AloneBegin, AloneEnd, supervisor
<1>2. UNCHANGED Own
  <2>1. tool' \in {tool, tool \cup {c}, tool \ {c}}
    BY DEF Client, Clear, Post, Told, GiveUp, AloneBegin, AloneEnd
  <2>2. QED
    BY <2>1 DEF Own
<1>3. QED
  BY <1>1, <1>2 DEF PortOK

LEMMA PortStep ==
  ASSUME TypeOK, JobOK, PortOK, [Next]_vars
  PROVE  PortOK'
<1> LoopType /\ AskType /\ StickType
  BY TypeParts
<1> USE DEF files, others, supervisor, Quiet
<1> USE DEF Own
<1>1. CASE UNCHANGED <<pc, pump, running, tool>>
  BY <1>1 DEF PortOK
<1>2. CASE Start \/ Boot \/ Terminate
  BY <1>2 DEF Start, Boot, Terminate, PortOK
<1>3. CASE PumpExits
  <2>1. running' = {}
    BY <1>3 DEF PumpExits, PortOK
  <2>2. QED
    BY <1>3, <2>1 DEF PumpExits, PortOK
<1>4. CASE End
  <2>1. Own' = {}
    BY <1>4 DEF End, StickType
  <2>2. QED
    BY <1>4, <2>1 DEF End, PortOK
<1>5. CASE StopPump
  <2>1. running' = {} /\ Own' = {}
    BY <1>5 DEF StopPump, Stopped, PortOK
  <2>2. QED
    BY <1>5, <2>1 DEF StopPump, PortOK
<1>6. CASE Esptool
  BY <1>6 DEF Esptool, PortOK
<1>7. CASE EsptoolEnds
  <2>1. running = {} /\ Own' = {} /\ pc' = "start"
    BY <1>7 DEF EsptoolEnds, PortOK, StickType
  <2>2. QED
    BY <1>7, <2>1 DEF EsptoolEnds, PortOK
<1>8. CASE NoFile
  BY <1>8 DEF NoFile, PortOK
<1>9. CASE StartPump
  <2>1. running' = {pump'} /\ Own' = {}
    BY <1>9 DEF StartPump, PortOK
  <2>2. pc' \in {"ask", "pump", "restore", "reach", "verify", "identity", "answer"}
    <3>1. job.kind \in {"up", "first", "exited", "silent", "rebuild", "reboot",
                        "restore", "backup", "flash"}
      BY <1>9, JobTypes DEF StartPump, JobOK, LoopType, OwnKinds, Mail
    <3>2. QED
      BY <1>9, <3>1, Resuming DEF StartPump
  <2>3. QED
    BY <1>9, <2>1, <2>2 DEF StartPump, PortOK
<1>10. ASSUME UNCHANGED <<pump, running, tool>>, pc # "writing",
              pc' \notin {"off", "boot", "write", "writing"},
              pc' = "start" => running = {}
       PROVE  PortOK'
  BY <1>10 DEF PortOK
<1>11. CASE PumpExited
  <2>1. running = {}
    BY <1>11 DEF PumpExited, PortOK
  <2>2. QED
    BY <1>10, <1>11, <2>1 DEF PumpExited
<1>12. CASE Ask \/ ReadRequest \/ RemoveRequest \/ TakeBackup \/ Compare
  BY <1>10, <1>12 DEF Ask, ReadRequest, RemoveRequest, TakeBackup, Compare
<1>13. CASE Pass
  <2>1. pc \in Rounds /\ pc' \in Rounds
    BY <1>13, Onward DEF Pass, Rounds
  <2>2. QED
    BY <1>10, <1>13, <2>1 DEF Pass, Rounds
<1>14. CASE Answer
  <2>1. pc' \in Rounds
    BY <1>14, Onward DEF Answer, JobOK, Mail, Rounds
  <2>2. QED
    BY <1>10, <1>14, <2>1 DEF Answer, Rounds
<1>15. CASE Probe
  BY <1>10, <1>15 DEF Probe
<1>16. CASE Unreached
  <2>1. pc' \in {"identity", "stop", "reboot"}
    BY <1>16 DEF Unreached
  <2>2. QED
    BY <1>10, <1>16, <2>1 DEF Unreached
<1>17. CASE Reached \/ VerifyFails \/ Reboot \/ SyncBle
  BY <1>10, <1>17 DEF Reached, VerifyFails, Reboot, SyncBle
<1>18. ASSUME NEW s \in BOOLEAN, Identify(s)
       PROVE  PortOK'
  <2>1. pc' \in {"ble", "pump"} /\ pc \in {"identity", "status"}
    BY <1>18, Onward DEF Identify, Looks
  <2>2. QED
    BY <1>10, <1>18, <2>1 DEF Identify
<1>19. CASE StickChanges \/ UNCHANGED vars
  BY <1>1, <1>19 DEF StickChanges, vars
<1>20. QED
  BY <1>2, <1>3, <1>4, <1>5, <1>6, <1>7, <1>8, <1>9, <1>11, <1>12, <1>13, <1>14, <1>15, <1>16,
     <1>17, <1>18, <1>19, PortClients
     DEF Next, Service, Loop, Kill, Leave, Dies

-----------------------------------------------------------------------------
(* The remedies for a silent mesh.                                         *)

\* A second miss leads to a new link, and stays remembered until the new link
\* has failed.
RemedyOK ==
  /\ care.unreachable = 2 => \/ remedy = "tried" \/ pc = "verify"
                             \/ pc \in {"stop", "start"} /\ job.kind = "rebuild"
  /\ pc = "reboot" => remedy = "in vain"

LEMMA RemedyInit == Init => RemedyOK
BY DEF Init, RemedyOK, Fresh

\* What a miss leads to.
LEMMA UnreachedGoes ==
  ASSUME Unreached
  PROVE  /\ care.unreachable = 0 => pc' = "identity" /\ job' = job
         /\ care.unreachable = 1 => pc' = "stop" /\ job' = ForItself("rebuild")
         /\ care.unreachable = 2 => pc' = "reboot" /\ job' = job
         /\ remedy = "tried" => remedy' = "in vain"
<1>1. ASSUME care.unreachable = 0
      PROVE  pc' = "identity" /\ job' = job
  <2>1. care.unreachable # 1
    BY <1>1
  <2>2. QED
    BY <1>1, <2>1, Zenon DEF Unreached
<1>2. ASSUME care.unreachable = 1
      PROVE  pc' = "stop" /\ job' = ForItself("rebuild")
  <2>1. care.unreachable # 0
    BY <1>2
  <2>2. QED
    BY <1>2, <2>1 DEF Unreached
<1>3. ASSUME care.unreachable = 2
      PROVE  pc' = "reboot" /\ job' = job
  <2>1. care.unreachable # 0 /\ care.unreachable # 1
    BY <1>3
  <2>2. QED
    BY <2>1 DEF Unreached
<1>4. remedy = "tried" => remedy' = "in vain"
  BY DEF Unreached
<1>5. QED
  BY <1>1, <1>2, <1>3, <1>4

LEMMA RemedyStep ==
  ASSUME TypeOK, JobOK, RemedyOK, [Next]_vars
  PROVE  RemedyOK'
<1> LoopType
  BY TypeParts
<1> USE DEF files, others, supervisor, Quiet
<1>1. CASE UNCHANGED <<pc, job, care, remedy>>
  BY <1>1 DEF RemedyOK
<1>2. CASE Start \/ Boot
  BY <1>2 DEF Start, Boot, RemedyOK
<1>0. ASSUME care'.unreachable # 2, pc' # "reboot"
      PROVE  RemedyOK'
  BY <1>0 DEF RemedyOK
<1>3. CASE End
  <2>1. care' = Fresh /\ pc' = "off"
    BY <1>3 DEF End
  <2>2. Fresh.unreachable # 2
    BY DEF Fresh
  <2>3. QED
    BY <1>0, <2>1, <2>2
<1>4. CASE StopPump
  BY <1>4 DEF StopPump, RemedyOK, Uses, Mail
<1>5. ASSUME UNCHANGED <<care, remedy>>, pc \notin {"stop", "start", "verify"}, pc' # "reboot"
      PROVE  RemedyOK'
  BY <1>5 DEF RemedyOK
<1>6. CASE Esptool \/ NoFile \/ EsptoolEnds \/ Ask \/ PumpExited
  BY <1>5, <1>6 DEF Esptool, NoFile, EsptoolEnds, Ask, PumpExited
<1>7. CASE StartPump
  <2>1. job.kind \in {"up", "first", "exited", "silent", "rebuild", "reboot",
                      "restore", "backup", "flash"}
    BY <1>7, JobTypes DEF StartPump, JobOK, LoopType, OwnKinds, Mail
  <2>2. pc' # "reboot" /\ (job.kind = "rebuild" => pc' = "verify")
    BY <1>7, <2>1, Resuming DEF StartPump
  <2>3. QED
    BY <1>7, <2>2 DEF StartPump, RemedyOK
<1>8. CASE ReadRequest \/ RemoveRequest \/ TakeBackup \/ Compare
  BY <1>5, <1>8 DEF ReadRequest, RemoveRequest, TakeBackup, Compare
<1>9. CASE Pass
  <2>1. pc \in Rounds /\ pc' \in Rounds
    BY <1>9, Onward DEF Pass, Rounds
  <2>2. QED
    BY <1>5, <1>9, <2>1 DEF Pass, Rounds
<1>10. ASSUME UNCHANGED remedy, care'.unreachable = care.unreachable,
              pc \notin {"stop", "start", "verify"}, pc' # "reboot"
       PROVE  RemedyOK'
  BY <1>10 DEF RemedyOK
<1>11. CASE Answer
  <2>1. pc' \in Rounds
    BY <1>11, Onward DEF Answer, JobOK, Mail, Rounds
  <2>2. care'.unreachable = care.unreachable
    BY <1>11 DEF Answer, LoopType, Cares
  <2>3. QED
    BY <1>10, <1>11, <2>1, <2>2 DEF Answer, Rounds
<1>12. CASE Probe
  <2>1. care'.unreachable = care.unreachable
    BY <1>12 DEF Probe, LoopType, Cares
  <2>2. QED
    BY <1>10, <1>12, <2>1 DEF Probe
<1>13. CASE Reached
  <2>1. care'.unreachable = 0
    BY <1>13, Counts DEF Reached, LoopType, Cares
  <2>2. QED
    BY <1>0, <1>13, <2>1 DEF Reached
<1>14. CASE Unreached
  <2>1. care'.unreachable = AfterMiss(care.unreachable) /\ care.unreachable \in 0..2
    BY <1>14 DEF Unreached, LoopType, Cares
  <2>2. CASE care.unreachable = 0
    <3>1. care'.unreachable = 1
      BY <2>1, <2>2, Counts
    <3>2. pc' = "identity"
      BY <1>14, <2>2, UnreachedGoes
    <3>3. QED
      BY <1>0, <3>1, <3>2
  <2>3. CASE care.unreachable = 1
    <3>1. pc' = "stop" /\ job'.kind = "rebuild"
      BY <1>14, <2>3, UnreachedGoes, JobTypes DEF OwnKinds
    <3>2. QED
      BY <3>1 DEF RemedyOK
  <2>4. CASE care.unreachable = 2
    <3>1. remedy = "tried"
      BY <1>14, <2>4 DEF Unreached, RemedyOK
    <3>2. remedy' = "in vain" /\ pc' = "reboot"
      BY <1>14, <2>4, <3>1, UnreachedGoes
    <3>3. care'.unreachable = 0
      BY <2>1, <2>4, Counts
    <3>4. care'.unreachable # 2
      BY <3>3
    <3>5. QED
      BY <3>2, <3>4 DEF RemedyOK
  <2>5. QED
    BY <2>1, <2>2, <2>3, <2>4
<1>15. CASE VerifyFails
  BY <1>15 DEF VerifyFails, RemedyOK
<1>16. CASE Reboot
  <2>1. care.unreachable # 2
    BY <1>16 DEF Reboot, RemedyOK
  <2>2. QED
    BY <1>0, <1>16, <2>1 DEF Reboot
<1>17. ASSUME NEW s \in BOOLEAN, Identify(s)
       PROVE  RemedyOK'
  <2>1. pc' \in {"ble", "pump"} /\ pc \in {"identity", "status"}
    BY <1>17, Onward DEF Identify, Looks
  <2>2. care'.unreachable = care.unreachable
    BY <1>17 DEF Identify, LoopType, Cares
  <2>3. QED
    BY <1>10, <1>17, <2>1, <2>2 DEF Identify
<1>18. CASE SyncBle
  <2>1. care'.unreachable = care.unreachable
    BY <1>18 DEF SyncBle, LoopType, Cares
  <2>2. QED
    BY <1>10, <1>18, <2>1 DEF SyncBle
<1>19. ASSUME NEW c \in Clients, Client(c)
       PROVE  UNCHANGED <<pc, job, care, remedy>>
  BY <1>19 DEF Client, Clear, Post, Told, GiveUp, AloneBegin, AloneEnd
<1>20. CASE Terminate \/ PumpExits \/ StickChanges \/ UNCHANGED vars
  BY <1>1, <1>20 DEF Terminate, PumpExits, StickChanges, vars
<1>21. QED
  BY <1>1, <1>2, <1>3, <1>4, <1>6, <1>7, <1>8, <1>9, <1>11, <1>12, <1>13, <1>14, <1>15, <1>16,
     <1>17, <1>18, <1>19, <1>20
     DEF Next, Service, Loop, Kill, Leave, Dies

-----------------------------------------------------------------------------
(* The latch for the radio's address.                                      *)

LatchOK ==
  /\ care.ble_synced => \/ stick.setting = "right" \/ stick.hand
                        \/ pc \in {"start", "answer"} /\ job.kind \in {"flash", "restore"}
  /\ pc \in {"off", "boot", "ask"} \/ job.kind \in {"up", "first"} => ~care.ble_synced

LEMMA LatchInit == Init => LatchOK
BY DEF Init, LatchOK, Fresh

LEMMA LatchStep ==
  ASSUME TypeOK, JobOK, PortOK, LatchOK, [Next]_vars
  PROVE  LatchOK'
<1> LoopType /\ StickType
  BY TypeParts
<1> USE DEF files, others, supervisor, Quiet
\* A step that leaves the job alone, at places the latch does not depend on.
<1>1. ASSUME UNCHANGED <<job, stick>>, care'.ble_synced = care.ble_synced,
             pc' \notin {"off", "boot", "ask"}, pc \notin {"start", "answer"}
      PROVE  LatchOK'
  BY <1>1 DEF LatchOK
<1>2. CASE UNCHANGED <<pc, job, care, stick>>
  BY <1>2 DEF LatchOK
<1>3. CASE Start \/ Boot
  BY <1>3 DEF Start, Boot, LatchOK
<1>4. ASSUME ~care'.ble_synced
      PROVE  LatchOK'
  BY <1>4 DEF LatchOK
<1>5. CASE End
  <2>1. care' = Fresh
    BY <1>5 DEF End
  <2>2. ~Fresh.ble_synced
    BY DEF Fresh
  <2>3. QED
    BY <1>4, <2>1, <2>2
<1>6. CASE StopPump \/ Esptool
  BY <1>1, <1>6 DEF StopPump, Esptool
<1>7. CASE NoFile
  BY <1>1, <1>7 DEF NoFile
<1>8. CASE EsptoolEnds
  <2>1. /\ pc = "writing" /\ pc' = "start" /\ UNCHANGED <<job, care>>
        /\ job.kind = "backup" => stick' = stick
    BY <1>8 DEF EsptoolEnds
  <2>2. job.kind \in {"restore", "backup", "flash", "first"}
    BY <2>1 DEF JobOK, Uses, Mail
  <2>3. CASE job.kind = "backup"
    BY <1>1, <2>1, <2>3
  <2>4. CASE job.kind = "first"
    BY <1>4, <2>1, <2>4 DEF LatchOK
  <2>5. CASE job.kind \in {"restore", "flash"}
    BY <2>1, <2>5 DEF LatchOK
  <2>6. QED
    BY <2>2, <2>3, <2>4, <2>5
<1>9. CASE StartPump
  <2>1. job.kind \in {"up", "first", "exited", "silent", "rebuild", "reboot",
                      "restore", "backup", "flash"}
    BY <1>9, JobTypes DEF StartPump, JobOK, LoopType, OwnKinds, Mail
  <2>2. UNCHANGED <<care, stick>> /\ pc = "start"
    BY <1>9 DEF StartPump
  <2>3. CASE job.kind \in {"up", "first"}
    BY <1>4, <2>2, <2>3 DEF LatchOK
  <2>4. CASE job.kind \in Mail
    <3>1. pc' = "answer" /\ job' = job
      BY <1>9, <2>4, Resuming DEF StartPump, Mail
    <3>2. QED
      BY <2>2, <3>1 DEF LatchOK
  <2>5. CASE job.kind \in {"exited", "silent", "rebuild", "reboot"}
    <3>1. pc' \in {"restore", "reach", "verify", "identity"}
      BY <1>9, <2>5, Resuming DEF StartPump
    <3>2. job' = Done
      BY <1>9, <2>5 DEF StartPump, Mail
    <3>3. QED
      BY <2>2, <2>5, <3>1, <3>2, JobTypes DEF LatchOK
  <2>6. QED
    BY <2>1, <2>3, <2>4, <2>5 DEF Mail
<1>10. CASE Ask
  BY <1>4, <1>10 DEF Ask, LatchOK
\* A step that takes up a job of its own, from a place where the setting stands.
<1>11. ASSUME UNCHANGED <<care, stick>>, pc' \notin {"off", "boot", "ask"},
              pc \notin {"start", "answer"}, job'.kind \notin {"up", "first"}
       PROVE  LatchOK'
  BY <1>11 DEF LatchOK
<1>12. CASE PumpExited
  BY <1>11, <1>12, JobTypes DEF PumpExited, OwnKinds
<1>13. CASE ReadRequest \/ TakeBackup
  BY <1>11, <1>13 DEF ReadRequest, TakeBackup
<1>14. CASE RemoveRequest \/ Compare
  BY <1>1, <1>14 DEF RemoveRequest, Compare
<1>15. CASE Pass
  <2>1. pc \in Rounds /\ pc' \in Rounds
    BY <1>15, Onward DEF Pass, Rounds
  <2>2. QED
    BY <1>1, <1>15, <2>1 DEF Pass, Rounds
<1>16. CASE Answer
  <2>1. pc' \in Rounds /\ job' = Done /\ stick' = stick
    BY <1>16, Onward DEF Answer, JobOK, Mail, Rounds
  <2>2. CASE pc = "answer" /\ Forgets(job.kind)
    <3>1. care' = [care EXCEPT !.identity_seen = FALSE, !.ble_synced = FALSE]
      BY <1>16, <2>2 DEF Answer
    <3>2. ~care'.ble_synced
      BY <3>1 DEF LoopType, Cares
    <3>3. QED
      BY <1>4, <3>2
  <2>3. CASE ~(pc = "answer" /\ Forgets(job.kind))
    <3>1. care' = care
      BY <1>16, <2>3 DEF Answer
    <3>2. care.ble_synced => stick.setting = "right" \/ stick.hand
      BY <1>16, <2>3 DEF Answer, Forgets, LatchOK
    <3>3. QED
      BY <2>1, <3>1, <3>2, JobTypes DEF LatchOK, Rounds
  <2>4. QED
    BY <2>2, <2>3
<1>17. CASE Probe
  <2>1. care'.ble_synced = care.ble_synced
    BY <1>17 DEF Probe, LoopType, Cares
  <2>2. \/ pc' = "reach" /\ job' = job
        \/ pc' = "stop" /\ job' = ForItself("silent")
    BY <1>17 DEF Probe
  <2>3. job' = job \/ job'.kind = "silent"
    BY <2>2, JobTypes DEF OwnKinds
  <2>4. pc = "probe" /\ stick' = stick /\ pc' \in {"reach", "stop"}
    BY <1>17, <2>2 DEF Probe
  <2>5. QED
    BY <2>1, <2>3, <2>4 DEF LatchOK
<1>18. CASE Unreached
  <2>1. care'.ble_synced = care.ble_synced
    BY <1>18 DEF Unreached, LoopType, Cares
  <2>2. \/ pc' \in {"identity", "reboot"} /\ job' = job
        \/ pc' = "stop" /\ job' = ForItself("rebuild")
    BY <1>18 DEF Unreached
  <2>3. job' = job \/ job'.kind = "rebuild"
    BY <2>2, JobTypes DEF OwnKinds
  <2>4. pc = "reach" /\ stick' = stick /\ pc' \in {"identity", "reboot", "stop"}
    BY <1>18, <2>2 DEF Unreached
  <2>5. QED
    BY <2>1, <2>3, <2>4 DEF LatchOK
<1>19. CASE Reached
  <2>1. care'.ble_synced = care.ble_synced
    BY <1>19 DEF Reached, LoopType, Cares
  <2>2. QED
    BY <1>1, <1>19, <2>1 DEF Reached
<1>20. CASE VerifyFails
  BY <1>1, <1>20 DEF VerifyFails
<1>21. CASE Reboot
  <2>1. CASE job' = ForItself("reboot")
    BY <1>11, <1>21, <2>1, JobTypes DEF Reboot, OwnKinds
  <2>2. CASE job' = job
    BY <1>1, <1>21, <2>2 DEF Reboot
  <2>3. QED
    BY <1>21, <2>1, <2>2 DEF Reboot
<1>22. ASSUME NEW s \in BOOLEAN, Identify(s)
       PROVE  LatchOK'
  <2>1. pc' \in {"ble", "pump"} /\ pc \in {"identity", "status"}
    BY <1>22, Onward DEF Identify, Looks
  <2>2. care'.ble_synced = care.ble_synced
    BY <1>22 DEF Identify, LoopType, Cares
  <2>3. QED
    BY <1>1, <1>22, <2>1, <2>2 DEF Identify
<1>23. CASE SyncBle
  <2>1. stick'.setting = "right" /\ job' = job /\ pc' = "status"
    BY <1>23 DEF SyncBle, StickType, Sticks
  <2>2. job.kind \notin {"up", "first"}
    BY <1>23 DEF SyncBle, JobOK, Rounds
  <2>3. QED
    BY <2>1, <2>2 DEF LatchOK
<1>24. ASSUME NEW c \in Clients, Client(c)
       PROVE  LatchOK'
  <2>1. UNCHANGED <<pc, job, care>>
    BY <1>24 DEF Client, Clear, Post, Told, GiveUp, AloneBegin, AloneEnd
  <2>2. CASE AloneEnd(c)
    <3>1. PICK s \in AfterFlash(FALSE) : stick' = [s EXCEPT !.hand = TRUE]
      BY <2>2 DEF AloneEnd
    <3>2. stick'.hand
      BY <3>1, StickTypes DEF StickType, Sticks
    <3>3. QED
      BY <2>1, <3>2 DEF LatchOK
  <2>3. CASE ~AloneEnd(c)
    <3>1. UNCHANGED stick
      BY <1>24, <2>3 DEF Client, Clear, Post, Told, GiveUp, AloneBegin
    <3>2. QED
      BY <1>2, <2>1, <3>1
  <2>4. QED
    BY <2>2, <2>3
<1>25. CASE StickChanges
  <2>1. stick'.hand
    BY <1>25 DEF StickChanges, StickType, Sticks
  <2>2. QED
    BY <1>25, <2>1 DEF StickChanges, LatchOK
<1>26. CASE Terminate \/ PumpExits \/ UNCHANGED vars
  BY <1>2, <1>26 DEF Terminate, PumpExits, vars
<1>27. QED
  BY <1>3, <1>5, <1>6, <1>7, <1>8, <1>9, <1>10, <1>12, <1>13, <1>14, <1>15, <1>16, <1>17, <1>18,
     <1>19, <1>20, <1>21, <1>22, <1>23, <1>24, <1>25, <1>26
     DEF Next, Service, Loop, Kill, Leave, Dies

-----------------------------------------------------------------------------
(* Who asked for a flash.                                                  *)

\* Nothing that was left over is taken for a flash once the supervisor has begun.
Current ==
  pc \notin {"off", "boot"} =>
    /\ req["flash"] # None => ~req["flash"].left
    /\ job.kind = "flash" => ~job.ask.left

\* What a request that met no other finds on file, in hand and answered: at most itself,
\* once it is posted, and nothing before.
Alone(c) ==
  /\ \A e \in Clients \ {c} : ~Flashing(e, {"cleared"})
  /\ client[c].at = "cleared" =>
       req["flash"] = None /\ job.kind # "flash" /\ res["flash"] = None
  /\ client[c].at = "waiting" =>
       /\ req["flash"] \in {None, AskOf(c)} /\ res["flash"] \in {None, AskOf(c)}
       /\ job.kind = "flash" => job.ask = AskOf(c)

AskOK ==
  /\ pc \in {"off", "boot"} => \A c \in Clients : ~Flashing(c, {"cleared", "waiting"})
  /\ Current
  /\ \A c \in Clients \ crossed : Flashing(c, {"cleared", "waiting"}) => Alone(c)

LEMMA AskInit == Init => AskOK
BY JobTypes DEF Init, Idle, AskOK, Current, Flashing

\* The files and the clients stay as they are, and no flash is taken in hand.
LEMMA AskKept ==
  ASSUME AskOK, UNCHANGED askVars,
         pc' \notin {"off", "boot"}, pc \notin {"off", "boot"},
         UNCHANGED job \/ job'.kind # "flash"
  PROVE  AskOK'
<1>1. UNCHANGED <<req, res, client, asked, crossed>>
  BY DEF askVars
<1>2. Current'
  BY <1>1 DEF AskOK, Current
<1>3. \A c \in Clients : Alone(c) => Alone(c)'
  BY <1>1 DEF Alone, Flashing, AskOf
<1>4. QED
  BY <1>1, <1>2, <1>3 DEF AskOK, Flashing

\* A client's steps.  One that removes the answer is alone, or everybody it meets is
\* noted as crossed; one that posts its request meets nobody that is alone.
LEMMA AskClients ==
  ASSUME TypeOK, AskOK, NEW c \in Clients, Client(c)
  PROVE  AskOK'
<1> AskType
  BY TypeParts
<1>1. UNCHANGED <<pc, job>>
  BY DEF Client, Clear, Post, Told, GiveUp, AloneBegin, AloneEnd, supervisor
\* A client that stops asking disturbs nobody.
<1>2. ASSUME UNCHANGED <<req, res, crossed>>, ~Flashing(c, {"cleared", "waiting"})',
             \A e \in Clients \ {c} : client'[e] = client[e] /\ asked'[e] = asked[e]
      PROVE  AskOK'
  <2>1. \A e \in Clients : \A s \in SUBSET {"cleared", "waiting"} :
          Flashing(e, s)' => e # c /\ Flashing(e, s)
    BY <1>2 DEF Flashing
  <2>2. ASSUME NEW e \in Clients \ {c}, Alone(e) PROVE Alone(e)'
    <3>1. UNCHANGED <<client[e], AskOf(e)>>
      BY <1>2 DEF AskOf
    <3>2. (\A d \in Clients \ {e} : ~Flashing(d, {"cleared"}))'
      BY <2>1, <2>2 DEF Alone
    <3>3. QED
      BY <1>1, <1>2, <2>2, <3>1, <3>2 DEF Alone
  <2>3. Current'
    BY <1>1, <1>2 DEF AskOK, Current
  <2>4. QED
    BY <1>1, <1>2, <2>1, <2>2, <2>3 DEF AskOK
<1>3. ASSUME NEW k \in Mail, NEW f \in BOOLEAN, Clear(c, k, f)
      PROVE  AskOK'
  <2>1. /\ pc \notin {"off", "boot"} /\ client[c].at = "idle"
        /\ client' = [client EXCEPT ![c] = [at |-> "cleared", kind |-> k, force |-> f]]
        /\ asked' = [asked EXCEPT ![c] = @ + 1] /\ res' = [res EXCEPT ![k] = None]
        /\ UNCHANGED req
    BY <1>3 DEF Clear, WithoutAnswer
  <2>2. client'[c].at = "cleared" /\ client'[c].kind = k
    BY <2>1 DEF AskType
  <2>3. \A e \in Clients \ {c} : client'[e] = client[e] /\ asked'[e] = asked[e]
    BY <2>1 DEF AskType
  <2>4. Current'
    BY <1>1, <2>1 DEF AskOK, Current
  <2>5. CASE k # "flash"
    <3>1. UNCHANGED crossed /\ res'["flash"] = res["flash"]
      BY <1>3, <2>1, <2>5 DEF Clear, AskType, Mail
    <3>2. \A e \in Clients : \A s \in SUBSET {"cleared", "waiting"} :
            Flashing(e, s)' => e # c /\ Flashing(e, s)
      BY <2>2, <2>3, <2>5 DEF Flashing
    <3>3. ASSUME NEW e \in Clients \ {c}, Alone(e) PROVE Alone(e)'
      <4>1. UNCHANGED <<client[e], AskOf(e)>>
        BY <2>3 DEF AskOf
      <4>2. (\A d \in Clients \ {e} : ~Flashing(d, {"cleared"}))'
        BY <3>2, <3>3 DEF Alone
      <4>3. QED
        BY <1>1, <2>1, <3>1, <3>3, <4>1, <4>2 DEF Alone
    <3>4. QED
      BY <1>1, <2>1, <2>4, <3>1, <3>2, <3>3 DEF AskOK
  <2>6. CASE k = "flash"
    <3>1. crossed' = (crossed \ {c}) \cup Crossing(c)
      BY <1>3, <2>6 DEF Clear
    <3>2. res'["flash"] = None
      BY <2>1, <2>6 DEF AskType, Mail
    <3>3. ASSUME NEW e \in Clients \ crossed', Flashing(e, {"cleared", "waiting"})'
          PROVE  Alone(e)'
      <4>1. e = c
        <5>1. SUFFICES ASSUME e # c PROVE FALSE
          OBVIOUS
        <5>2. Flashing(e, {"cleared", "waiting"})
          BY <2>3, <3>3, <5>1 DEF Flashing
        <5>3. QED
          BY <3>1, <3>3, <5>1, <5>2 DEF Crossing
      <4>2. ~Meets(c)
        BY <3>1, <3>3, <4>1 DEF Crossing
      <4>3. (\A d \in Clients \ {c} : ~Flashing(d, {"cleared"}))'
        BY <2>3, <4>2 DEF Meets, Flashing
      <4>4. req'["flash"] = None /\ job'.kind # "flash"
        BY <1>1, <2>1, <4>2 DEF Meets
      <4>5. QED
        BY <2>2, <3>2, <4>1, <4>3, <4>4 DEF Alone
    <3>4. QED
      BY <1>1, <2>1, <2>4, <3>3 DEF AskOK
  <2>7. QED
    BY <2>5, <2>6
<1>4. CASE Post(c)
  <2> DEFINE k == client[c].kind
  <2>1. /\ client[c].at = "cleared" /\ req' = [req EXCEPT ![k] = AskOf(c)]
        /\ UNCHANGED <<res, asked, crossed>>
    BY <1>4 DEF Post
  <2>2. client'[c].at = "waiting" /\ \A e \in Clients \ {c} : client'[e] = client[e]
    BY <1>4, ClientAt DEF Post
  <2>3. client'[c].kind = k /\ client'[c].force = client[c].force
    BY <1>4 DEF Post, AskType
  <2>4. \A e \in Clients : UNCHANGED AskOf(e)
    BY <2>1, <2>2, <2>3 DEF AskOf
  <2>5. \A e \in Clients : /\ Flashing(e, {"cleared"})' => Flashing(e, {"cleared"})
                           /\ Flashing(e, {"cleared", "waiting"})' => Flashing(e, {"cleared", "waiting"})
    BY <2>1, <2>2, <2>3 DEF Flashing
  <2>6. CASE k # "flash"
    <3>1. UNCHANGED req["flash"]
      BY <2>1, <2>6 DEF AskType
    <3>2. Current'
      BY <1>1, <3>1 DEF AskOK, Current
    <3>3. ~Flashing(c, {"cleared", "waiting"})'
      BY <2>3, <2>6 DEF Flashing
    <3>4. ASSUME NEW e \in Clients \ {c}, Alone(e) PROVE Alone(e)'
      BY <1>1, <2>1, <2>2, <2>4, <2>5, <3>1, <3>4 DEF Alone
    <3>5. QED
      BY <1>1, <2>1, <2>5, <3>2, <3>3, <3>4 DEF AskOK
  <2>7. CASE k = "flash"
    <3>1. Flashing(c, {"cleared"}) /\ Flashing(c, {"cleared", "waiting"})
      BY <2>1, <2>7 DEF Flashing
    <3>2. req'["flash"] = AskOf(c) /\ ~AskOf(c).left
      BY <2>1, <2>7 DEF AskType, Mail, AskOf
    <3>3. Current'
      BY <1>1, <3>2 DEF AskOK, Current
    <3>4. ASSUME NEW e \in Clients \ crossed, Flashing(e, {"cleared", "waiting"})'
          PROVE  Alone(e)'
      <4>1. Alone(e)
        BY <2>5, <3>4 DEF AskOK
      <4>2. e = c
        BY <3>1, <4>1 DEF Alone
      <4>3. (\A d \in Clients \ {c} : ~Flashing(d, {"cleared"}))'
        BY <2>5, <4>1, <4>2 DEF Alone
      <4>4. res'["flash"] = None /\ job'.kind # "flash"
        BY <1>1, <2>1, <4>1, <4>2 DEF Alone
      <4>5. QED
        BY <2>2, <2>4, <3>2, <4>2, <4>3, <4>4 DEF Alone
    <3>5. pc \notin {"off", "boot"}
      BY <3>1 DEF AskOK
    <3>6. QED
      BY <1>1, <2>1, <3>3, <3>4, <3>5 DEF AskOK
  <2>8. QED
    BY <2>6, <2>7
<1>5. CASE Told(c) \/ GiveUp(c) \/ AloneEnd(c)
  <2>1. client' = [client EXCEPT ![c] = Idle] /\ UNCHANGED <<req, res, asked, crossed>>
    BY <1>5 DEF Told, GiveUp, AloneEnd, files
  <2>2. ~Flashing(c, {"cleared", "waiting"})'
    BY <2>1 DEF Flashing, AskType, Idle
  <2>3. \A e \in Clients \ {c} : client'[e] = client[e]
    BY <2>1 DEF AskType
  <2>4. QED
    BY <1>2, <2>1, <2>2, <2>3
<1>6. ASSUME NEW f \in BOOLEAN, AloneBegin(c, f)
      PROVE  AskOK'
  <2>1. /\ client' = [client EXCEPT ![c] = [at |-> "alone", kind |-> "flash", force |-> f]]
        /\ asked' = [asked EXCEPT ![c] = @ + 1] /\ UNCHANGED <<req, res, crossed>>
    BY <1>6 DEF AloneBegin, files
  <2>2. ~Flashing(c, {"cleared", "waiting"})'
    BY <2>1 DEF Flashing, AskType
  <2>3. \A e \in Clients \ {c} : client'[e] = client[e] /\ asked'[e] = asked[e]
    BY <2>1 DEF AskType
  <2>4. QED
    BY <1>2, <2>1, <2>2, <2>3
<1>7. QED
  BY <1>3, <1>4, <1>5, <1>6 DEF Client

LEMMA AskOKStep ==
  ASSUME TypeOK, JobOK, AskOK, [Next]_vars
  PROVE  AskOK'
<1> LoopType /\ AskType
  BY TypeParts
<1> USE DEF files, others, supervisor, Quiet
<1>1. CASE UNCHANGED <<job, req, res, client, asked, crossed>>
         /\ (pc' \in {"off", "boot"} <=> pc \in {"off", "boot"})
  <2>1. \A c \in Clients : Alone(c) => Alone(c)'
    BY <1>1 DEF Alone, Flashing, AskOf
  <2>2. QED
    BY <1>1, <2>1 DEF AskOK, Current, Flashing
<1>2. CASE Start \/ End
  <2>1. pc' \in {"off", "boot"}
    BY <1>2 DEF Start, End
  <2>2. \A c \in Clients : ~Flashing(c, {"cleared", "waiting"})'
    <3>1. CASE Start
      BY <1>2, <3>1 DEF Start, AskOK, Flashing
    <3>2. CASE End
      <4>1. \A c \in Clients : client'[c] = IF client[c].at = "alone" THEN client[c] ELSE Idle
        BY <3>2 DEF End
      <4>2. QED
        BY <4>1 DEF Flashing, Idle
    <3>3. QED
      BY <1>2, <3>1, <3>2
  <2>3. QED
    BY <2>1, <2>2 DEF AskOK, Current
<1>3. CASE Boot
  <2>1. /\ pc = "boot" /\ UNCHANGED <<job, client>> /\ req'["flash"] = None
    BY <1>3 DEF Boot, WithoutFlash, AskType, Mail
  <2>2. job.kind # "flash"
    BY <2>1 DEF JobOK
  <2>3. \A c \in Clients : ~Flashing(c, {"cleared", "waiting"})'
    BY <2>1 DEF AskOK, Flashing
  <2>4. QED
    BY <2>1, <2>2, <2>3 DEF AskOK, Current
<1>5. CASE ReadRequest
  <2>1. /\ pc \in {"restore", "flash"} /\ req[pc] # None /\ pc' = "unlink"
        /\ job' = [kind |-> pc, ask |-> req[pc]] /\ UNCHANGED askVars
    BY <1>5 DEF ReadRequest, askVars
  <2>2. CASE pc = "restore"
    BY <2>1, <2>2, AskKept
  <2>3. CASE pc = "flash"
    <3>1. job'.ask = req["flash"] /\ req["flash"] # None /\ UNCHANGED <<req, res, client, asked, crossed>>
      BY <2>1, <2>3 DEF askVars
    <3>2. Current'
      BY <2>1, <2>3, <3>1 DEF AskOK, Current
    <3>3. \A c \in Clients : Alone(c) => Alone(c)'
      BY <3>1 DEF Alone, Flashing, AskOf
    <3>4. QED
      BY <2>1, <3>1, <3>2, <3>3 DEF AskOK, Flashing
  <2>4. QED
    BY <2>1, <2>2, <2>3
\* A request leaves its file; one that was read is in hand.
<1>6. CASE RemoveRequest \/ TakeBackup
  <2>1. /\ UNCHANGED <<res, client, asked, crossed>>
        /\ pc \notin {"off", "boot"} /\ pc' \notin {"off", "boot"}
        /\ req'["flash"] \in {req["flash"], None}
        /\ UNCHANGED job \/ job'.kind # "flash"
    BY <1>6 DEF RemoveRequest, TakeBackup, AskType, Mail
  <2>2. Current'
    BY <2>1 DEF AskOK, Current
  <2>3. \A c \in Clients : Alone(c) => Alone(c)'
    BY <2>1 DEF Alone, Flashing, AskOf
  <2>4. QED
    BY <2>1, <2>2, <2>3 DEF AskOK, Flashing
\* The answer is about the request in hand, and for a client that is alone that is its own.
<1>7. CASE Answer
  <2>1. /\ pc \in {"answer", "already"} /\ job.kind \in Mail /\ job' = Done
        /\ res' = [res EXCEPT ![job.kind] = job.ask] /\ UNCHANGED <<req, client, asked, crossed>>
        /\ pc' = After[job.kind]
    BY <1>7 DEF Answer, Reply, JobOK
  <2>2. pc' \notin {"off", "boot"} /\ job'.kind # "flash"
    BY <2>1, JobTypes DEF After, Mail
  <2>3. res'["flash"] = IF job.kind = "flash" THEN job.ask ELSE res["flash"]
    BY <2>1 DEF AskType, Mail
  <2>4. Current'
    BY <2>1, <2>2 DEF AskOK, Current
  <2>5. \A c \in Clients : Alone(c) => Alone(c)'
    BY <2>1, <2>2, <2>3 DEF Alone, Flashing, AskOf
  <2>6. QED
    BY <2>1, <2>2, <2>4, <2>5 DEF AskOK, Flashing
<1>8. CASE StartPump
  <2>1. job.kind \in {"up", "first", "exited", "silent", "rebuild", "reboot",
                      "restore", "backup", "flash"}
    BY <1>8, JobTypes DEF StartPump, JobOK, LoopType, OwnKinds, Mail
  <2>2. pc = "start" /\ pc' = Resumes[job.kind] /\ UNCHANGED askVars
        /\ job' = IF job.kind \in Mail THEN job ELSE Done
    BY <1>8 DEF StartPump, askVars
  <2>3. pc' \notin {"off", "boot"}
    BY <2>1, <2>2, Resuming
  <2>4. QED
    BY <2>2, <2>3, AskKept, JobTypes
<1>9. CASE StopPump \/ Esptool \/ NoFile \/ EsptoolEnds
  <2>1. /\ pc' \notin {"off", "boot"} /\ pc \notin {"off", "boot"}
        /\ UNCHANGED <<req, res, client, asked, crossed, job>>
    BY <1>9 DEF StopPump, Esptool, NoFile, EsptoolEnds
  <2>2. QED
    BY <2>1, AskKept DEF askVars
<1>10. CASE Ask \/ PumpExited \/ Compare
  <2>1. /\ pc' \notin {"off", "boot"} /\ pc \notin {"off", "boot"}
        /\ UNCHANGED askVars /\ (UNCHANGED job \/ job'.kind # "flash")
    BY <1>10 DEF Ask, PumpExited, Compare, ForItself, askVars
  <2>2. QED
    BY <2>1, AskKept
<1>11. CASE Pass
  <2>1. /\ pc' \notin {"off", "boot"} /\ pc \notin {"off", "boot"}
    BY <1>11, Onward DEF Pass, Rounds
  <2>2. UNCHANGED askVars /\ UNCHANGED job
    BY <1>11 DEF Pass, askVars
  <2>3. QED
    BY <2>1, <2>2, AskKept
<1>12. CASE Probe \/ Reached \/ Unreached \/ VerifyFails \/ Reboot
  <2> DEFINE Kept == /\ pc' \notin {"off", "boot"} /\ pc \notin {"off", "boot"}
                     /\ UNCHANGED askVars /\ (UNCHANGED job \/ job'.kind # "flash")
  <2>1. Probe => Kept
    BY JobTypes DEF Probe, OwnKinds, askVars
  <2>2. (Reached \/ VerifyFails) => Kept
    BY DEF Reached, VerifyFails, askVars
  <2>3. Unreached => Kept
    BY JobTypes DEF Unreached, OwnKinds, askVars
  <2>4. Reboot => Kept
    BY JobTypes DEF Reboot, OwnKinds, askVars
  <2>5. Kept
    BY <1>12, <2>1, <2>2, <2>3, <2>4
  <2>6. QED
    BY <2>5, AskKept
<1>13. CASE (\E s \in BOOLEAN : Identify(s)) \/ SyncBle
  <2>1. /\ pc' \notin {"off", "boot"} /\ pc \notin {"off", "boot"}
        /\ UNCHANGED askVars /\ UNCHANGED job
    BY <1>13, Onward DEF Identify, SyncBle, Looks, askVars
  <2>2. QED
    BY <2>1, AskKept
<1>14. CASE Terminate \/ PumpExits \/ StickChanges \/ UNCHANGED vars
  BY <1>1, <1>14 DEF Terminate, PumpExits, StickChanges, vars
<1>15. ASSUME NEW c \in Clients, Client(c)
       PROVE  AskOK'
  BY <1>15, AskClients
<1>16. QED
  BY <1>2, <1>3, <1>5, <1>6, <1>7, <1>8, <1>9, <1>10, <1>11, <1>12, <1>13, <1>14, <1>15
     DEF Next, Service, Loop, Kill, Leave, Dies

-----------------------------------------------------------------------------
(* What holds of every behaviour.                                          *)

\* The inductive invariant: the port, the remedies and the latch each need to know
\* that the steps of the flash cycle have the job they belong to.
IInv == TypeOK /\ JobOK /\ PortOK /\ RemedyOK /\ LatchOK

LEMMA InitInv == Init => IInv
<1> SUFFICES ASSUME Init PROVE IInv
  OBVIOUS
<1>1. LoopType
  BY JobTypes, FreshType DEF Init, LoopType, Places
<1>2. AskType
  BY SupervisorAssumption DEF Init, AskType, Idle, Stages
<1>3. StickType
  BY DEF Init, StickType, Sticks
<1>4. JobOK
  BY JobTypes DEF Init, JobOK, Rounds
<1>5. QED
  BY <1>1, <1>2, <1>3, <1>4, TypeParts, PortInit, RemedyInit, LatchInit DEF IInv

LEMMA StepInv == IInv /\ [Next]_vars => IInv'
<1> SUFFICES ASSUME IInv, [Next]_vars PROVE IInv'
  OBVIOUS
<1>1. TypeOK'
  <2>1. LoopType' /\ AskType' /\ StickType'
    BY LoopStep, AskStep, StickStep DEF IInv
  <2>2. QED
    BY <2>1 DEF TypeOK, LoopType, AskType, Stages, StickType, Sticks, Cares
<1>2. QED
  BY <1>1, LoopStep, PortStep, RemedyStep, LatchStep DEF IInv

THEOREM Invariance == Spec => []IInv
BY InitInv, StepInv, PTL DEF Spec

\* The supervisor's types, among them the three counts of silent and unreachable
\* checks, for every number of clients, pumps and requests.
THEOREM TypeCorrect == Spec => []TypeOK
<1>1. IInv => TypeOK
  BY DEF IInv
<1>2. QED
  BY <1>1, Invariance, PTL

\* One of the supervisor's processes at a time has the stick's port, whichever way the
\* pump was lost and whoever flashes beside it.
THEOREM OnePortUser == Spec => []PortExclusive
<1>1. ASSUME PortOK, StickType PROVE PortExclusive
  <2>1. Cardinality({}) = 0 /\ \A x : Cardinality({x}) = 1
    BY FS_EmptySet, FS_Singleton
  <2>2. running = {} \/ \E p : running = {p}
    BY <1>1 DEF PortOK
  <2>3. Own = {} \/ \E t : Own = {t}
    BY <1>1 DEF StickType, Own
  <2>4. running = {} \/ Own = {}
    BY <1>1 DEF PortOK
  <2>5. /\ Cardinality(running) = 0 \/ Cardinality(running) = 1
        /\ Cardinality(Own) = 0 \/ Cardinality(Own) = 1
        /\ Cardinality(running) = 0 \/ Cardinality(Own) = 0
    BY <2>1, <2>2, <2>3, <2>4
  <2>6. QED
    BY <2>5 DEF PortExclusive, Own
<1>2. IInv => PortExclusive
  BY <1>1, TypeParts DEF IInv
<1>3. QED
  BY <1>2, Invariance, PTL

\* The stick is asked to restart only after a new link failed and a check after it.
THEOREM CheapRemedyFirst == Spec => []RebootIsLastResort
<1>1. IInv => RebootIsLastResort
  BY DEF IInv, RemedyOK, RebootIsLastResort
<1>2. QED
  BY <1>1, Invariance, PTL

\* Whatever is written over the stick, the radio's address counts as settled only
\* while the stick has it.
THEOREM LatchStands == Spec => []LatchedSettingStands
<1>1. IInv => LatchedSettingStands
  BY DEF IInv, LatchOK, LatchedSettingStands, Rounds
<1>2. QED
  BY <1>1, Invariance, PTL

\* An application known to be another's is replaced by no step but a forced flash.
THEOREM OthersSpared == Spec => ForeignSpared
<1>1. ASSUME TypeOK, [Next]_vars, stick.app = "foreign", stick'.app # "foreign"
      PROVE  Forced
  <2>1. \A f \in BOOLEAN : ~f => AfterFlash(f) = {stick}
    BY <1>1 DEF AfterFlash, Refused
  <2>2. \A x \in AfterRestore : x.app = stick.app
    BY DEF AfterRestore
  <2>3. CASE EsptoolEnds
    <3>1. stick' = stick \/ stick' \in AfterRestore \/ stick' \in AfterFlash(Forced)
      BY <2>3 DEF EsptoolEnds
    <3>2. stick' \in AfterFlash(Forced) /\ stick' # stick
      BY <1>1, <2>2, <3>1
    <3>3. SUFFICES ASSUME ~Forced PROVE FALSE
      OBVIOUS
    <3>4. AfterFlash(Forced) = {stick}
      BY <1>1, <3>3 DEF AfterFlash, Refused
    <3>5. QED
      BY <3>2, <3>4
  <2>4. ASSUME NEW c \in Clients, AloneEnd(c)
        PROVE  FALSE
    <3>1. stick' = [stick EXCEPT !.hand = TRUE]
      BY <1>1, <2>1, <2>4 DEF AloneEnd
    <3>2. QED
      BY <1>1, <3>1, TypeParts DEF StickType, Sticks
  <2>5. ASSUME stick'.app = stick.app
        PROVE  FALSE
    BY <1>1, <2>5
  <2>6. CASE StickChanges \/ SyncBle
    BY <1>1, <2>5, <2>6, TypeParts DEF StickChanges, SyncBle, StickType, Sticks
  <2>7. CASE End \/ UNCHANGED vars
    BY <2>5, <2>7 DEF End, vars
  <2>8. QED
    <3> USE DEF files, others, supervisor, Quiet
    <3>1. CASE Start \/ Boot \/ Terminate \/ PumpExits
      BY <2>5, <3>1 DEF Start, Boot, Terminate, PumpExits
    <3>2. CASE StopPump \/ Esptool \/ NoFile \/ StartPump \/ Ask
      BY <2>5, <3>2 DEF StopPump, Esptool, NoFile, StartPump, Ask
    <3>3. CASE Pass \/ PumpExited \/ ReadRequest \/ RemoveRequest \/ TakeBackup \/ Compare \/ Answer
      BY <2>5, <3>3 DEF Pass, PumpExited, ReadRequest, RemoveRequest, TakeBackup, Compare, Answer
    <3>4. CASE Probe \/ Reached \/ Unreached \/ VerifyFails \/ Reboot
      BY <2>5, <3>4 DEF Probe, Reached, Unreached, VerifyFails, Reboot
    <3>5. CASE (\E s \in BOOLEAN : Identify(s))
      BY <2>5, <3>5 DEF Identify
    <3>6. ASSUME NEW c \in Clients, Client(c)
          PROVE  FALSE
      BY <2>4, <2>5, <3>6 DEF Client, Clear, Post, Told, GiveUp, AloneBegin
    <3>7. QED
      BY <1>1, <2>3, <2>6, <2>7, <3>1, <3>2, <3>3, <3>4, <3>5, <3>6
         DEF Next, Service, Loop, Kill, Leave, Dies
<1>2. TypeOK /\ [Next]_vars => [stick.app = "foreign" /\ stick'.app # "foreign" => Forced]_vars
  BY <1>1
<1>3. QED
  BY <1>2, TypeCorrect, PTL DEF Spec, ForeignSpared

LEMMA AskInvariance == Spec => [](IInv /\ AskOK)
<1>1. IInv /\ AskOK /\ [Next]_vars => AskOK'
  BY AskOKStep DEF IInv
<1>2. QED
  BY InitInv, StepInv, AskInit, <1>1, PTL DEF Spec

\* The supervisor stops the mesh for no flash request that was on file before it started,
\* however many clients ask and however they give up and ask again.
THEOREM FlashAsked == Spec => []FlashWasAsked
<1>1. AskOK => FlashWasAsked
  BY DEF AskOK, Current, FlashWasAsked
<1>2. QED
  BY <1>1, AskInvariance, PTL

\* A client whose request met no other finds only its own answer, though it had given up
\* others before, the container restarted in between, or others flash after it.
THEOREM OwnAnswer == Spec => []AnswerIsOwn
<1>1. AskOK => AnswerIsOwn
  BY DEF AskOK, Alone, AnswerIsOwn, Flashing
<1>2. QED
  BY <1>1, AskInvariance, PTL
=============================================================================
