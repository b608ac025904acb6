----------------------------- MODULE Supervisor -----------------------------
(***************************************************************************)
(* The add-on's supervisor (cmd_run in addon/thbrctl.py) and those who ask *)
(* it for something: thbrctl flash and the web page.                       *)
(*                                                                         *)
(* One process keeps the pump running, and stops it whenever esptool needs *)
(* the port.  Requests and answers are files in /run/thbr: "req" and "res" *)
(* hold one of each kind.  The supervisor's loop is followed step by step: *)
(* "pc" names what it is about to look at, or how far the job in hand is.  *)
(***************************************************************************)
EXTENDS Naturals, FiniteSets

CONSTANTS
  Pumps,       \* process ids for pumps
  Clients,     \* those who ask: thbrctl flash, a browser on the page
  MayAsk,      \* for each of them, what it asks for
  MaxAsks,     \* bound: requests each client makes
  Checks,      \* bound: the periodic checks that come due
  Policy,      \* THBR_FLASH
  Apps,        \* what a stick may carry
  Settings,    \* where it may offer its radio: "right", or "other"
  Networks,    \* Thread networks
  None

Mail == {"restore", "backup", "flash"}

ASSUME SupervisorAssumption ==
  /\ Pumps # {}
  /\ MayAsk \in [Clients -> SUBSET Mail]
  /\ MaxAsks \in [Clients -> Nat]
  /\ Checks \subseteq {"probe", "reach", "identity", "ble", "status"}
  /\ Policy \in {"auto", "upgrade", "never"}
  /\ Apps \subseteq {"current", "old", "blank", "foreign", "unnamed"}
  /\ {"current", "blank"} \subseteq Apps
  /\ Settings \subseteq {"right", "other"} /\ "right" \in Settings
  /\ None \notin Pumps \cup Networks

VARIABLES
  pc,          \* where the supervisor is
  job,         \* what it stops the pump for
  pump,        \* the pump it knows of
  running,     \* pumps that run
  tool,        \* who has esptool on the port
  req, res,    \* the files
  client,      \* what each client is doing
  asked,       \* requests each of them made
  crossed,     \* history: whose last flash request met another one
  stopping,    \* SIGTERM was seen
  care,        \* the loop's memory: counters and latches
  stick,       \* application, proxy setting and network of the stick; history: whether
               \* others than this supervisor had their hands on it last
  remembered,  \* IDENTITY_FILE
  remedy       \* history: what the silent mesh has been given so far

supervisor == <<pc, job, pump, running, stopping, care, remedy>>
files == <<req, res>>
others == <<client, asked, crossed>>
vars == <<supervisor, tool, files, others, stick, remembered>>

-----------------------------------------------------------------------------
\* A request; "left" is history, for one found in its file when the container starts.
Asks == [by : Clients, nr : Nat, force : BOOLEAN, left : BOOLEAN]

Jobs == [kind : Mail, ask : Asks]
        \cup [kind : {"none", "up", "first", "exited", "silent", "rebuild", "reboot"}, ask : {None}]
ForItself(kind) == [kind |-> kind, ask |-> None]
Done == ForItself("none")

Idle == [at |-> "idle", kind |-> None, force |-> FALSE]

Fresh == [silent |-> 0, unreachable |-> 0, identity_seen |-> FALSE, ble_synced |-> FALSE]

\* An application that is not this add-on's; of an "unnamed" one no name is found
\* where the bundled application has its own, or the read of it fails.
Foreign == {"foreign", "unnamed"}

\* Something on the stick may answer on port 80, and the pump carries it.
Answering == pump \in running /\ stick.app # "blank"

\* What probe() may find: silence always, and what the application there answers.
Kinds == {"none"} \cup
  CASE ~Answering -> {}
    [] Answering /\ stick.app \in Foreign -> {"rest"}
    [] OTHER -> {"thbr", "rest"}

\* decide(): whether the policy says flash.
Decide(kind) ==
  \/ Policy = "upgrade" /\ kind = "thbr" /\ stick.app = "old"
  \/ Policy = "upgrade" /\ kind = "rest"
  \/ Policy # "never" /\ kind = "none"

\* check_target(): nothing is written over an application of another name unasked.
MutantWriteOver(force) == FALSE
Refused(force) == stick.app = "foreign" /\ ~force

MutantLeaveRunning == running
Stopped == running \ {pump}

MutantForgetFlashOnly(kind) == kind = "flash"
Forgets(kind) == kind \in {"flash", "restore"}

MutantKeepCount(n) == n
WhenReached(n) == 0

AfterMiss(n) == IF n >= 2 THEN 0 ELSE n + 1

MutantKeepAnswer(k) == res
WithoutAnswer(k) == [res EXCEPT ![k] = None]

MutantKeepRequest(file) == file
WithoutFlash(file) == [file EXCEPT !["flash"] = None]

\* What a failed or finished write leaves on the stick.
AfterFlash(force) ==
  IF Refused(force) THEN {stick}
  ELSE {stick} \cup
       [app : {"current", "blank"}, setting : Settings, network : Networks, hand : {FALSE}]
AfterRestore == [app : {stick.app}, setting : Settings, network : Networks, hand : {FALSE}]

Init ==
  /\ pc = "off" /\ job = Done /\ pump = None /\ running = {} /\ tool = {}
  /\ req = [k \in Mail |-> None] /\ res = [k \in Mail |-> None]
  /\ client = [c \in Clients |-> Idle] /\ asked = [c \in Clients |-> 0] /\ crossed = {}
  /\ stopping = FALSE /\ care = Fresh /\ remedy = "none"
  /\ stick \in [app : Apps, setting : Settings, network : Networks, hand : {FALSE}]
  /\ remembered \in Networks \cup {None}

-----------------------------------------------------------------------------
(* Those who ask.                                                          *)

Flashing(c, stages) == client[c].at \in stages /\ client[c].kind = "flash"

\* Two flash requests meet: one comes while another is on file, in hand or about to be
\* posted, or removes the answer another client has not read yet.
Meets(c) == \/ req["flash"] # None \/ job.kind = "flash"
            \/ \E e \in Clients \ {c} : Flashing(e, {"cleared"})
Crossing(c) == {e \in Clients \ {c} : Flashing(e, {"cleared", "waiting"})}
               \cup IF Meets(c) THEN {c} ELSE {}

\* The old answer is removed ...
Clear(c, k, f) ==
  /\ pc \notin {"off", "boot"} /\ client[c].at = "idle" /\ asked[c] < MaxAsks[c]
  /\ k \in MayAsk[c] /\ (f => k = "flash")
  /\ client' = [client EXCEPT ![c] = [at |-> "cleared", kind |-> k, force |-> f]]
  /\ asked' = [asked EXCEPT ![c] = @ + 1]
  /\ res' = WithoutAnswer(k)
  /\ crossed' = IF k = "flash" THEN (crossed \ {c}) \cup Crossing(c) ELSE crossed
  /\ UNCHANGED <<supervisor, tool, req, stick, remembered>>

AskOf(c) == [by |-> c, nr |-> asked[c], force |-> client[c].force, left |-> FALSE]

\* ... and the request moved into place.
Post(c) ==
  /\ client[c].at = "cleared"
  /\ req' = [req EXCEPT ![client[c].kind] = AskOf(c)]
  /\ client' = [client EXCEPT ![c].at = "waiting"]
  /\ UNCHANGED <<supervisor, tool, res, asked, crossed, stick, remembered>>

\* The answer is there ...
Told(c) ==
  /\ client[c].at = "waiting" /\ res[client[c].kind] # None
  /\ client' = [client EXCEPT ![c] = Idle]
  /\ UNCHANGED <<supervisor, tool, files, asked, crossed, stick, remembered>>

\* ... or the client has waited long enough; it may ask again at once.
GiveUp(c) ==
  /\ client[c].at = "waiting"
  /\ client' = [client EXCEPT ![c] = Idle]
  /\ UNCHANGED <<supervisor, tool, files, asked, crossed, stick, remembered>>

\* thbrctl flash finds no supervisor and flashes by itself, without --force.
AloneBegin(c, f) ==
  /\ "flash" \in MayAsk[c] /\ pc = "off" /\ client[c].at = "idle" /\ asked[c] < MaxAsks[c]
  /\ client' = [client EXCEPT ![c] = [at |-> "alone", kind |-> "flash", force |-> f]]
  /\ asked' = [asked EXCEPT ![c] = @ + 1]
  /\ tool' = tool \cup {c}
  /\ UNCHANGED <<supervisor, files, crossed, stick, remembered>>

\* The container may have been started meanwhile.
AloneEnd(c) ==
  /\ client[c].at = "alone"
  /\ \E s \in AfterFlash(FALSE) : stick' = [s EXCEPT !.hand = TRUE]
  /\ client' = [client EXCEPT ![c] = Idle]
  /\ tool' = tool \ {c}
  /\ UNCHANGED <<supervisor, files, asked, crossed, remembered>>

-----------------------------------------------------------------------------
(* The container starts and ends.                                          *)

LeftIn(file) == [k \in Mail |-> IF file[k] = None THEN None ELSE [file[k] EXCEPT !.left = TRUE]]

\* The container starts, be it over a thbrctl flash that runs stand-alone; a new one
\* has no files yet.
Start ==
  /\ pc = "off" /\ pc' = "boot"
  /\ job' = ForItself("up")
  /\ \/ req' = LeftIn(req) /\ UNCHANGED res
     \/ req' = [k \in Mail |-> None] /\ res' = [k \in Mail |-> None]
  /\ UNCHANGED <<pump, running, stopping, care, remedy, tool, others, stick, remembered>>

\* cmd_run begins: flash requests from before are removed.
Boot ==
  /\ pc = "boot" /\ pc' = "start"
  /\ req' = WithoutFlash(req) /\ res' = WithoutFlash(res)
  /\ UNCHANGED <<job, pump, running, stopping, care, remedy, tool, others, stick, remembered>>

\* The container ends, with all its processes, whatever they were at.
End ==
  /\ pc' = "off" /\ running' = {} /\ pump' = None /\ tool' = tool \ {"supervisor"}
  /\ client' = [c \in Clients |-> IF client[c].at = "alone" THEN client[c] ELSE Idle]
  /\ job' = Done /\ stopping' = FALSE /\ care' = Fresh /\ remedy' = "none"
  /\ UNCHANGED <<files, asked, crossed, stick, remembered>>

Kill == pc # "off" /\ End

\* The steps of the loop.
Rounds == {"pump", "restore", "backup", "flash", "probe", "reach", "identity", "ble", "status"}
\* SIGTERM, once there is a handler for it.
Terminate ==
  /\ pc \notin {"off", "boot", "ask"} /\ job.kind \notin {"up", "first"}
  /\ ~stopping /\ stopping' = TRUE
  /\ UNCHANGED <<pc, job, pump, running, care, remedy, tool, files, others, stick, remembered>>

\* "while not stopping": the pump is stopped and the process ends.
Leave == pc = "pump" /\ stopping /\ End

PumpExits ==
  /\ running # {}
  /\ \E p \in running : running' = running \ {p}
  /\ UNCHANGED <<pc, job, pump, stopping, care, remedy, tool, files, others, stick, remembered>>

\* Somebody gives the stick another network or setting, or puts in another stick with
\* an application of the same kind.
StickChanges ==
  /\ \E n \in Networks, s \in Settings :
       /\ n # stick.network \/ s # stick.setting
       /\ stick' = [stick EXCEPT !.network = n, !.setting = s, !.hand = TRUE]
  /\ UNCHANGED <<supervisor, tool, files, others, remembered>>

-----------------------------------------------------------------------------
(* Stopping the pump for a job, and starting it again.                     *)

Quiet == UNCHANGED <<tool, files, others, stick, remembered>>

Uses(kind) == kind \in Mail \cup {"first"}

StopPump ==
  /\ pc = "stop"
  /\ running' = Stopped
  /\ pc' = IF Uses(job.kind) THEN "write" ELSE "start"
  /\ UNCHANGED <<job, pump, stopping, care, remedy>> /\ Quiet

Esptool ==
  /\ pc = "write" /\ pc' = "writing" /\ tool' = tool \cup {"supervisor"}
  /\ UNCHANGED <<job, pump, running, stopping, care, remedy, files, others, stick, remembered>>

\* No such settings file: esptool is not started.
NoFile ==
  /\ pc = "write" /\ job.kind = "restore" /\ pc' = "start"
  /\ UNCHANGED <<job, pump, running, stopping, care, remedy>> /\ Quiet

\* A corrupt bundle ends the process, and so does an esptool that hangs over the
\* settings: nothing catches the exception.
Dies ==
  /\ \/ pc = "write" /\ job.kind \in {"flash", "first"}
     \/ pc = "writing" /\ job.kind \in {"restore", "backup"}
  /\ End

Forced == job.kind = "flash" /\ job.ask.force

EsptoolEnds ==
  /\ pc = "writing" /\ pc' = "start" /\ tool' = tool \ {"supervisor"}
  /\ CASE job.kind = "backup"  -> stick' = stick
       [] job.kind = "restore" -> stick' \in AfterRestore
       [] OTHER                -> stick' \in AfterFlash(Forced)
  /\ UNCHANGED <<job, pump, running, stopping, care, remedy, files, others, remembered>>

\* Where the loop goes on once the pump runs again.
Resumes == [up |-> "ask", first |-> "pump", exited |-> "restore", silent |-> "reach",
            rebuild |-> "verify", reboot |-> "identity",
            restore |-> "answer", backup |-> "answer", flash |-> "answer"]

StartPump ==
  /\ pc = "start"
  /\ pump' = CHOOSE p \in Pumps \ running : TRUE
  /\ running' = running \cup {pump'}
  /\ pc' = Resumes[job.kind]
  /\ job' = IF job.kind \in Mail THEN job ELSE Done
  /\ UNCHANGED <<stopping, care, remedy>> /\ Quiet

\* The policy is applied once, and never over a pump that has died.
Ask ==
  /\ pc = "ask"
  /\ \E kind \in Kinds :
       IF pump \in running /\ Decide(kind)
       THEN pc' = "stop" /\ job' = ForItself("first")
       ELSE pc' = "pump" /\ UNCHANGED job
  /\ UNCHANGED <<pump, running, stopping, care, remedy>> /\ Quiet

-----------------------------------------------------------------------------
(* The loop.                                                               *)

After == [pump |-> "restore", restore |-> "backup", backup |-> "flash", flash |-> "probe",
          probe |-> "reach", reach |-> "identity", identity |-> "ble", ble |-> "status",
          status |-> "pump"]

\* Nothing to do here, or not yet.
Pass ==
  /\ pc \in DOMAIN After
  /\ pc = "pump" => ~stopping /\ pump \in running
  /\ pc \in Mail => req[pc] = None
  /\ pc' = After[pc]
  /\ UNCHANGED <<job, pump, running, stopping, care, remedy>> /\ Quiet

MutantNoRestart ==
  /\ pc = "pump" /\ ~stopping /\ pump \notin running
  /\ pc' = "restore"
  /\ UNCHANGED <<job, pump, running, stopping, care, remedy>> /\ Quiet
PumpExited ==
  /\ pc = "pump" /\ ~stopping /\ pump \notin running
  /\ pc' = "start" /\ job' = ForItself("exited")
  /\ UNCHANGED <<pump, running, stopping, care, remedy>> /\ Quiet

\* A request is read and, a moment later, removed.
ReadRequest ==
  /\ pc \in {"restore", "flash"} /\ req[pc] # None
  /\ job' = [kind |-> pc, ask |-> req[pc]] /\ pc' = "unlink"
  /\ UNCHANGED <<pump, running, stopping, care, remedy>> /\ Quiet

RemoveRequest ==
  /\ pc = "unlink"
  /\ req' = [req EXCEPT ![job.kind] = None]
  /\ pc' = IF job.kind = "flash" THEN "compare" ELSE "stop"
  /\ UNCHANGED <<job, pump, running, stopping, care, remedy, tool, res, others, stick, remembered>>

TakeBackup ==
  /\ pc = "backup" /\ req["backup"] # None
  /\ job' = [kind |-> "backup", ask |-> req["backup"]]
  /\ req' = [req EXCEPT !["backup"] = None]
  /\ pc' = "stop"
  /\ UNCHANGED <<pump, running, stopping, care, remedy, tool, res, others, stick, remembered>>

\* The version is there already, and nobody insists.
Spared(kind) == ~job.ask.force /\ kind = "thbr" /\ stick.app = "current"

Compare ==
  /\ pc = "compare"
  /\ \E kind \in Kinds : pc' = IF Spared(kind) THEN "already" ELSE "stop"
  /\ UNCHANGED <<job, pump, running, stopping, care, remedy>> /\ Quiet

MutantSilentWhenCurrent == IF pc = "already" THEN res ELSE [res EXCEPT ![job.kind] = job.ask]
Reply == [res EXCEPT ![job.kind] = job.ask]

\* The answer is written; the firmware or the settings changed underneath both
\* checks, so they look again.
Answer ==
  /\ pc \in {"answer", "already"}
  /\ res' = Reply
  /\ care' = IF pc = "answer" /\ Forgets(job.kind)
             THEN [care EXCEPT !.identity_seen = FALSE, !.ble_synced = FALSE] ELSE care
  /\ pc' = After[job.kind] /\ job' = Done
  /\ UNCHANGED <<pump, running, stopping, remedy, tool, req, others, stick, remembered>>

\* A minute, or what the check's interval is, has passed.
Due == pc \in Checks \cup {"verify"}

\* The second line of defence: three silent minutes restart a pump that runs.
Probe ==
  /\ pc = "probe" /\ Due
  /\ \E kind \in Kinds :
       IF kind # "none"
       THEN care' = [care EXCEPT !.silent = 0] /\ pc' = "reach" /\ UNCHANGED job
       ELSE /\ care' = [care EXCEPT !.silent = (@ + 1) % 3]
            /\ IF care.silent = 2
               THEN pc' = "stop" /\ job' = ForItself("silent")
               ELSE pc' = "reach" /\ UNCHANGED job
  /\ UNCHANGED <<pump, running, stopping, remedy>> /\ Quiet

\* Something in the mesh answers a ping.
Reached ==
  /\ pc \in {"reach", "verify"} /\ Due /\ pump \in running
  /\ care' = [care EXCEPT !.unreachable = WhenReached(@)]
  /\ remedy' = "none"
  /\ pc' = "identity"
  /\ UNCHANGED <<job, pump, running, stopping>> /\ Quiet

\* Nothing does: twice is worth a new link, a third time a restart of the stick.
Unreached ==
  /\ pc = "reach" /\ Due /\ pump \in running
  /\ care' = [care EXCEPT !.unreachable = AfterMiss(@)]
  /\ remedy' = IF remedy = "tried" THEN "in vain" ELSE remedy
  /\ CASE care.unreachable = 0 -> pc' = "identity" /\ UNCHANGED job
       [] care.unreachable = 1 -> pc' = "stop" /\ job' = ForItself("rebuild")
       [] OTHER                -> pc' = "reboot" /\ UNCHANGED job
  /\ UNCHANGED <<pump, running, stopping>> /\ Quiet

\* The new link is given three tries.
VerifyFails ==
  /\ pc = "verify" /\ pc' = "identity" /\ remedy' = "tried"
  /\ UNCHANGED <<job, pump, running, stopping, care>> /\ Quiet

Reboot ==
  /\ pc = "reboot" /\ remedy' = "none"
  /\ \/ pc' = "stop" /\ job' = ForItself("reboot")
     \/ pc' = "identity" /\ UNCHANGED job
  /\ UNCHANGED <<pump, running, stopping, care>> /\ Quiet

MutantLookOnce == {"identity"}
Looks == {"identity", "status"}

\* check_identity(): the network the stick is on is noted, if the disk takes it.
Identify(stored) ==
  /\ pc \in Looks /\ Due /\ Answering
  /\ pc = "identity" => ~care.identity_seen
  /\ remembered' = IF stored THEN stick.network ELSE remembered
  /\ care' = IF pc = "identity" THEN [care EXCEPT !.identity_seen = TRUE] ELSE care
  /\ pc' = After[pc]
  /\ UNCHANGED <<job, pump, running, stopping, remedy, tool, files, others, stick>>

\* sync_ble_proxy(): the stick is told where to offer its radio.
SyncBle ==
  /\ pc = "ble" /\ Due /\ ~care.ble_synced /\ pump \in running /\ stick.app \in {"current", "old"}
  /\ stick' = [stick EXCEPT !.setting = "right", !.hand = FALSE]
  /\ care' = [care EXCEPT !.ble_synced = TRUE]
  /\ pc' = "status"
  /\ UNCHANGED <<job, pump, running, stopping, remedy, tool, files, others, remembered>>

-----------------------------------------------------------------------------
Service == StopPump \/ Esptool \/ NoFile \/ Dies \/ EsptoolEnds \/ StartPump \/ Ask
Loop == \/ Leave \/ Pass \/ PumpExited
        \/ ReadRequest \/ RemoveRequest \/ TakeBackup \/ Compare \/ Answer
        \/ Probe \/ Reached \/ Unreached \/ VerifyFails \/ Reboot
        \/ (\E s \in BOOLEAN : Identify(s)) \/ SyncBle
Client(c) == \/ \E k \in Mail, f \in BOOLEAN : Clear(c, k, f)
             \/ Post(c) \/ Told(c) \/ GiveUp(c)
             \/ (\E f \in BOOLEAN : AloneBegin(c, f)) \/ AloneEnd(c)

Next == \/ Start \/ Boot \/ Kill \/ Terminate \/ PumpExits \/ StickChanges
        \/ Service \/ Loop
        \/ \E c \in Clients : Client(c)

Spec == Init /\ [][Next]_vars

\* The supervisor goes on; a client looks for its answer; and a stick that
\* answers the ten-minute look again and again is one day noted on the disk.
Fairness ==
  /\ WF_vars(Boot \/ Service \/ Loop)
  /\ \A c \in Clients : WF_vars(Told(c))
  /\ SF_vars(pc = "status" /\ Identify(TRUE))
FairSpec == Spec /\ Fairness

-----------------------------------------------------------------------------
Places == {"off", "boot", "start", "ask", "stop", "write", "writing", "unlink", "compare",
           "already", "answer", "verify", "reboot"} \cup Rounds

TypeOK ==
  /\ pc \in Places /\ job \in Jobs
  /\ pump \in Pumps \cup {None} /\ running \subseteq Pumps
  /\ tool \subseteq Clients \cup {"supervisor"}
  /\ req \in [Mail -> Asks \cup {None}] /\ res \in [Mail -> Asks \cup {None}]
  /\ client \in [Clients -> [at : {"idle", "cleared", "waiting", "alone"},
                             kind : Mail \cup {None}, force : BOOLEAN]]
  /\ crossed \subseteq Clients
  /\ asked \in [Clients -> Nat] /\ \A c \in Clients : asked[c] <= MaxAsks[c]
  /\ stopping \in BOOLEAN
  /\ care \in [silent : 0..2, unreachable : 0..2, identity_seen : BOOLEAN, ble_synced : BOOLEAN]
  /\ stick \in [app : Apps, setting : Settings, network : Networks, hand : BOOLEAN]
  /\ remembered \in Networks \cup {None}
  /\ remedy \in {"none", "tried", "in vain"}

\* "The port must be free (pump stopped)": one of the supervisor's processes at a time
\* has the stick's port, be it a pump, known to it or forgotten, or esptool.
PortExclusive == Cardinality(running) + Cardinality(tool \ Clients) <= 1

\* What whoever flashes is told is about the request it made, not about one from before
\* a restart, of somebody else, or an earlier one of its own - unless its request met
\* another that was not done with, as when it gives up and asks again while its first
\* flash is carried out: then it reads the answer to that one.
AnswerIsOwn ==
  \A c \in Clients \ crossed :
    Flashing(c, {"waiting"}) /\ res["flash"] # None => res["flash"] = AskOf(c)

\* A flash is one that somebody asked for since the supervisor started: a request
\* left over from before a restart does not cost the mesh its minute.
FlashWasAsked ==
  pc \in {"stop", "write", "writing"} /\ job.kind = "flash" => ~job.ask.left

\* An application known to be another's stays, unless the request in hand insists:
\* neither the policy nor a plain request replaces it.
ForeignSpared ==
  [][stick.app = "foreign" /\ stick'.app # "foreign" => Forced]_vars

\* "An application this add-on did not build is never overwritten unasked", whether
\* or not its name could be read.
NeverOverwrittenUnasked ==
  [][stick.app \in Foreign /\ stick'.app \notin Foreign => Forced]_vars

\* Every request is answered unless the client gives up, the container ends, or another
\* request removed the answer before it was read.
EveryAskSettles ==
  \A c \in Clients :
    client[c].at = "waiting" ~> client[c].at # "waiting" \/ pc = "off" \/ c \in crossed

\* Whatever took the pump away, it comes back unless the container ends.
PumpComesBack == running = {} ~> running # {} \/ pc = "off"

\* "Spend the cheap remedy first": the stick is asked to restart only for a mesh
\* that stayed silent after its link was rebuilt, and at the check after that.
RebootIsLastResort == pc = "reboot" => remedy = "in vain"

\* The radio's address counts as settled only while the stick has it: once the
\* supervisor has flashed or restored, the check looks again.  (Of a stick that others
\* changed it learns nothing.)
LatchedSettingStands ==
  care.ble_synced /\ pc \in Rounds => stick.setting = "right" \/ stick.hand

\* "This stick is on a different Thread network than last time": a network that
\* changes is noticed, also long after the first look was satisfied (unless nothing can
\* answer at any look).
NetworkNoticed ==
  []<>(pc = "status" /\ Answering) =>
  (stick.network # remembered ~> stick.network = remembered \/ pc = "off")
=============================================================================
