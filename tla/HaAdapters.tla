----------------------------- MODULE HaAdapters -----------------------------
(***************************************************************************)
(* Home Assistant's network adapters (addon/thbrctl.py: sync_ha_adapters,  *)
(* _ha_round, _ha_ask_restart, plan_ha_adapters, CoreSocket).              *)
(*                                                                         *)
(* Home Assistant looks for adapters once, when it starts, and listens on  *)
(* those its list names, or on its own choice when none of them is there.  *)
(* The add-on looks at the list, adds the tap to it, and asks the user for *)
(* the restart that makes it count.  Each of its calls crosses a           *)
(* connection that may break before the call arrives or before its answer  *)
(* does, and a call it has given up on may still be carried out.           *)
(***************************************************************************)
EXTENDS Naturals

CONSTANTS
  Tap,       \* the add-on's interface
  Lans,      \* the other interfaces of the machine
  Gone,      \* names a list may hold of interfaces there are no more
  MaxEdits   \* bound: how often the user changes the list

ASSUME AdaptersAssumption == Tap \notin Lans \cup Gone /\ MaxEdits \in Nat

Names == Lans \cup Gone \cup {Tap}

VARIABLES
  core,      \* Home Assistant
  tapThere,  \* the tap exists; it outlives the container
  at,        \* where the add-on's round is
  names,     \* what it is about to write
  pending,   \* _HA["pending"]: a request to restart that has to be posted
  late,      \* the list it gave up writing, if any, which may still be carried out
  edits,     \* changes the user has made
  told,      \* history: the user was asked for a restart since the last one
  excuse     \* history: what relieves the add-on of asking

vars == <<core, tapThere, at, names, pending, late, edits, told, excuse>>

\* What Home Assistant uses with a list, given what it found and would pick.
Uses(listed, found, auto) == IF listed \cap found # {} THEN listed \cap found ELSE auto

\* async_load_adapters: the interface of the default route, or, without one, all
\* that have an address to the outside.
AutoChoices(found) == {{a} : a \in found \ {Tap}} \cup {found, {}}

Cores ==
  [up : BOOLEAN, listed : SUBSET Names, found : SUBSET Names, auto : SUBSET Names,
   listens : SUBSET Names, notice : BOOLEAN]

Excuses == {"edited", "refused", "unsure", "restarted", "answer lost"}

Init ==
  /\ tapThere \in BOOLEAN
  /\ \E listed \in SUBSET Names, here \in SUBSET Lans :
       LET found == here \cup (IF tapThere THEN {Tap} ELSE {})
       IN \E auto \in AutoChoices(found) :
            core = [up |-> TRUE, listed |-> listed, found |-> found, auto |-> auto,
                    listens |-> Uses(listed, found, auto), notice |-> FALSE]
  /\ at = "off" /\ names = {} /\ pending = FALSE /\ late = {}
  /\ edits = 0 /\ told = FALSE /\ excuse = {}

-----------------------------------------------------------------------------
(* plan_ha_adapters, from one answer of Home Assistant.                    *)

Others == core.listed \ {Tap}
AutoBeside == core.auto \ {Tap}
OthersStand == Others \cap core.found # {}
PicksTapItself == core.listed \cap core.found = {} /\ Tap \in core.found \cap core.auto

Listening == IF OthersStand THEN Tap \in core.listed /\ Tap \in core.found
                            ELSE PicksTapItself
NeedsOnlyRestart == OthersStand /\ Tap \in core.listed /\ Tap \notin core.found
Unsure == ~OthersStand /\ ~PicksTapItself /\ AutoBeside = {}
MustSet == IF OthersStand THEN Tap \notin core.listed
                          ELSE ~PicksTapItself /\ AutoBeside # {}
MutantTapAlone == Others \cup {Tap}
ToWrite == Others \cup {Tap} \cup (IF OthersStand THEN {} ELSE AutoBeside)

-----------------------------------------------------------------------------
(* The add-on's rounds, one a minute until one of them has settled it.     *)

World == <<tapThere, edits>>

\* A container starts, the tap with it.
Start ==
  /\ at' = "idle" /\ tapThere' = TRUE /\ pending' = FALSE /\ names' = {}
  /\ excuse' = IF at = "ask" \/ pending THEN excuse \cup {"restarted"} ELSE excuse
  /\ UNCHANGED <<core, late, edits, told>>

\* The connection, the handshake and the token.
Dial ==
  /\ at = "idle" /\ core.up
  /\ at' = IF pending THEN "ask" ELSE "look"
  /\ UNCHANGED <<core, World, names, pending, late, told, excuse>>

\* The Supervisor does not let the add-on through: it does not try again.
DialRefused ==
  /\ at = "idle" /\ core.up /\ at' = "done"
  /\ excuse' = excuse \cup {"refused"}
  /\ UNCHANGED <<core, World, names, pending, late, told>>

\* The connection is lost before a call arrives; the next round starts over.
Lost ==
  /\ at \in {"look", "notes", "set", "ask"} /\ at' = "idle"
  /\ UNCHANGED <<core, World, names, pending, late, told, excuse>>

\* Home Assistant refuses a call.  Only a refused notice is remembered as asked.
Refused ==
  /\ at \in {"look", "notes", "set", "ask"} /\ at' = "done"
  /\ pending' = IF at = "ask" THEN FALSE ELSE pending
  /\ excuse' = IF at = "notes" THEN excuse ELSE excuse \cup {"refused"}
  /\ UNCHANGED <<core, World, names, late, told>>

Look ==
  /\ at = "look"
  /\ CASE Listening        -> at' = "notes" /\ UNCHANGED <<names, pending>>
       [] NeedsOnlyRestart -> at' = "ask" /\ pending' = TRUE /\ UNCHANGED names
       [] Unsure           -> at' = "done" /\ UNCHANGED <<names, pending>>
       [] MustSet          -> at' = "set" /\ names' = ToWrite /\ UNCHANGED pending
  /\ excuse' = IF Unsure THEN excuse \cup {"unsure"} ELSE excuse
  /\ UNCHANGED <<core, World, late, told>>

\* Whether the notice is still there decides only what is logged.
Notes ==
  /\ at = "notes" /\ at' = "done"
  /\ UNCHANGED <<core, World, names, pending, late, told, excuse>>

MutantAskFirst == FALSE
MustAsk == TRUE

\* network/configure.  The request to restart is noted before it is posted.
Configure ==
  /\ at = "set"
  /\ core' = [core EXCEPT !.listed = names]
  /\ pending' = MustAsk /\ at' = "ask"
  /\ UNCHANGED <<World, names, late, told, excuse>>

\* The list went in; the answer did not come back.
ConfigureUnanswered ==
  /\ at = "set"
  /\ core' = [core EXCEPT !.listed = names]
  /\ at' = "idle"
  /\ excuse' = excuse \cup {"answer lost"}
  /\ UNCHANGED <<World, names, pending, late, told>>

LastLate == {names}

\* No answer within five seconds; the call is still on its way.  Of several such
\* calls only the last is followed, the others count as lost.
ConfigureLate ==
  /\ at = "set" /\ at' = "idle" /\ late' = LastLate
  /\ UNCHANGED <<core, World, names, pending, told, excuse>>

LateArrives ==
  /\ core.up
  /\ \E listed \in late : core' = [core EXCEPT !.listed = listed]
  /\ late' = {}
  /\ excuse' = excuse \cup {"answer lost"}
  /\ UNCHANGED <<at, World, names, pending, told>>

\* persistent_notification.create
Posted == core' = [core EXCEPT !.notice = TRUE] /\ told' = TRUE

MutantAskAgain == UNCHANGED pending /\ at' = "idle"
Asked == pending' = FALSE /\ at' = "done"

Ask ==
  /\ at = "ask" /\ Posted /\ Asked
  /\ UNCHANGED <<World, names, late, excuse>>

AskUnanswered ==
  /\ at = "ask" /\ Posted /\ at' = "idle"
  /\ UNCHANGED <<World, names, pending, late, excuse>>

-----------------------------------------------------------------------------
(* Home Assistant and its user.                                            *)

\* Notices live in memory; connections end.
CoreStops ==
  /\ core.up
  /\ core' = [core EXCEPT !.up = FALSE, !.notice = FALSE]
  /\ at' = IF at \in {"look", "notes", "set", "ask"} THEN "idle" ELSE at
  /\ late' = {}
  /\ UNCHANGED <<World, names, pending, told, excuse>>

CoreStarts ==
  /\ ~core.up
  /\ \E here \in SUBSET Lans :
       LET found == here \cup (IF tapThere THEN {Tap} ELSE {})
       IN \E auto \in AutoChoices(found) :
            core' = [core EXCEPT !.up = TRUE, !.found = found, !.auto = auto,
                                 !.listens = Uses(core.listed, found, auto)]
  /\ told' = FALSE
  /\ UNCHANGED <<World, at, names, pending, late, excuse>>

UserEdits ==
  /\ core.up /\ edits < MaxEdits
  /\ \E listed \in SUBSET Names : core' = [core EXCEPT !.listed = listed]
  /\ edits' = edits + 1
  /\ excuse' = excuse \cup {"edited"}
  /\ UNCHANGED <<tapThere, at, names, pending, late, told>>

Dismiss ==
  /\ core.notice
  /\ core' = [core EXCEPT !.notice = FALSE]
  /\ UNCHANGED <<World, at, names, pending, late, told, excuse>>

-----------------------------------------------------------------------------
Round == \/ Dial \/ DialRefused \/ Lost \/ Refused \/ Look \/ Notes
         \/ Configure \/ ConfigureUnanswered \/ ConfigureLate
         \/ Ask \/ AskUnanswered
Next == \/ Start \/ Round \/ LateArrives
        \/ CoreStops \/ CoreStarts \/ UserEdits \/ Dismiss

Spec == Init /\ [][Next]_vars

\* The add-on comes round every minute, and of the calls it makes again and again
\* one gets its answer some time.
FairSpec ==
  /\ Spec
  /\ SF_vars(Dial) /\ SF_vars(Look) /\ SF_vars(Notes)
  /\ SF_vars(Configure) /\ SF_vars(Ask)

-----------------------------------------------------------------------------
TypeOK ==
  /\ core \in Cores
  /\ tapThere \in BOOLEAN
  /\ at \in {"off", "idle", "look", "notes", "set", "ask", "done"}
  /\ names \in SUBSET Names
  /\ pending \in BOOLEAN
  /\ late \in {{}} \cup {{listed} : listed \in SUBSET Names}
  /\ edits \in 0..MaxEdits
  /\ told \in BOOLEAN
  /\ excuse \in SUBSET Excuses

\* On the list, not listened on: a restart is what is missing.
RestartMissing == core.up /\ Tap \in core.listed /\ Tap \notin core.listens

\* Once the add-on has settled the matter, a restart that is missing has been asked
\* for, however its calls and their answers went, with the exceptions the history
\* names: a user who edits the list, a refusal, no adapter in use to keep beside the
\* tap, a container restarted half-way, and a list that was written without the add-on
\* learning of it.
RestartAskedFor ==
  at = "done" /\ RestartMissing => told \/ excuse # {}

\* "So under the Supervisor this sets the list through Core's API, and asks for the
\* one restart that makes it count": also when only the answer to the call was lost.
ListedMeansAsked ==
  at = "done" /\ RestartMissing => told \/ excuse \ {"answer lost"} # {}

\* "Never removes a name", and "a list written here has to carry what the automatic
\* choice uses, or the LAN loses discovery the moment the tap gains it": whenever the
\* add-on's list goes in, the names before it and the adapters in use stay on it,
\* unless the user edited the list meanwhile.
NothingTakenAway ==
  [][core.listed # core'.listed /\ excuse' \cap {"edited"} = {}
     => (core.listed \cup Uses(core.listed, core.found, core.auto)) \subseteq core'.listed]_vars

\* With Home Assistant up and the container running, the rounds come to an end, those
\* after its last start too.
Settles ==
  <>[](core.up /\ at # "off") /\ <>[][~Start]_vars => []<>(at = "done")
=============================================================================
