-------------------------- MODULE HaAdaptersProofs --------------------------
(***************************************************************************)
(* Proofs about HaAdapters, for any set of interfaces and any number of    *)
(* edits: types, that a restart that is missing is asked for, and that no  *)
(* name and no adapter in use is taken off the list.                       *)
(***************************************************************************)
EXTENDS HaAdapters, TLAPS

Connected == {"look", "notes", "set", "ask"}

-----------------------------------------------------------------------------
(* Types.                                                                  *)

\* What Home Assistant listens on are interfaces.
LEMMA UsesType ==
  ASSUME NEW listed \in SUBSET Names, NEW found \in SUBSET Names, NEW auto \in SUBSET Names
  PROVE  Uses(listed, found, auto) \in SUBSET Names
BY DEF Uses

\* So are the adapters it finds and those it would pick by itself, which it has found.
LEMMA FoundType ==
  ASSUME NEW here \in SUBSET Lans, NEW found,
         found = here \cup (IF tapThere THEN {Tap} ELSE {}),
         NEW auto \in AutoChoices(found)
  PROVE  found \in SUBSET Names /\ auto \in SUBSET Names /\ auto \subseteq found
BY DEF Names, AutoChoices

\* What the add-on writes are names it has read, and the tap.
LEMMA WriteType == ASSUME core \in Cores PROVE ToWrite \in SUBSET Names
BY DEF ToWrite, Others, AutoBeside, Cores, Names

\* plan_ha_adapters gives one of its four answers.
LEMMA OneAnswer == Listening \/ NeedsOnlyRestart \/ Unsure \/ MustSet
<1>1. CASE OthersStand
  <2>1. CASE Tap \notin core.listed
    BY <1>1, <2>1 DEF MustSet
  <2>2. CASE Tap \in core.listed /\ Tap \in core.found
    BY <1>1, <2>2 DEF Listening
  <2>3. CASE Tap \in core.listed /\ Tap \notin core.found
    BY <1>1, <2>3 DEF NeedsOnlyRestart
  <2> QED
    BY <2>1, <2>2, <2>3
<1>2. CASE ~OthersStand
  BY <1>2 DEF Listening, Unsure, MustSet
<1> QED
  BY <1>1, <1>2

\* What a look leads to.
LEMMA LookCases ==
  ASSUME Look
  PROVE  \/ Listening /\ at' = "notes" /\ names' = names /\ pending' = pending
         \/ NeedsOnlyRestart /\ at' = "ask" /\ names' = names /\ pending' = TRUE
         \/ Unsure /\ at' = "done" /\ names' = names /\ pending' = pending
         \/ MustSet /\ at' = "set" /\ names' = ToWrite /\ pending' = pending
BY OneAnswer, Zenon DEF Look

LEMMA InitType == Init => TypeOK
<1> SUFFICES ASSUME Init PROVE TypeOK
  OBVIOUS
<1>1. core \in Cores
  <2>1. PICK listed \in SUBSET Names, here \in SUBSET Lans :
          LET found == here \cup (IF tapThere THEN {Tap} ELSE {})
          IN \E auto \in AutoChoices(found) :
               core = [up |-> TRUE, listed |-> listed, found |-> found, auto |-> auto,
                       listens |-> Uses(listed, found, auto), notice |-> FALSE]
    BY DEF Init
  <2> DEFINE found == here \cup (IF tapThere THEN {Tap} ELSE {})
  <2>2. PICK auto \in AutoChoices(found) :
          core = [up |-> TRUE, listed |-> listed, found |-> found, auto |-> auto,
                  listens |-> Uses(listed, found, auto), notice |-> FALSE]
    BY <2>1
  <2>3. found \in SUBSET Names /\ auto \in SUBSET Names
    BY FoundType
  <2>4. Uses(listed, found, auto) \in SUBSET Names
    BY <2>3, UsesType
  <2> QED
    BY <2>2, <2>3, <2>4 DEF Cores
<1>2. tapThere \in BOOLEAN /\ edits \in 0..MaxEdits
  BY AdaptersAssumption DEF Init
<1> QED
  BY <1>1, <1>2 DEF Init, TypeOK

LEMMA StepType == TypeOK /\ [Next]_vars => TypeOK'
<1> SUFFICES ASSUME TypeOK, [Next]_vars PROVE TypeOK'
  OBVIOUS
<1> USE DEF TypeOK
<1>1. CASE Start
  BY <1>1 DEF Start, Excuses
<1>2. CASE Dial
  BY <1>2 DEF Dial, World
<1>3. CASE DialRefused
  BY <1>3 DEF DialRefused, World, Excuses
<1>4. CASE Lost
  BY <1>4 DEF Lost, World
<1>5. CASE Refused
  BY <1>5 DEF Refused, World, Excuses
<1>6. CASE Look
  <2>1. names' \in SUBSET Names /\ pending' \in BOOLEAN
    BY <1>6, WriteType, LookCases
  <2>2. at' \in {"notes", "ask", "done", "set"}
    BY <1>6, LookCases
  <2>3. excuse' \in SUBSET Excuses
    BY <1>6 DEF Look, Excuses
  <2> QED
    BY <1>6, <2>1, <2>2, <2>3 DEF Look, World
<1>7. CASE Notes
  BY <1>7 DEF Notes, World
<1>8. CASE Configure
  BY <1>8 DEF Configure, World, Cores, MustAsk
<1>9. CASE ConfigureUnanswered
  BY <1>9 DEF ConfigureUnanswered, World, Cores, Excuses
<1>10. CASE ConfigureLate
  BY <1>10 DEF ConfigureLate, World, LastLate
<1>11. CASE Ask
  BY <1>11 DEF Ask, World, Posted, Asked, Cores
<1>12. CASE AskUnanswered
  BY <1>12 DEF AskUnanswered, World, Posted, Cores
<1>13. CASE LateArrives
  <2>1. PICK listed \in late : core' = [core EXCEPT !.listed = listed]
    BY <1>13 DEF LateArrives
  <2>2. listed \in SUBSET Names
    BY <2>1
  <2>3. core' \in Cores
    BY <2>1, <2>2 DEF Cores
  <2> QED
    BY <1>13, <2>3 DEF LateArrives, World, Excuses
<1>14. CASE CoreStops
  BY <1>14 DEF CoreStops, World, Cores
<1>15. CASE CoreStarts
  <2>1. PICK here \in SUBSET Lans :
          LET found == here \cup (IF tapThere THEN {Tap} ELSE {})
          IN \E auto \in AutoChoices(found) :
               core' = [core EXCEPT !.up = TRUE, !.found = found, !.auto = auto,
                                    !.listens = Uses(core.listed, found, auto)]
    BY <1>15 DEF CoreStarts
  <2> DEFINE found == here \cup (IF tapThere THEN {Tap} ELSE {})
  <2>2. PICK auto \in AutoChoices(found) :
          core' = [core EXCEPT !.up = TRUE, !.found = found, !.auto = auto,
                               !.listens = Uses(core.listed, found, auto)]
    BY <2>1
  <2>3. found \in SUBSET Names /\ auto \in SUBSET Names
    BY FoundType
  <2>4. Uses(core.listed, found, auto) \in SUBSET Names
    BY <2>3, UsesType DEF Cores
  <2>5. core' \in Cores
    BY <2>2, <2>3, <2>4 DEF Cores
  <2> QED
    BY <1>15, <2>5 DEF CoreStarts, World
<1>16. CASE UserEdits
  <2>1. core' \in Cores
    BY <1>16 DEF UserEdits, Cores
  <2>2. edits' \in 0..MaxEdits
    BY <1>16, AdaptersAssumption DEF UserEdits
  <2> QED
    BY <1>16, <2>1, <2>2 DEF UserEdits, Excuses
<1>17. CASE Dismiss
  BY <1>17 DEF Dismiss, World, Cores
<1>18. CASE UNCHANGED vars
  BY <1>18 DEF vars
<1> QED
  BY <1>1, <1>2, <1>3, <1>4, <1>5, <1>6, <1>7, <1>8, <1>9, <1>10, <1>11, <1>12, <1>13,
     <1>14, <1>15, <1>16, <1>17, <1>18 DEF Next, Round

\* The variables keep their types, whatever is lost, late or edited.
THEOREM TypeCorrect == Spec => []TypeOK
BY InitType, StepType, PTL DEF Spec

-----------------------------------------------------------------------------
(* The restart.                                                            *)

\* The container has a tap; a connection needs Home Assistant.
TapStands == at # "off" => tapThere
ConnectedToCore == at \in Connected => core.up

\* While a request to restart is to be posted, no look is taken at the list.
PendingIsKept ==
  /\ at = "ask" => pending
  /\ at \in {"look", "notes", "set", "done"} /\ excuse = {} => ~pending

\* Where nothing excuses the add-on and it has neither asked for a restart nor is
\* about to, Home Assistant listens as its list says.
ListensAsListed ==
  excuse = {} /\ core.up /\ ~told /\ ~pending
    => core.listens = Uses(core.listed, core.found, core.auto)

\* Once it is satisfied, Home Assistant has found the tap.
TapFound ==
  at \in {"notes", "done"} /\ excuse = {} /\ core.up => told \/ Tap \in core.found

AskInv == TapStands /\ ConnectedToCore /\ PendingIsKept /\ ListensAsListed /\ TapFound

LEMMA InitAsk == Init => AskInv
<1> SUFFICES ASSUME Init PROVE AskInv
  OBVIOUS
<1>1. PICK listed, found, auto :
        core = [up |-> TRUE, listed |-> listed, found |-> found, auto |-> auto,
                listens |-> Uses(listed, found, auto), notice |-> FALSE]
  BY DEF Init
<1>2. ListensAsListed
  BY <1>1 DEF ListensAsListed
<1> QED
  BY <1>2 DEF Init, AskInv, TapStands, ConnectedToCore, PendingIsKept, TapFound, Connected

LEMMA StepAsk == TypeOK /\ AskInv /\ [Next]_vars => AskInv'
<1> SUFFICES ASSUME TypeOK, AskInv, [Next]_vars PROVE AskInv'
  OBVIOUS
<1> USE DEF AskInv, TapStands, ConnectedToCore, PendingIsKept, ListensAsListed, TapFound,
        Connected
<1>1. CASE Start
  BY <1>1 DEF Start
<1>2. CASE Dial
  BY <1>2 DEF Dial, World
<1>3. CASE DialRefused
  BY <1>3 DEF DialRefused, World
<1>4. CASE Lost
  BY <1>4 DEF Lost, World
<1>5. CASE Refused
  BY <1>5 DEF Refused, World
<1>6. CASE Look
  <2>1. Listening => Tap \in core.found
    BY DEF Listening, PicksTapItself
  <2>2. Unsure => excuse' # {}
    BY <1>6 DEF Look
  <2>3. at = "look" /\ UNCHANGED <<core, tapThere, told>> /\ (excuse' = {} => excuse = {})
    BY <1>6 DEF Look, World
  <2>4. at' \in {"notes", "ask", "done", "set"}
    BY <1>6, LookCases
  <2>5. /\ excuse' = {} => ~pending
        /\ at' = "ask" => pending'
        /\ at' # "ask" => pending' = pending
    BY <1>6, <2>3, LookCases
  <2>6. PendingIsKept'
    BY <2>4, <2>5
  <2>7. ListensAsListed'
    BY <2>3, <2>5
  <2>8. TapFound'
    BY <1>6, <2>1, <2>2, <2>3, LookCases
  <2> QED
    BY <2>3, <2>4, <2>6, <2>7, <2>8
<1>7. CASE Notes
  BY <1>7 DEF Notes, World
<1>8. CASE Configure
  BY <1>8 DEF Configure, World, Cores, MustAsk, TypeOK
<1>9. CASE ConfigureUnanswered
  BY <1>9 DEF ConfigureUnanswered, World, Cores, TypeOK
<1>10. CASE ConfigureLate
  BY <1>10 DEF ConfigureLate, World
<1>11. CASE Ask
  BY <1>11 DEF Ask, World, Posted, Asked, Cores, TypeOK
<1>12. CASE AskUnanswered
  BY <1>12 DEF AskUnanswered, World, Posted, Cores, TypeOK
<1>13. CASE LateArrives
  <2>1. core'.up = core.up /\ core'.found = core.found
    BY <1>13 DEF LateArrives, Cores, TypeOK
  <2>2. excuse' # {}
    BY <1>13 DEF LateArrives
  <2> QED
    BY <1>13, <2>1, <2>2 DEF LateArrives, World
<1>14. CASE CoreStops
  <2>1. ~core'.up
    BY <1>14 DEF CoreStops, Cores, TypeOK
  <2> QED
    BY <1>14, <2>1 DEF CoreStops, World
<1>15. CASE CoreStarts
  <2>1. PICK here, auto :
          core' = [core EXCEPT !.up = TRUE, !.found = here \cup (IF tapThere THEN {Tap} ELSE {}),
                     !.auto = auto,
                     !.listens = Uses(core.listed,
                                      here \cup (IF tapThere THEN {Tap} ELSE {}), auto)]
    BY <1>15 DEF CoreStarts
  <2>2. /\ core'.listed = core.listed
        /\ core'.listens = Uses(core'.listed, core'.found, core'.auto)
        /\ tapThere => Tap \in core'.found
        /\ core'.up
    BY <2>1 DEF Cores, TypeOK
  <2> QED
    BY <1>15, <2>2 DEF CoreStarts, World
<1>16. CASE UserEdits
  <2>1. core'.up = core.up /\ core'.found = core.found
    BY <1>16 DEF UserEdits, Cores, TypeOK
  <2>2. excuse' # {}
    BY <1>16 DEF UserEdits
  <2> QED
    BY <1>16, <2>1, <2>2 DEF UserEdits
<1>17. CASE Dismiss
  <2>1. /\ core'.up = core.up /\ core'.found = core.found /\ core'.auto = core.auto
        /\ core'.listed = core.listed /\ core'.listens = core.listens
    BY <1>17 DEF Dismiss, Cores, TypeOK
  <2> QED
    BY <1>17, <2>1 DEF Dismiss, World
<1>18. CASE UNCHANGED vars
  BY <1>18 DEF vars
<1> QED
  BY <1>1, <1>2, <1>3, <1>4, <1>5, <1>6, <1>7, <1>8, <1>9, <1>10, <1>11, <1>12, <1>13,
     <1>14, <1>15, <1>16, <1>17, <1>18 DEF Next, Round

LEMMA AskEnough == TypeOK /\ AskInv => RestartAskedFor
<1> SUFFICES ASSUME TypeOK, AskInv, at = "done", core.up, Tap \in core.listed,
                    Tap \notin core.listens, ~told, excuse = {}
             PROVE  FALSE
  BY DEF RestartAskedFor, RestartMissing
<1>1. core.listens = Uses(core.listed, core.found, core.auto)
  BY DEF AskInv, PendingIsKept, ListensAsListed
<1>2. Tap \in core.found
  BY DEF AskInv, TapFound
<1> QED
  BY <1>1, <1>2 DEF Uses

\* Once the add-on has settled the matter, a restart that is missing has been asked
\* for, however its calls and their answers went, but for the named exceptions.
THEOREM RestartIsAskedFor == Spec => []RestartAskedFor
<1>1. Init => TypeOK /\ AskInv
  BY InitType, InitAsk
<1>2. TypeOK /\ AskInv /\ [Next]_vars => (TypeOK /\ AskInv)'
  BY StepType, StepAsk
<1>3. TypeOK /\ AskInv => RestartAskedFor
  BY AskEnough
<1> QED
  BY <1>1, <1>2, <1>3, PTL DEF Spec

-----------------------------------------------------------------------------
(* The list.                                                               *)

\* A call goes out, or is on its way, only to a Home Assistant that runs.
CallsReachCore == ~core.up => at \notin Connected /\ late = {}

\* What Home Assistant would pick by itself it has found.
AutoIsFound == core.auto \subseteq core.found

\* A list the add-on is about to write, or may still have written: it has the tap and
\* an adapter that is there, and it is the list there is, or the one called for.
Sound(listed) ==
  /\ Tap \in listed
  /\ (listed \ {Tap}) \cap core.found # {}
  /\ listed = core.listed \/ (MustSet /\ listed = ToWrite)

ListInv ==
  /\ CallsReachCore
  /\ AutoIsFound
  /\ "edited" \notin excuse => /\ at = "set" => Sound(names)
                               /\ \A listed \in late : Sound(listed)

\* The list called for is sound.
LEMMA WrittenIsSound ==
  ASSUME TypeOK, AutoIsFound, MustSet
  PROVE  Sound(ToWrite)
<1>1. Tap \in ToWrite
  BY DEF ToWrite
<1>2. (ToWrite \ {Tap}) \cap core.found # {}
  <2>1. CASE OthersStand
    BY <2>1 DEF ToWrite, OthersStand, Others
  <2>2. CASE ~OthersStand
    BY <2>2 DEF ToWrite, MustSet, AutoIsFound, AutoBeside
  <2> QED
    BY <2>1, <2>2
<1> QED
  BY <1>1, <1>2 DEF Sound

\* With a sound list in place, none is called for.
LEMMA SoundIsEnough ==
  ASSUME Tap \in core.listed, (core.listed \ {Tap}) \cap core.found # {}
  PROVE  ~MustSet
BY DEF MustSet, OthersStand, Others

\* What is written keeps the names on the list and the adapters in use.
LEMMA NothingMissing ==
  ASSUME TypeOK, AutoIsFound, NEW listed, Sound(listed)
  PROVE  (core.listed \cup Uses(core.listed, core.found, core.auto)) \subseteq listed
<1>1. CASE listed = core.listed
  BY <1>1 DEF Sound, Uses
<1>2. CASE MustSet /\ listed = ToWrite
  <2>1. core.listed \subseteq ToWrite
    BY DEF ToWrite, Others
  <2>2. core.listed \cap core.found = {} => core.auto \subseteq ToWrite
    BY DEF ToWrite, AutoBeside, OthersStand, Others
  <2> QED
    BY <1>2, <2>1, <2>2 DEF Uses
<1> QED
  BY <1>1, <1>2 DEF Sound

\* Soundness depends on what Home Assistant has and has found only.
LEMMA SoundStays ==
  ASSUME core'.listed = core.listed, core'.found = core.found, core'.auto = core.auto,
         NEW listed
  PROVE  (Sound(listed))' <=> Sound(listed)
BY DEF Sound, MustSet, ToWrite, OthersStand, Others, AutoBeside, PicksTapItself

\* A sound list that goes in leaves the others sound: they are the same.
LEMMA SoundWritten ==
  ASSUME TypeOK, NEW new, Sound(new), core'.listed = new, core'.found = core.found,
         NEW listed, Sound(listed)
  PROVE  Sound(listed)'
<1>1. listed = new
  <2>1. CASE MustSet
    <3>1. new # core.listed /\ listed # core.listed
      BY <2>1, SoundIsEnough DEF Sound
    <3> QED
      BY <3>1 DEF Sound
  <2>2. CASE ~MustSet
    BY <2>2 DEF Sound
  <2> QED
    BY <2>1, <2>2
<1> QED
  BY <1>1 DEF Sound

LEMMA InitList == Init => ListInv
<1> SUFFICES ASSUME Init PROVE ListInv
  OBVIOUS
<1>1. core.up /\ core.auto \subseteq core.found
  <2>1. PICK here \in SUBSET Lans, listed \in SUBSET Names :
          \E auto \in AutoChoices(here \cup (IF tapThere THEN {Tap} ELSE {})) :
            core = [up |-> TRUE, listed |-> listed,
                    found |-> here \cup (IF tapThere THEN {Tap} ELSE {}), auto |-> auto,
                    listens |-> Uses(listed, here \cup (IF tapThere THEN {Tap} ELSE {}), auto),
                    notice |-> FALSE]
    BY DEF Init
  <2> QED
    BY <2>1 DEF AutoChoices
<1> QED
  BY <1>1 DEF Init, ListInv, CallsReachCore, AutoIsFound

LEMMA StepList == TypeOK /\ AskInv /\ ListInv /\ [Next]_vars => ListInv'
<1> SUFFICES ASSUME TypeOK, AskInv, ListInv, [Next]_vars PROVE ListInv'
  OBVIOUS
<1> USE DEF ListInv, CallsReachCore, AutoIsFound, Connected
<1>1. CASE UNCHANGED core /\ UNCHANGED late /\ at' \notin {"set"}
            /\ (at' \in Connected => core.up) /\ excuse \subseteq excuse'
  BY <1>1, SoundStays
<1>2. CASE Look
  <2>1. UNCHANGED <<core, late>> /\ excuse \subseteq excuse' /\ core.up
    BY <1>2 DEF Look, AskInv, ConnectedToCore
  <2>2. at' = "set" => Sound(names')
    BY <1>2, LookCases, WrittenIsSound
  <2> QED
    BY <2>1, <2>2, SoundStays
<1>3. CASE Configure \/ ConfigureUnanswered
  <2>1. /\ core'.listed = names /\ core'.found = core.found /\ core'.auto = core.auto
        /\ core'.up = core.up /\ at = "set"
    BY <1>3 DEF Configure, ConfigureUnanswered, Cores, TypeOK
  <2>2. late' = late /\ at' # "set" /\ excuse \subseteq excuse' /\ core.up
    BY <1>3 DEF Configure, ConfigureUnanswered, AskInv, ConnectedToCore
  <2> QED
    BY <2>1, <2>2, SoundWritten
<1>4. CASE ConfigureLate
  BY <1>4, SoundStays DEF ConfigureLate, LastLate, AskInv, ConnectedToCore
<1>5. CASE LateArrives
  <2>1. PICK listed \in late : core' = [core EXCEPT !.listed = listed]
    BY <1>5 DEF LateArrives
  <2>2. /\ core'.listed = listed /\ core'.found = core.found /\ core'.auto = core.auto
        /\ core'.up = core.up
    BY <2>1 DEF Cores, TypeOK
  <2>3. late' = {} /\ excuse \subseteq excuse' /\ at' = at /\ names' = names /\ core.up
    BY <1>5 DEF LateArrives
  <2> QED
    BY <2>2, <2>3, SoundWritten
<1>6. CASE AskUnanswered \/ Ask
  <2>1. /\ core'.listed = core.listed /\ core'.found = core.found /\ core'.auto = core.auto
        /\ core'.up = core.up
    BY <1>6 DEF Ask, AskUnanswered, Posted, Cores, TypeOK
  <2>2. late' = late /\ at' \in {"done", "idle"} /\ excuse' = excuse /\ at = "ask"
    BY <1>6 DEF Ask, AskUnanswered, Asked
  <2> QED
    BY <2>1, <2>2, SoundStays
<1>7. CASE CoreStops
  BY <1>7 DEF CoreStops, Cores, TypeOK
<1>8. CASE CoreStarts
  <2>1. PICK here \in SUBSET Lans :
          \E auto \in AutoChoices(here \cup (IF tapThere THEN {Tap} ELSE {})) :
            core' = [core EXCEPT !.up = TRUE,
                       !.found = here \cup (IF tapThere THEN {Tap} ELSE {}), !.auto = auto,
                       !.listens = Uses(core.listed,
                                        here \cup (IF tapThere THEN {Tap} ELSE {}), auto)]
    BY <1>8 DEF CoreStarts
  <2>2. core'.auto \subseteq core'.found
    BY <2>1 DEF AutoChoices, Cores, TypeOK
  <2>3. core'.up
    BY <2>1 DEF Cores, TypeOK
  <2>4. late' = {} /\ at' = at /\ at # "set"
    BY <1>8 DEF CoreStarts
  <2> QED
    BY <2>2, <2>3, <2>4
<1>9. CASE UserEdits
  BY <1>9 DEF UserEdits, Cores, TypeOK
<1>10. CASE Dismiss
  <2>1. /\ core'.listed = core.listed /\ core'.found = core.found /\ core'.auto = core.auto
        /\ core'.up = core.up
    BY <1>10 DEF Dismiss, Cores, TypeOK
  <2> QED
    BY <1>10, <2>1, SoundStays DEF Dismiss
<1>11. CASE UNCHANGED vars
  BY <1>11, SoundStays DEF vars
<1>12. CASE Start \/ Dial \/ DialRefused \/ Lost \/ Refused \/ Notes
  BY <1>1, <1>12 DEF Start, Dial, DialRefused, Lost, Refused, Notes, World
<1> QED
  BY <1>2, <1>3, <1>4, <1>5, <1>6, <1>7, <1>8, <1>9, <1>10, <1>11, <1>12 DEF Next, Round

\* The names before, and the adapters in use, stay on the list when the add-on's goes in.
THEOREM NothingIsTakenAway == Spec => NothingTakenAway
<1> DEFINE Kept ==
      core.listed # core'.listed /\ excuse' \cap {"edited"} = {}
        => (core.listed \cup Uses(core.listed, core.found, core.auto)) \subseteq core'.listed
<1>1. Init => TypeOK /\ AskInv /\ ListInv
  BY InitType, InitAsk, InitList
<1>2. TypeOK /\ AskInv /\ ListInv /\ [Next]_vars => (TypeOK /\ AskInv /\ ListInv)'
  BY StepType, StepAsk, StepList
<1>3. TypeOK /\ AskInv /\ ListInv /\ [Next]_vars => [Kept]_vars
  <2> SUFFICES ASSUME TypeOK, ListInv, Next, core.listed # core'.listed,
                      "edited" \notin excuse'
               PROVE  (core.listed \cup Uses(core.listed, core.found, core.auto))
                        \subseteq core'.listed
    OBVIOUS
  <2>1. CASE Configure \/ ConfigureUnanswered
    <3>1. core'.listed = names /\ at = "set" /\ excuse \subseteq excuse'
      BY <2>1 DEF Configure, ConfigureUnanswered, Cores, TypeOK
    <3>2. Sound(names) /\ AutoIsFound
      BY <3>1 DEF ListInv
    <3> QED
      BY <3>1, <3>2, NothingMissing
  <2>2. CASE LateArrives
    <3>1. PICK listed \in late : core' = [core EXCEPT !.listed = listed]
      BY <2>2 DEF LateArrives
    <3>2. core'.listed = listed /\ excuse \subseteq excuse'
      BY <2>2, <3>1 DEF LateArrives, Cores, TypeOK
    <3>3. Sound(listed) /\ AutoIsFound
      BY <3>2 DEF ListInv
    <3> QED
      BY <3>2, <3>3, NothingMissing
  <2>3. CASE UserEdits
    BY <2>3 DEF UserEdits
  <2>4. CASE \/ Start \/ Dial \/ DialRefused \/ Lost \/ Refused \/ Look \/ Notes
             \/ ConfigureLate \/ Ask \/ AskUnanswered \/ CoreStops \/ CoreStarts \/ Dismiss
    <3>1. core'.listed = core.listed
      BY <2>4 DEF Start, Dial, DialRefused, Lost, Refused, Look, Notes, ConfigureLate, Ask,
                  AskUnanswered, CoreStops, CoreStarts, Dismiss, Posted, Cores, TypeOK
    <3> QED
      BY <3>1
  <2> QED
    BY <2>1, <2>2, <2>3, <2>4 DEF Next, Round
<1> QED
  BY <1>1, <1>2, <1>3, PTL DEF Spec, NothingTakenAway
=============================================================================
