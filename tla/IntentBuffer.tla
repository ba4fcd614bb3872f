---------------------------- MODULE IntentBuffer -----------------------------
(***************************************************************************)
(* The intent buffer of one frame after the other: it is reset, producers   *)
(* add to it in turn, and what the arbiter would make of it is looked at    *)
(* after every addition.                                                    *)
(***************************************************************************)
EXTENDS UnitIntents, FiniteSets

CONSTANTS
    Domains,       \* the domains the producers of this instance use
    MaxIntents     \* where an instance stops adding

ASSUME BufferBoundAssumption == Domains \subseteq DOMAIN DomainOrder /\ MaxIntents \in Nat

VARIABLES
    intents,    \* FIntentBuffer::Intents
    sound       \* what the game accepts (nothing of a frame outlives its buffer, so
                \* one choice for all frames of a behaviour shows as much as many)

bufferVars == <<intents, sound>>

Offers == {i \in Intent : i.domain \in Domains}
Soundness == SUBSET ((Tags \ {NullTag}) \X Whats)

Init ==
    /\ intents = <<>>
    /\ sound \in Soundness

Add(i) ==
    /\ Len(intents) < MaxIntents
    /\ intents' = Append(intents, i)
    /\ UNCHANGED sound

Reset ==
    /\ intents' = <<>>
    /\ UNCHANGED sound

Next == Reset \/ \E i \in Offers : Add(i)

Spec == Init /\ [][Next]_bufferVars
-----------------------------------------------------------------------------
Commands == Resolve(intents, sound)

(* The rank of an intent in the buffer: priority, then domain, then place.  *)
Outranks(m, n) ==
    LET x == intents[m]
        y == intents[n]
    IN  \/ x.priority > y.priority
        \/ x.priority = y.priority /\ DomainOrder[x.domain] < DomainOrder[y.domain]
        \/ x.priority = y.priority /\ x.domain = y.domain /\ m < n

Best == {n \in DOMAIN intents :
            /\ intents[n].actor # NullTag
            /\ \A m \in DOMAIN intents \ {n} : intents[m].actor = intents[n].actor => Outranks(n, m)}

(* "one winner per actor (priority, then EIntentDomain, then stable original *)
(* order)": the commands are the sound ones of the best intents, one for an *)
(* actor and in the order of the buffer, so that two runs over one buffer   *)
(* tell the game the same, although the winners are kept in a hash map.  A  *)
(* winner the game refuses silences its actor: no other intent stands in.   *)
CommandsAreBest ==
    LET told == {n \in Best : <<intents[n].actor, intents[n].what>> \in sound}
        commands == Commands
    IN  /\ Len(commands) = Cardinality(told)
        /\ \A n \in told : commands[Cardinality({m \in told : m <= n})] = intents[n]
=============================================================================
