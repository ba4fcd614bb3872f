------------------------- MODULE AgentCoordinatorProofs -------------------------
(***************************************************************************)
(* First part: what GameControl keeps whoever uses it, for any number of    *)
(* clients.  IInv is the inductive invariant of ControlSpec.  Two more are  *)
(* told apart from it, which every use of the interface keeps beside it:    *)
(* that a client knows its game (AllKnow: what it last heard, followed by   *)
(* what is on its way to it, is what its game is) and that without an error *)
(* its request is on its way (AllFly).                                      *)
(*                                                                         *)
(* Second part: the coordinator keeps to what GameControl is made for, for  *)
(* any number of agents and any program, so what is proved there holds of   *)
(* it; what it tells its agents: the end of a match once, truly, and to     *)
(* each; and that they never wait for one another where no game has failed. *)
(***************************************************************************)
EXTENDS AgentCoordinator, TLAPS

(* A request that is out, or its response, is the one that is pending.        *)
Matched(r) ==
    /\ \A i \in DOMAIN r.wire : r.wire[i] = r.pending
    /\ \A i \in DOMAIN r.queue : r.queue[i].kind = r.pending

(* A request is out only on an open connection; with the connection given up  *)
(* nothing is left of it, and so it is where a wait is failing.               *)
Linked(r) ==
    /\ r.link # "open" => r.wire = <<>>
    /\ r.link = "none" => r.queue = <<>>
    /\ r.stage = "failing" => r.link = "none"

(* has_response_ is stale at most while a ping is tried.                      *)
Flagged(r) ==
    r.stage \notin {"failing", "pinging", "pinglate"} /\ r.app = "normal" =>
        (r.hasResponse <=> r.queue # <<>>)

(* A request stays pending in a wait and after one that failed for good,      *)
(* which is an error, and nothing is pending after any other wait.            *)
Owing(r) ==
    /\ r.app # "normal" => r.errors # {}
    /\ r.stage \in Waits \/ r.app # "normal" \/ r.link = "none" => r.pending # "none"
    /\ r.stage \in Results /\ r.app = "normal" => r.pending = "none"

Sound(r) ==
    /\ r \in ClientRecord /\ OneAtMost(r)
    /\ Matched(r) /\ Linked(r) /\ Flagged(r) /\ Owing(r)
    /\ r.stage \in Waits => r.app = "normal"
    /\ "ResponseMismatch" \notin r.errors

Surroundings ==
    /\ members \subseteq Clients
    /\ process \in [Clients -> {"running", "zombie", "gone"}]
    /\ playing \in [Clients -> Statuses] /\ over \in BOOLEAN /\ stepped \subseteq members

IInv ==
    /\ Surroundings
    /\ client = [c \in Clients |-> client[c]]
    /\ \A c \in Clients : Sound(client[c])

-------------------------------------------------------------------------------
(* The empty sequence, and the sequences of one element.                      *)
LEMMA Empty == DOMAIN <<>> = {} /\ Len(<<>>) = 0
  OBVIOUS

LEMMA Lengths ==
  ASSUME NEW S, NEW q \in Seq(S)
  PROVE  /\ Len(q) \in Nat /\ (Len(q) = 0 <=> q = <<>>) /\ (DOMAIN q = {} <=> q = <<>>)
         /\ Len(q) = 1 => Head(q) \in S /\ Head(q) = q[1] /\ DOMAIN q = {1} /\ Tail(q) = <<>>
  OBVIOUS

LEMMA Single ==
  ASSUME NEW S, NEW x \in S
  PROVE  /\ Append(<<>>, x) = <<x>> /\ <<x>> \in Seq(S) /\ Len(<<x>>) = 1
         /\ DOMAIN <<x>> = {1} /\ <<x>>[1] = x /\ Tail(<<x>>) = <<>> /\ Head(<<x>>) = x
  OBVIOUS

LEMMA NothingOutIsFine ==
  ASSUME NEW r, r.wire = <<>>, r.queue = <<>>
  PROVE  OneAtMost(r) /\ Matched(r)
  BY Empty DEF OneAtMost, Matched

(* What the library does with a client leaves it sound.                       *)
LEMMA AttachedSound == Sound(Attached)
<1>1. Attached.wire = <<>> /\ Attached.queue = <<>> /\ Attached.errors = {}
  BY DEF Attached
<1>2. Attached.wire \in Seq(Kinds) /\ Attached.queue \in Seq(Responses)
  BY <1>1
<1>3. Attached \in ClientRecord
  BY <1>2 DEF Attached, ClientRecord, Statuses, AppStates, Stages
<1>4. OneAtMost(Attached) /\ Matched(Attached)
  BY <1>1, NothingOutIsFine
<1>5. Linked(Attached) /\ Flagged(Attached)
  BY DEF Attached, Linked, Flagged
<1>6. Attached.app = "normal"
  BY DEF Attached
<1>7. Owing(Attached)
  BY DEF Attached, Owing, Waits, Results
<1> QED
  BY <1>1, <1>3, <1>4, <1>5, <1>6, <1>7 DEF Sound

LEMMA ErrorSound ==
  ASSUME NEW r, Sound(r), NEW e \in ClientErrors \ {"ResponseMismatch"}
  PROVE  Sound(Error(r, e))
  BY DEF Sound, Error, ClientRecord, OneAtMost, Matched, Linked, Flagged, Owing

(* Both lists are empty where nothing is pending, or the connection is gone.  *)
LEMMA NothingOut ==
  ASSUME NEW r, Sound(r), r.pending = "none" \/ r.link = "none"
  PROVE  r.wire = <<>> /\ r.queue = <<>>
<1>1. CASE r.link = "none"
  BY <1>1 DEF Sound, Linked
<1>2. CASE r.pending = "none"
  <2>1. \A i \in DOMAIN r.wire : r.wire[i] # "none"
    BY DEF Sound, ClientRecord, Kinds, Requests
  <2>2. \A i \in DOMAIN r.queue : r.queue[i].kind # "none"
    <3> SUFFICES ASSUME NEW i \in DOMAIN r.queue PROVE r.queue[i].kind # "none"
      OBVIOUS
    <3>1. r.queue[i] \in Responses
      BY DEF Sound, ClientRecord
    <3> QED
      BY <3>1 DEF Responses, Kinds, Requests
  <2>3. DOMAIN r.wire = {} /\ DOMAIN r.queue = {}
    BY <1>2, <2>1, <2>2 DEF Sound, Matched
  <2> QED
    BY <2>3 DEF Sound, ClientRecord
<1> QED
  BY <1>1, <1>2

(* What has come in answer to the request that is pending.                    *)
LEMMA FirstResponse ==
  ASSUME NEW r, Sound(r), r.queue # <<>>
  PROVE  /\ Head(r.queue) \in Responses /\ Head(r.queue).kind = r.pending
         /\ Tail(r.queue) = <<>> /\ r.wire = <<>> /\ Len(r.queue) = 1
         /\ r.link # "none"
<1>1. r.queue \in Seq(Responses) /\ r.wire \in Seq(Kinds)
  BY DEF Sound, ClientRecord
<1>a. /\ Len(r.queue) \in Nat /\ Len(r.queue) # 0
      /\ Len(r.wire) \in Nat /\ (Len(r.wire) = 0 <=> r.wire = <<>>)
  BY <1>1, Lengths
<1>b. Len(r.wire) + Len(r.queue) <= 1
  BY DEF Sound, OneAtMost
<1>2. Len(r.queue) = 1 /\ Len(r.wire) = 0
  <2>1. ASSUME NEW a \in Nat, NEW b \in Nat, b # 0, a + b <= 1 PROVE b = 1 /\ a = 0
    BY <2>1
  <2> QED
    BY <1>a, <1>b, <2>1
<1>3. Head(r.queue) = r.queue[1] /\ 1 \in DOMAIN r.queue
  BY <1>1, <1>2, Lengths
<1>4. Head(r.queue) \in Responses /\ Tail(r.queue) = <<>> /\ r.wire = <<>>
  BY <1>1, <1>a, <1>2, Lengths
<1>5. Head(r.queue).kind = r.pending
  BY <1>3 DEF Sound, Matched
<1>6. r.link # "none"
  BY DEF Sound, Linked
<1> QED
  BY <1>2, <1>4, <1>5, <1>6

(* Taking a response: by the wait for it or for a ping.                       *)
LEMMA ReceivedSound ==
  ASSUME NEW r, Sound(r), r.queue # <<>>, r.app = "normal", NEW stage \in Results
  PROVE  Sound([Received(r) EXCEPT !.stage = stage])
<1> DEFINE s == [Received(r) EXCEPT !.stage = stage]
<1>1. Head(r.queue) \in Responses /\ Head(r.queue).kind = r.pending
      /\ Tail(r.queue) = <<>> /\ r.wire = <<>> /\ Len(r.queue) = 1
      /\ r.link # "none"
  BY FirstResponse
<1>2. Mismatch(Head(r.queue), r.pending) = {}
  BY <1>1 DEF Mismatch
<1>r. r \in ClientRecord
  BY DEF Sound
<1>3. s = [r EXCEPT !.queue = <<>>, !.hasResponse = FALSE, !.status = Head(r.queue).status,
                    !.pending = "none", !.stage = stage]
  BY <1>r, <1>1, <1>2 DEF Received, PopResponse, ClientRecord
<1>4. stage \in Stages /\ stage \notin Waits /\ Head(r.queue).status \in Statuses
  BY <1>1 DEF Stages, Results, Waits, Responses
<1>5. <<>> \in Seq(Responses) /\ r.wire \in Seq(Kinds)
  BY <1>1
<1>6. s \in ClientRecord
  BY <1>r, <1>3, <1>4, <1>5 DEF ClientRecord
<1>7. /\ s.wire = <<>> /\ s.queue = <<>> /\ s.hasResponse = FALSE /\ s.stage = stage
      /\ s.errors = r.errors /\ s.link = r.link /\ s.app = r.app /\ s.pending = "none"
  BY <1>r, <1>1, <1>3 DEF ClientRecord
<1>8. OneAtMost(s) /\ Matched(s)
  BY <1>7, NothingOutIsFine
<1>9. Linked(s)
  BY <1>1, <1>4, <1>7 DEF Linked, Waits
<1>10. Flagged(s)
  BY <1>7 DEF Flagged
<1>11. Owing(s)
  BY <1>1, <1>4, <1>7 DEF Owing
<1> QED
  BY <1>4, <1>6, <1>7, <1>8, <1>9, <1>10, <1>11 DEF Sound

(* A client with nothing out.                                                 *)
LEMMA EmptySound ==
  ASSUME NEW s \in ClientRecord, s.wire = <<>>, s.queue = <<>>,
         s.stage = "failing" => s.link = "none", Flagged(s), Owing(s),
         s.stage \in Waits => s.app = "normal", "ResponseMismatch" \notin s.errors
  PROVE  Sound(s)
  BY NothingOutIsFine DEF Sound, Linked

LEMMA TimedOutSound ==
  ASSUME NEW r, Sound(r), r.stage \in {"waiting", "pinging"}
  PROVE  Sound([r EXCEPT !.stage = IF @ = "waiting" THEN "late" ELSE "pinglate"])
<1> DEFINE s == [r EXCEPT !.stage = IF @ = "waiting" THEN "late" ELSE "pinglate"]
<1>1. r \in ClientRecord
  BY DEF Sound
<1>2. s \in ClientRecord
  BY <1>1 DEF ClientRecord, Stages, Waits
<1>3. /\ s.wire = r.wire /\ s.queue = r.queue /\ s.pending = r.pending /\ s.link = r.link
      /\ s.errors = r.errors /\ s.app = r.app /\ s.hasResponse = r.hasResponse
      /\ s.stage = IF r.stage = "waiting" THEN "late" ELSE "pinglate"
  BY <1>1 DEF ClientRecord
<1>4. OneAtMost(s) /\ Matched(s)
  BY <1>3 DEF Sound, OneAtMost, Matched
<1>5. Linked(s)
  BY <1>3 DEF Sound, Linked
<1>6. Flagged(s)
  BY <1>3 DEF Sound, Flagged
<1>7. Owing(s)
  BY <1>3 DEF Sound, Owing, Waits, Results
<1> QED
  BY <1>2, <1>3, <1>4, <1>5, <1>6, <1>7 DEF Sound, Waits

(* Giving a wait up.                                                          *)
LEMMA AbandonedFields ==
  ASSUME NEW r, Sound(r), NEW stage \in Stages
  PROVE  LET s == Abandoned(r, stage)
         IN  /\ s \in ClientRecord /\ s.wire = <<>> /\ s.queue = <<>> /\ s.link = "none"
             /\ s.stage = stage /\ s.app = r.app /\ s.pending = r.pending
             /\ "ResponseMismatch" \notin s.errors
<1>1. r \in ClientRecord
  BY DEF Sound
<1>2. <<>> \in Seq(Kinds) /\ <<>> \in Seq(Responses)
  OBVIOUS
<1>3. r.errors \cup Hangup(r) \subseteq ClientErrors /\ "ResponseMismatch" \notin r.errors \cup Hangup(r)
  BY <1>1 DEF Sound, ClientRecord, Hangup, ClientErrors
<1>4. Abandoned(r, stage) = [r EXCEPT !.link = "none", !.wire = <<>>, !.queue = <<>>,
                                      !.errors = r.errors \cup Hangup(r), !.stage = stage]
  BY <1>1 DEF Abandoned, Disconnect, ClientRecord
<1> QED
  <2> DEFINE s == Abandoned(r, stage)
  <2>1. /\ s.wire = <<>> /\ s.queue = <<>> /\ s.link = "none" /\ s.stage = stage
        /\ s.app = r.app /\ s.pending = r.pending /\ s.errors = r.errors \cup Hangup(r)
    BY <1>1, <1>4 DEF ClientRecord
  <2>2. s \in ClientRecord
    BY <1>1, <1>2, <1>3, <1>4 DEF ClientRecord
  <2> QED
    BY <1>3, <2>1, <2>2

LEMMA AbandonedSound ==
  ASSUME NEW r, Sound(r), r.stage \in Waits
  PROVE  Sound(Abandoned(r, "failing"))
<1> DEFINE s == Abandoned(r, "failing")
<1>1. "failing" \in Stages
  BY DEF Stages, Waits
<1>2. /\ s \in ClientRecord /\ s.wire = <<>> /\ s.queue = <<>> /\ s.link = "none"
      /\ s.stage = "failing" /\ s.app = r.app /\ s.pending = r.pending
      /\ "ResponseMismatch" \notin s.errors
  BY <1>1, AbandonedFields
<1> HIDE DEF s
<1>3. Flagged(s)
  BY <1>2 DEF Flagged
<1>4. Owing(s)
  BY <1>2 DEF Sound, Owing, Results
<1>5. Sound(s)
  BY <1>2, <1>3, <1>4, EmptySound DEF Sound
<1> QED
  BY <1>5 DEF s

(* The application is found to have failed.                                   *)
LEMMA FailedSound ==
  ASSUME NEW r \in ClientRecord, r.wire = <<>>, r.queue = <<>>, r.pending # "none",
         "ResponseMismatch" \notin r.errors,
         NEW app \in AppStates \ {"normal"},
         NEW E \in SUBSET (ClientErrors \ {"ResponseMismatch"}), E # {}
  PROVE  Sound([r EXCEPT !.app = app, !.errors = r.errors \cup E, !.stage = "lost"])
<1> DEFINE s == [r EXCEPT !.app = app, !.errors = r.errors \cup E, !.stage = "lost"]
<1>1. r.errors \cup E \subseteq ClientErrors /\ "ResponseMismatch" \notin r.errors \cup E
  BY DEF ClientRecord
<1>2. "lost" \in Stages /\ "lost" \notin Waits
  BY DEF Stages, Results, Waits
<1>3. s \in ClientRecord
  BY <1>1, <1>2 DEF ClientRecord
<1>4. /\ s.wire = <<>> /\ s.queue = <<>> /\ s.app = app /\ s.stage = "lost"
      /\ s.errors = r.errors \cup E /\ s.pending = r.pending
  BY DEF ClientRecord
<1>5. Flagged(s) /\ Owing(s)
  BY <1>4 DEF Flagged, Owing
<1> QED
  BY <1>1, <1>2, <1>3, <1>4, <1>5, EmptySound

-------------------------------------------------------------------------------
(* A client with a request out, or one that got lost on a dead connection.    *)
LEMMA AskedSound ==
  ASSUME NEW s \in ClientRecord, s.queue = <<>>, s.pending \in Kinds,
         s.wire = <<>> \/ (s.wire = <<s.pending>> /\ s.link = "open"),
         s.stage # "failing", s.stage \notin Results, Flagged(s),
         s.app # "normal" => s.errors # {},
         s.stage \in Waits => s.app = "normal", "ResponseMismatch" \notin s.errors
  PROVE  Sound(s)
<1>o. Owing(s)
  BY DEF Owing, Kinds, Requests
<1>1. CASE s.wire = <<>>
  BY <1>o, <1>1, EmptySound
<1>2. CASE s.wire = <<s.pending>> /\ s.link = "open"
  <2>1. Len(s.wire) = 1 /\ DOMAIN s.wire = {1} /\ s.wire[1] = s.pending
    BY <1>2, Single
  <2>2. OneAtMost(s)
    BY <2>1, Empty DEF OneAtMost
  <2>3. Matched(s)
    BY <2>1, Empty DEF Matched
  <2>4. Linked(s)
    BY <1>2 DEF Linked
  <2> QED
    BY <1>o, <2>2, <2>3, <2>4 DEF Sound
<1> QED
  BY <1>1, <1>2

LEMMA SendFields ==
  ASSUME NEW r \in ClientRecord, r.wire = <<>>, NEW k \in Kinds
  PROVE  LET s == Send(r, k)
         IN  /\ s \in ClientRecord /\ s.pending = k
             /\ s.wire = IF r.link = "open" THEN <<k>> ELSE <<>>
             /\ s.queue = r.queue /\ s.link = r.link /\ s.stage = r.stage /\ s.app = r.app
             /\ s.errors = r.errors /\ s.hasResponse = r.hasResponse
<1>1. Append(r.wire, k) = <<k>> /\ <<k>> \in Seq(Kinds)
  BY Single
<1>2. Send(r, k) = [r EXCEPT !.pending = k, !.wire = IF r.link = "open" THEN <<k>> ELSE <<>>]
  BY <1>1 DEF Send, ClientRecord
<1>3. (IF r.link = "open" THEN <<k>> ELSE <<>>) \in Seq(Kinds)
  BY <1>1, Empty DEF ClientRecord
<1> QED
  BY <1>2, <1>3 DEF ClientRecord

LEMMA ReconnectFields ==
  ASSUME NEW r, Sound(r), NEW reached \in BOOLEAN
  PROVE  LET s == Reconnect(r, reached)
         IN  /\ s \in ClientRecord /\ s.link = IF r.link = "none" /\ reached THEN "open" ELSE r.link
             /\ s.wire = r.wire
             /\ s.pending = r.pending /\ s.queue = r.queue /\ s.stage = r.stage /\ s.app = r.app
             /\ s.errors = r.errors /\ s.hasResponse = r.hasResponse
<1>1. r \in ClientRecord /\ (r.link = "none" => r.wire = <<>>)
  BY DEF Sound, Linked
<1>2. CASE r.link = "none" /\ reached
  <2>1. Reconnect(r, reached) = [r EXCEPT !.link = "open", !.wire = <<>>]
    BY <1>2 DEF Reconnect
  <2>2. <<>> \in Seq(Kinds)
    OBVIOUS
  <2> QED
    BY <1>1, <1>2, <2>1, <2>2 DEF ClientRecord
<1>3. CASE ~(r.link = "none" /\ reached)
  BY <1>1, <1>3 DEF Reconnect
<1> QED
  BY <1>2, <1>3

LEMMA ReconnectSound ==
  ASSUME NEW r, Sound(r), r.stage # "failing", NEW reached \in BOOLEAN
  PROVE  Sound(Reconnect(r, reached))
<1> DEFINE s == Reconnect(r, reached)
<1>1. /\ s \in ClientRecord /\ s.link = (IF r.link = "none" /\ reached THEN "open" ELSE r.link)
      /\ s.wire = r.wire /\ s.pending = r.pending /\ s.queue = r.queue /\ s.stage = r.stage
      /\ s.app = r.app /\ s.errors = r.errors /\ s.hasResponse = r.hasResponse
  BY ReconnectFields
<1> HIDE DEF s
<1>2. OneAtMost(s) /\ Matched(s) /\ Flagged(s) /\ Owing(s)
  BY <1>1 DEF Sound, OneAtMost, Matched, Flagged, Owing
<1>3. Linked(s)
  BY <1>1 DEF Sound, Linked
<1>4. Sound(s)
  BY <1>1, <1>2, <1>3 DEF Sound
<1> QED
  BY <1>4 DEF s

LEMMA SendRequestSound ==
  ASSUME NEW r, Sound(r), r.stage = "free", NEW k \in Kinds, NEW reached \in BOOLEAN
  PROVE  /\ Sound(SendRequest(r, k, reached)) /\ SendRequest(r, k, reached).stage = "free"
         /\ SendRequest(r, k, reached).app = r.app
         /\ SendRequest(r, k, reached).pending = IF Accepts(r, reached) THEN k ELSE r.pending
<1> DEFINE linked == Reconnect(r, reached)
<1>1. Sound(linked)
  BY ReconnectSound
<1>2. /\ linked \in ClientRecord /\ linked.pending = r.pending /\ linked.stage = "free" /\ linked.app = r.app
      /\ linked.link # "none" <=> r.link # "none" \/ reached
  BY ReconnectFields
<1> HIDE DEF linked
<1>3. SendRequest(r, k, reached) = IF linked.link = "none" THEN linked
        ELSE IF HasResponsePending(r) THEN Error(linked, "ResponseNotConsumed") ELSE Send(linked, k)
  BY DEF SendRequest, linked
<1>a. Accepts(r, reached) <=> linked.link # "none" /\ ~HasResponsePending(r)
  BY <1>2 DEF Accepts
<1>4. CASE linked.link = "none"
  BY <1>1, <1>2, <1>3, <1>4, <1>a
<1>5. CASE linked.link # "none" /\ HasResponsePending(r)
  <2>1. SendRequest(r, k, reached) = Error(linked, "ResponseNotConsumed")
    BY <1>3, <1>5
  <2>2. Sound(Error(linked, "ResponseNotConsumed"))
    BY <1>1, ErrorSound DEF ClientErrors
  <2> QED
    BY <1>2, <1>5, <1>a, <2>1, <2>2 DEF Error, ClientRecord
<1>6. CASE linked.link # "none" /\ ~HasResponsePending(r)
  <2> DEFINE s == Send(linked, k)
  <2>1. SendRequest(r, k, reached) = s
    BY <1>3, <1>6
  <2>2. linked.wire = <<>> /\ linked.queue = <<>>
    BY <1>1, <1>2, <1>6, NothingOut DEF HasResponsePending
  <2>3. /\ s \in ClientRecord /\ s.pending = k /\ s.wire = (IF linked.link = "open" THEN <<k>> ELSE <<>>)
        /\ s.queue = linked.queue /\ s.link = linked.link /\ s.stage = linked.stage
        /\ s.app = linked.app /\ s.errors = linked.errors /\ s.hasResponse = linked.hasResponse
    BY <1>2, <2>2, SendFields
  <2> HIDE DEF s
  <2>4. Flagged(s)
    BY <1>1, <2>3 DEF Sound, Flagged
  <2>5. /\ s.stage # "failing" /\ s.stage \notin Waits /\ s.stage \notin Results
        /\ "ResponseMismatch" \notin s.errors /\ (s.app # "normal" => s.errors # {})
    BY <1>1, <1>2, <2>3 DEF Sound, Owing, Waits, Results
  <2>6. s.wire = <<>> \/ (s.wire = <<s.pending>> /\ s.link = "open")
    BY <2>3
  <2>7. Sound(s)
    BY <2>2, <2>3, <2>4, <2>5, <2>6, AskedSound
  <2> QED
    BY <1>2, <1>6, <1>a, <2>1, <2>3, <2>7
<1> QED
  BY <1>4, <1>5, <1>6

LEMMA WaitForSound ==
  ASSUME NEW r, Sound(r), r.stage = "free", r.app = "normal", r.pending # "none", NEW k \in Kinds
  PROVE  Sound(WaitFor(r, k))
<1> DEFINE s == WaitFor(r, k)
<1>1. r \in ClientRecord
  BY DEF Sound
<1>2. s \in ClientRecord
  BY <1>1 DEF WaitFor, ClientRecord, Stages, Waits, Statuses
<1>3. /\ s.wire = r.wire /\ s.queue = r.queue /\ s.pending = r.pending /\ s.link = r.link
      /\ s.errors = r.errors /\ s.app = r.app /\ s.hasResponse = r.hasResponse
      /\ s.stage = "waiting"
  BY <1>1 DEF WaitFor, ClientRecord
<1> HIDE DEF s
<1>4. OneAtMost(s) /\ Matched(s)
  BY <1>3 DEF Sound, OneAtMost, Matched
<1>5. Linked(s)
  BY <1>3 DEF Sound, Linked
<1>6. Flagged(s) /\ Owing(s)
  BY <1>3 DEF Sound, Flagged, Owing, Results
<1>7. Sound(s)
  BY <1>2, <1>3, <1>4, <1>5, <1>6 DEF Sound, Waits
<1> QED
  BY <1>7 DEF s

LEMMA TakenSound ==
  ASSUME NEW r, Sound(r)
  PROVE  Sound(Taken(r)) /\ Taken(r).app = r.app /\ Taken(r).pending = r.pending
<1>1. CASE r.stage \in Results
  <2> DEFINE s == Returned(r)
  <2>1. r \in ClientRecord
    BY DEF Sound
  <2>2. s \in ClientRecord
    BY <2>1 DEF Returned, ClientRecord, Stages
  <2>3. /\ s.wire = r.wire /\ s.queue = r.queue /\ s.pending = r.pending /\ s.link = r.link
        /\ s.errors = r.errors /\ s.app = r.app /\ s.hasResponse = r.hasResponse
        /\ s.stage = "free"
    BY <2>1 DEF Returned, ClientRecord
  <2> HIDE DEF s
  <2>4. OneAtMost(s) /\ Matched(s)
    BY <2>3 DEF Sound, OneAtMost, Matched
  <2>5. Linked(s)
    BY <2>3 DEF Sound, Linked
  <2>6. Flagged(s) /\ Owing(s)
    BY <1>1, <2>3 DEF Sound, Flagged, Owing, Results, Waits
  <2>7. Sound(s)
    BY <2>2, <2>3, <2>4, <2>5, <2>6 DEF Sound, Waits
  <2> QED
    BY <1>1, <2>3, <2>7 DEF Taken, s
<1>2. CASE r.stage \notin Results
  BY <1>2 DEF Taken
<1> QED
  BY <1>1, <1>2

LEMMA UsedSound ==
  ASSUME NEW r, Sound(r), NEW s, NEW reached \in BOOLEAN, Used(r, s, reached)
  PROVE  Sound(s)
<1> DEFINE free == Taken(r)
<1>1. Sound(free) /\ free.stage = "free" /\ free.app = r.app /\ free.pending = r.pending
  BY TakenSound DEF Used
<1>2. free \in ClientRecord
  BY <1>1 DEF Sound
<1>3. \A k \in Requests : k \in Kinds
  BY DEF Kinds
<1>4. \/ s = free \/ s = Error(free, "ResponseNotConsumed")
      \/ \E k \in Requests : s = SendRequest(free, k, reached)
      \/ r.app = "normal" /\ HasResponsePending(r) /\ s = WaitFor(free, r.pending)
      \/ r.app = "normal" /\ \E k \in Requests : s = SendAndWait(free, k, reached)
  BY DEF Used
<1> HIDE DEF free
<1>5. CASE s = free
  BY <1>1, <1>5
<1>6. CASE s = Error(free, "ResponseNotConsumed")
  BY <1>1, <1>6, ErrorSound DEF ClientErrors
<1>7. ASSUME NEW k \in Requests, s = SendRequest(free, k, reached) PROVE Sound(s)
  BY <1>1, <1>3, <1>7, SendRequestSound
<1>8. CASE r.app = "normal" /\ HasResponsePending(r) /\ s = WaitFor(free, r.pending)
  <2>1. r.pending \in Kinds
    BY <1>8 DEF Sound, ClientRecord, HasResponsePending
  <2> QED
    BY <1>1, <1>8, <2>1, WaitForSound DEF HasResponsePending
<1>9. ASSUME r.app = "normal", NEW k \in Requests, s = SendAndWait(free, k, reached) PROVE Sound(s)
  <2> DEFINE sent == SendRequest(free, k, reached)
  <2>1. /\ Sound(sent) /\ sent.stage = "free" /\ sent.app = "normal"
        /\ Accepts(free, reached) => sent.pending = k
    BY <1>1, <1>3, <1>9, SendRequestSound
  <2>2. (Accepts(free, reached) /\ s = WaitFor(sent, k)) \/ s = sent
    BY <1>9 DEF SendAndWait
  <2> HIDE DEF sent
  <2>3. Accepts(free, reached) => Sound(WaitFor(sent, k))
    BY <1>3, <2>1, WaitForSound DEF Requests
  <2> QED
    BY <2>1, <2>2, <2>3
<1> QED
  BY <1>4, <1>5, <1>6, <1>7, <1>8, <1>9

(* What the game does to a client.                                            *)
LEMMA AnsweredSound ==
  ASSUME NEW r, Sound(r), r.link = "open", r.wire # <<>>, NEW response \in Responses,
         response.kind = Head(r.wire)
  PROVE  Sound(Answered(r, response))
<1> DEFINE s == Answered(r, response)
<1>1. r \in ClientRecord /\ r.wire \in Seq(Kinds) /\ r.queue \in Seq(Responses)
  BY DEF Sound, ClientRecord
<1>2. /\ Len(r.wire) \in Nat /\ Len(r.wire) # 0 /\ Len(r.queue) \in Nat
      /\ (Len(r.queue) = 0 <=> r.queue = <<>>)
  BY <1>1, Lengths
<1>3. Len(r.wire) + Len(r.queue) <= 1
  BY DEF Sound, OneAtMost
<1>4. Len(r.wire) = 1 /\ Len(r.queue) = 0
  <2>1. ASSUME NEW a \in Nat, NEW b \in Nat, a # 0, a + b <= 1 PROVE a = 1 /\ b = 0
    BY <2>1
  <2> QED
    BY <1>2, <1>3, <2>1
<1>5. Tail(r.wire) = <<>> /\ Head(r.wire) = r.wire[1] /\ 1 \in DOMAIN r.wire
  BY <1>1, <1>4, Lengths
<1>6. r.queue = <<>>
  BY <1>2, <1>4
<1>7. Append(r.queue, response) = <<response>> /\ <<response>> \in Seq(Responses) /\ <<>> \in Seq(Kinds)
  BY <1>6, Single
<1>8. s = [r EXCEPT !.wire = <<>>, !.queue = <<response>>, !.hasResponse = TRUE]
  BY <1>1, <1>5, <1>7 DEF Answered, PushResponse, ClientRecord
<1>9. s \in ClientRecord
  BY <1>1, <1>7, <1>8 DEF ClientRecord
<1>10. /\ s.wire = <<>> /\ s.queue = <<response>> /\ s.hasResponse = TRUE /\ s.pending = r.pending
       /\ s.link = "open" /\ s.stage = r.stage /\ s.app = r.app /\ s.errors = r.errors
  BY <1>1, <1>8 DEF ClientRecord
<1> HIDE DEF s
<1>11. response.kind = s.pending
  BY <1>5, <1>10 DEF Sound, Matched
<1>12. /\ Len(s.queue) = 1 /\ DOMAIN s.queue = {1} /\ s.queue[1] = response
       /\ Len(s.wire) = 0 /\ DOMAIN s.wire = {}
  BY <1>10, Single, Empty
<1>13. OneAtMost(s)
  BY <1>12 DEF OneAtMost
<1>14. Matched(s)
  BY <1>11, <1>12 DEF Matched
<1>15. Linked(s)
  BY <1>10 DEF Linked, Sound
<1>16. s.queue # <<>>
  BY <1>12, Empty
<1>17. Flagged(s) /\ Owing(s)
  BY <1>10, <1>16 DEF Flagged, Owing, Sound
<1>18. Sound(s)
  BY <1>9, <1>10, <1>13, <1>14, <1>15, <1>17 DEF Sound
<1> QED
  BY <1>18 DEF s

LEMMA ClosedSound ==
  ASSUME NEW r, Sound(r), r.link = "open"
  PROVE  Sound(Closed(r))
<1> DEFINE s == Closed(r)
<1>1. r \in ClientRecord /\ r.wire \in Seq(Kinds) /\ r.queue \in Seq(Responses)
  BY DEF Sound, ClientRecord
<1>2. <<>> \in Seq(Kinds)
  OBVIOUS
<1>3. r.errors \cup {"ConnectionClosed"} \subseteq ClientErrors
      /\ "ResponseMismatch" \notin r.errors \cup {"ConnectionClosed"}
  BY <1>1 DEF Sound, ClientRecord, ClientErrors
<1>s. s = [r EXCEPT !.link = "dead", !.wire = <<>>, !.errors = r.errors \cup {"ConnectionClosed"}]
  BY <1>1 DEF Closed, Error, ClientRecord
<1>4. s \in ClientRecord
  BY <1>1, <1>2, <1>3, <1>s DEF ClientRecord
<1>5. /\ s.wire = <<>> /\ s.queue = r.queue /\ s.hasResponse = r.hasResponse /\ s.pending = r.pending
      /\ s.link = "dead" /\ s.stage = r.stage /\ s.app = r.app
      /\ s.errors = r.errors \cup {"ConnectionClosed"}
  BY <1>1, <1>s DEF ClientRecord
<1> HIDE DEF s
<1>6. Len(r.wire) \in Nat /\ Len(r.queue) \in Nat /\ Len(r.wire) + Len(r.queue) <= 1
  BY <1>1, Lengths DEF Sound, OneAtMost
<1>7. Len(s.wire) + Len(s.queue) <= 1
  <2>1. ASSUME NEW a \in Nat, NEW b \in Nat, a + b <= 1 PROVE 0 + b <= 1
    BY <2>1
  <2> QED
    BY <1>5, <1>6, <2>1, Empty
<1>8. OneAtMost(s)
  BY <1>7 DEF OneAtMost
<1>9. Matched(s)
  BY <1>5, Empty DEF Sound, Matched
<1>10. Linked(s)
  BY <1>5 DEF Sound, Linked
<1>11. Flagged(s) /\ Owing(s)
  BY <1>5 DEF Sound, Flagged, Owing
<1>12. Sound(s)
  BY <1>3, <1>4, <1>5, <1>8, <1>9, <1>10, <1>11 DEF Sound
<1> QED
  BY <1>12 DEF s

-------------------------------------------------------------------------------
(* The steps of a wait.                                                       *)
LEMMA TakenResponseSound ==
  ASSUME NEW r, Sound(r), r.queue # <<>>, r.app = "normal", NEW stage \in Results,
         NEW e \in ClientErrors \ {"ResponseMismatch"}
  PROVE  Sound([Error(Received(r), e) EXCEPT !.stage = stage])
<1>1. r \in ClientRecord
  BY DEF Sound
<1>2. [Error(Received(r), e) EXCEPT !.stage = stage] = Error([Received(r) EXCEPT !.stage = stage], e)
  BY <1>1 DEF Error, Received, PopResponse, ClientRecord
<1>3. Sound([Received(r) EXCEPT !.stage = stage])
  BY ReceivedSound
<1> QED
  BY <1>2, <1>3, ErrorSound

LEMMA PingedSound ==
  ASSUME NEW r, Sound(r), r.stage = "failing"
  PROVE  Sound([Send(Reconnect(r, TRUE), "ping") EXCEPT !.stage = "pinging", !.status = "unknown"])
<1> DEFINE linked == Reconnect(r, TRUE)
           sent == Send(linked, "ping")
           s == [sent EXCEPT !.stage = "pinging", !.status = "unknown"]
<1>1. r.link = "none" /\ r.app = "normal" /\ "ResponseMismatch" \notin r.errors
  BY DEF Sound, Linked, Waits
<1>2. r.wire = <<>> /\ r.queue = <<>>
  BY <1>1, NothingOut
<1>3. /\ linked \in ClientRecord /\ linked.link = "open" /\ linked.wire = <<>> /\ linked.queue = <<>>
      /\ linked.app = "normal" /\ linked.errors = r.errors
  BY <1>1, <1>2, ReconnectFields
<1>4. "ping" \in Kinds
  BY DEF Kinds
<1> HIDE DEF linked
<1>5. /\ sent \in ClientRecord /\ sent.pending = "ping" /\ sent.wire = <<"ping">> /\ sent.queue = <<>>
      /\ sent.link = "open" /\ sent.app = "normal" /\ sent.errors = r.errors
  BY <1>3, <1>4, SendFields
<1> HIDE DEF sent
<1>6. s \in ClientRecord
  BY <1>5 DEF ClientRecord, Stages, Waits, Statuses
<1>7. /\ s.pending = "ping" /\ s.wire = <<s.pending>> /\ s.queue = <<>> /\ s.link = "open"
      /\ s.app = "normal" /\ s.errors = r.errors /\ s.stage = "pinging" /\ s.stage \notin Results
  BY <1>5 DEF ClientRecord, Results
<1> HIDE DEF s
<1>8. Flagged(s)
  BY <1>7 DEF Flagged
<1>9. Sound(s)
  BY <1>1, <1>4, <1>6, <1>7, <1>8, AskedSound
<1> QED
  BY <1>9 DEF s, sent, linked

(* A step at one client.                                                      *)
LEMMA OneClient ==
  ASSUME IInv, NEW c \in Clients, NEW s, Sound(s), client' = [client EXCEPT ![c] = s], Surroundings'
  PROVE  IInv'
<1>1. client' = [d \in Clients |-> IF d = c THEN s ELSE client[d]]
  BY DEF IInv
<1>2. \A d \in Clients : Sound(client[d])
  BY DEF IInv
<1>3. \A d \in Clients : Sound(client'[d])
  BY <1>1, <1>2
<1> QED
  BY <1>1, <1>3 DEF IInv

LEMMA SurroundingsKept ==
  ASSUME Surroundings, UNCHANGED <<members, gameVars>>
  PROVE  Surroundings'
  BY DEF Surroundings, gameVars

LEMMA TerminateStep ==
  ASSUME IInv, NEW c \in Clients, NEW r \in ClientRecord, r.wire = <<>>, r.queue = <<>>,
         r.pending # "none", "ResponseMismatch" \notin r.errors, NEW left \in {"gone", "zombie", "running"},
         Terminate(c, r, left)
  PROVE  IInv'
<1> DEFINE app == IF left = "gone" THEN "timeout" ELSE "timeout_zombie"
           E == {"SC2ProtocolTimeout", "SC2AppFailure"}
           s == [r EXCEPT !.app = app, !.errors = r.errors \cup E, !.stage = "lost"]
<1>1. app \in AppStates \ {"normal"} /\ E \in SUBSET (ClientErrors \ {"ResponseMismatch"})
  BY DEF AppStates, ClientErrors
<1>2. Sound(s)
  BY <1>1, FailedSound
<1>3. client' = [client EXCEPT ![c] = s]
  BY DEF Terminate, ClientRecord
<1>4. Surroundings'
  BY DEF IInv, Surroundings, Terminate
<1> QED
  BY <1>2, <1>3, <1>4, OneClient

LEMMA WaitStepKeeps ==
  ASSUME IInv, NEW c \in Clients, WaitStep(c)
  PROVE  IInv'
<1> DEFINE r == client[c]
<1>1. Sound(r) /\ r \in ClientRecord /\ Surroundings
  BY DEF IInv, Sound
<1>2. r.stage \in Waits => r.app = "normal" /\ r.pending # "none" /\ "ResponseMismatch" \notin r.errors
  BY <1>1 DEF Sound, Owing
<1>3. r.stage = "failing" => r.wire = <<>> /\ r.queue = <<>> /\ r.pending # "none" /\ "ResponseMismatch" \notin r.errors
  BY <1>1, <1>2, NothingOut DEF Sound, Linked, Waits
<1>4. CASE Receive(c)
  <2>1. r.stage = "waiting" /\ r.queue # <<>> /\ r.app = "normal"
    BY <1>2, <1>4 DEF Receive, Waits
  <2>2. Surroundings'
    BY <1>1, <1>4, SurroundingsKept DEF Receive
  <2>3. CASE Head(r.queue).verdict = "error"
    <3>1. client' = [client EXCEPT ![c] = [Error(Received(r), "SC2ProtocolError") EXCEPT !.stage = "failed"]]
      BY <1>4, <2>3 DEF Receive
    <3>2. Sound([Error(Received(r), "SC2ProtocolError") EXCEPT !.stage = "failed"])
      BY <1>1, <2>1, TakenResponseSound DEF Results, ClientErrors
    <3> QED
      BY <2>2, <3>1, <3>2, OneClient
  <2>4. CASE Head(r.queue).verdict # "error"
    <3> DEFINE stage == IF Head(r.queue).kind # r.call THEN "failed"
                        ELSE IF Head(r.queue).verdict = "refused" THEN "refused"
                        ELSE "answered"
    <3>1. client' = [client EXCEPT ![c] = [Received(r) EXCEPT !.stage = stage]]
      BY <1>4, <2>4 DEF Receive
    <3>2. stage \in Results
      BY DEF Results
    <3> HIDE DEF stage
    <3>3. Sound([Received(r) EXCEPT !.stage = stage])
      BY <1>1, <2>1, <3>2, ReceivedSound
    <3> QED
      BY <2>2, <3>1, <3>3, OneClient
  <2> QED
    BY <2>3, <2>4
<1>5. CASE TimeOut(c)
  <2>1. Surroundings'
    BY <1>1, <1>5, SurroundingsKept DEF TimeOut
  <2>2. Sound([r EXCEPT !.stage = IF @ = "waiting" THEN "late" ELSE "pinglate"])
    BY <1>1, <1>5, TimedOutSound DEF TimeOut
  <2>3. client' = [client EXCEPT ![c] = [r EXCEPT !.stage = IF @ = "waiting" THEN "late" ELSE "pinglate"]]
    BY <1>5 DEF TimeOut, IInv
  <2> QED
    BY <2>1, <2>2, <2>3, OneClient
<1>6. CASE GiveUp(c)
  <2>1. Surroundings'
    BY <1>1, <1>6, SurroundingsKept DEF GiveUp
  <2>2. Sound(Abandoned(r, "failing"))
    BY <1>1, <1>2, <1>6, AbandonedSound DEF GiveUp, Waits
  <2>3. client' = [client EXCEPT ![c] = Abandoned(r, "failing")]
    BY <1>6 DEF GiveUp
  <2> QED
    BY <2>1, <2>2, <2>3, OneClient
<1>7. CASE Crashed(c)
  <2> DEFINE s == [r EXCEPT !.app = "crashed", !.errors = r.errors \cup {"SC2AppFailure"}, !.stage = "lost"]
  <2>1. Surroundings'
    BY <1>1, <1>7, SurroundingsKept DEF Crashed
  <2>2. "crashed" \in AppStates \ {"normal"} /\ {"SC2AppFailure"} \in SUBSET (ClientErrors \ {"ResponseMismatch"})
    BY DEF AppStates, ClientErrors
  <2>3. Sound(s)
    BY <1>1, <1>3, <1>7, <2>2, FailedSound DEF Crashed
  <2>4. client' = [client EXCEPT ![c] = s]
    BY <1>1, <1>7 DEF Crashed, Error, ClientRecord
  <2> QED
    BY <2>1, <2>3, <2>4, OneClient
<1>8. CASE Ping(c)
  <2> DEFINE s == [Send(Reconnect(r, TRUE), "ping") EXCEPT !.stage = "pinging", !.status = "unknown"]
  <2>1. Surroundings'
    BY <1>1, <1>8, SurroundingsKept DEF Ping
  <2>2. Sound(s)
    BY <1>1, <1>8, PingedSound DEF Ping
  <2>3. client' = [client EXCEPT ![c] = s]
    BY <1>8 DEF Ping
  <2> QED
    BY <2>1, <2>2, <2>3, OneClient
<1>9. CASE ReceivePing(c)
  <2> DEFINE s == [Error(Received(r), "SC2UnknownStatus") EXCEPT !.stage = "lost"]
  <2>1. Surroundings'
    BY <1>1, <1>9, SurroundingsKept DEF ReceivePing
  <2>2. Sound(s)
    BY <1>1, <1>2, <1>9, TakenResponseSound DEF ReceivePing, Waits, Results, ClientErrors
  <2>3. client' = [client EXCEPT ![c] = s]
    BY <1>9 DEF ReceivePing, Revived
  <2> QED
    BY <2>1, <2>2, <2>3, OneClient
<1>10. CASE Unreachable(c)
  <2>1. PICK left \in {"gone", "zombie", "running"} : Terminate(c, r, left)
    BY <1>10 DEF Unreachable
  <2> QED
    BY <1>1, <1>3, <1>10, <2>1, TerminateStep DEF Unreachable
<1>11. CASE GiveUpPing(c)
  <2>1. PICK left \in {"gone", "zombie", "running"} : Terminate(c, Abandoned(r, "lost"), left)
    BY <1>11 DEF GiveUpPing
  <2>2. /\ Abandoned(r, "lost") \in ClientRecord
        /\ Abandoned(r, "lost").wire = <<>> /\ Abandoned(r, "lost").queue = <<>>
        /\ Abandoned(r, "lost").pending # "none" /\ "ResponseMismatch" \notin Abandoned(r, "lost").errors
    BY <1>1, <1>2, <1>11, AbandonedFields DEF Stages, Results, GiveUpPing, Waits
  <2> QED
    BY <2>1, <2>2, TerminateStep
<1> QED
  BY <1>4, <1>5, <1>6, <1>7, <1>8, <1>9, <1>10, <1>11 DEF WaitStep

-------------------------------------------------------------------------------
(* The steps of the games.                                                    *)
LEMMA GameStepKeeps ==
  ASSUME IInv, GameStep
  PROVE  IInv'
<1>1. Surroundings /\ \A c \in Clients : Sound(client[c]) /\ client[c] \in ClientRecord
  BY DEF IInv, Sound
<1>2. ASSUME NEW c \in members, NEW verdict \in Verdicts, Answer(c, verdict) PROVE IInv'
  <2> DEFINE r == client[c]
             k == Head(r.wire)
             status == IF verdict = "done" THEN StatusAfter(c, k) ELSE playing[c]
             response == [kind |-> k, status |-> status, verdict |-> verdict]
             s == Answered(r, response)
  <2>1. c \in Clients /\ playing[c] \in Statuses
    BY <1>1 DEF Surroundings
  <2>2. Sound(r) /\ r.link = "open" /\ r.wire # <<>> /\ r.wire \in Seq(Kinds)
    BY <1>1, <1>2, <2>1 DEF Answer, Heard, ClientRecord
  <2>3. k \in Kinds
    BY <2>2
  <2>4. status \in Statuses
    BY <2>1 DEF StatusAfter, Statuses
  <2>5. response \in Responses /\ response.kind = Head(r.wire)
    BY <2>3, <2>4 DEF Responses
  <2>6. Sound(s)
    BY <2>2, <2>5, AnsweredSound
  <2>7. client' = [client EXCEPT ![c] = s]
    BY <1>2, <2>1 DEF Answer, IInv
  <2>8. Surroundings'
    <3>1. playing' = [playing EXCEPT ![c] = status] /\ members' = members /\ process' = process
      BY <1>2 DEF Answer
    <3>2. over' \in BOOLEAN
      BY <1>1, <1>2 DEF Answer, Surroundings
    <3>3. stepped' \subseteq members
      BY <1>1, <1>2 DEF Answer, Ahead, Surroundings
    <3> HIDE DEF status
    <3> QED
      BY <1>1, <2>4, <3>1, <3>2, <3>3 DEF Surroundings
  <2> QED
    BY <2>1, <2>6, <2>7, <2>8, OneClient
<1>3. CASE Decided
  BY <1>1, <1>3 DEF Decided, Surroundings, IInv
<1>4. ASSUME NEW c \in members, NEW left \in {"gone", "zombie"}, Crash(c, left) PROVE IInv'
  BY <1>1, <1>4 DEF Crash, Surroundings, IInv
<1>5. ASSUME NEW c \in members, Close(c) PROVE IInv'
  <2> DEFINE s == Closed(client[c])
  <2>1. c \in Clients
    BY <1>1 DEF Surroundings
  <2>2. Sound(s)
    BY <1>1, <1>5, <2>1, ClosedSound DEF Close
  <2>3. client' = [client EXCEPT ![c] = s]
    BY <1>5, <2>1 DEF Close, IInv
  <2>4. Surroundings'
    BY <1>1, <1>5, SurroundingsKept DEF Close
  <2> QED
    BY <2>1, <2>2, <2>3, <2>4, OneClient
<1> QED
  BY <1>2, <1>3, <1>4, <1>5 DEF GameStep

(* ... and of those who use the interface.                                    *)
LEMMA UseKeeps ==
  ASSUME IInv, Use
  PROVE  IInv'
<1>1. ASSUME NEW c \in Clients PROVE Sound(client'[c])
  <2>1. Sound(client[c])
    BY DEF IInv
  <2>2. client'[c] = client[c] \/ \E reached \in BOOLEAN : Used(client[c], client'[c], reached)
    BY DEF Use, Reachable
  <2> QED
    BY <2>1, <2>2, UsedSound
<1>2. Surroundings'
  BY SurroundingsKept DEF IInv, Use
<1> QED
  BY <1>1, <1>2 DEF IInv, Use

LEMMA InvariantStep == IInv /\ [ControlNext]_controlVars => IInv'
<1> SUFFICES ASSUME IInv, [ControlNext]_controlVars PROVE IInv'
  OBVIOUS
<1>1. CASE Use
  BY <1>1, UseKeeps
<1>2. ASSUME NEW c \in members, WaitStep(c) PROVE IInv'
  <2>1. c \in Clients
    BY DEF IInv, Surroundings
  <2> QED
    BY <1>2, <2>1, WaitStepKeeps
<1>3. CASE GameStep
  BY <1>3, GameStepKeeps
<1>4. CASE UNCHANGED controlVars
  BY <1>4 DEF controlVars, gameVars, IInv, Surroundings
<1> QED
  BY <1>1, <1>2, <1>3, <1>4 DEF ControlNext

LEMMA InvariantInit == ControlInit => IInv
<1> SUFFICES ASSUME ControlInit PROVE IInv
  OBVIOUS
<1>1. members \subseteq Clients
  <2>1. PICK n \in Clients : members = 1..n
    BY DEF ControlInit
  <2> QED
    BY <2>1, ClientsAssumption DEF Clients
<1>2. Surroundings
  BY <1>1 DEF ControlInit, Surroundings, Statuses
<1>3. client = [c \in Clients |-> Attached]
  BY DEF ControlInit
<1>4. \A c \in Clients : Sound(client[c])
  BY <1>3, AttachedSound
<1> QED
  BY <1>2, <1>3, <1>4 DEF IInv

LEMMA Invariant == ControlSpec => []IInv
  BY InvariantInit, InvariantStep, PTL DEF ControlSpec

(* At most one request or response is ever on a connection, however often     *)
(* waits were given up before, and every variable keeps its kind.             *)
THEOREM OneOnTheWire == ControlSpec => []ControlTypeOK
<1>1. IInv => ControlTypeOK
  <2> SUFFICES ASSUME IInv PROVE ControlTypeOK
    OBVIOUS
  <2>1. \A c \in Clients : client[c] \in ClientRecord /\ OneAtMost(client[c])
    BY DEF IInv, Sound
  <2> QED
    BY <2>1 DEF IInv, Surroundings, ControlTypeOK
<1> QED
  BY <1>1, Invariant, PTL

(* Whoever uses the interface, no response is taken for another request's.    *)
THEOREM ResponsesMatch == ControlSpec => []NeverMismatched
<1>1. IInv => NeverMismatched
  BY DEF IInv, Sound, NeverMismatched
<1> QED
  BY <1>1, Invariant, PTL

(* ... and PollResponse tells the truth where nobody waits.                   *)
THEOREM PollIsTruthful == ControlSpec => []FlagTruthful
<1>1. IInv => FlagTruthful
  BY DEF IInv, Sound, Flagged, FlagTruthful, Waits
<1> QED
  BY <1>1, Invariant, PTL

-------------------------------------------------------------------------------
(* What a client knows of its game where nobody waits: the status it has now, *)
(* or will have from the response that is there.  A failed application has    *)
(* nothing on its way.                                                        *)
Knows(r, status) ==
    /\ r.queue # <<>> => Head(r.queue).status = status
    /\ r.app = "normal" /\ r.stage \notin Waits /\ r.queue = <<>> => r.status = status
    /\ r.app # "normal" => r.wire = <<>> /\ r.queue = <<>>

AllKnow == \A c \in Clients : Knows(client[c], playing[c])

(* What is pending stays so, and on its way, or something else is asked for   *)
(* where nothing was pending.                                                 *)
OwesThen(r, s) ==
    \/ s.pending = r.pending /\ s.wire = r.wire /\ (r.link = "open" => s.link = "open")
    \/ r.pending = "none" /\ s.pending # "none" /\ (r.link = "open" => s.link = "open" /\ s.wire # <<>>)

(* What a use of the interface leaves as it was.                              *)
LEMMA UsedFields ==
  ASSUME NEW r, Sound(r), NEW s, NEW reached \in BOOLEAN, Used(r, s, reached)
  PROVE  /\ r.stage \notin Waits /\ s.stage \in {"free", "waiting"}
         /\ s.queue = r.queue /\ s.app = r.app /\ r.errors \subseteq s.errors
         /\ s.stage = "free" => s.status = r.status
         /\ r.app # "normal" => s.wire = r.wire /\ s.stage = "free"
         /\ OwesThen(r, s)
<1> DEFINE free == Taken(r)
           linked == Reconnect(free, reached)
<1>1. /\ Sound(free) /\ free.stage = "free" /\ free.app = r.app /\ free.pending = r.pending
      /\ free.queue = r.queue /\ free.status = r.status /\ free.wire = r.wire /\ free.errors = r.errors
      /\ free.link = r.link /\ r.stage \notin Waits
  <2>1. Sound(free) /\ free.app = r.app /\ free.pending = r.pending /\ free.stage = "free"
    BY TakenSound DEF Used
  <2> QED
    BY <2>1 DEF Taken, Returned, Sound, ClientRecord, Results, Waits
<1>2. /\ linked \in ClientRecord /\ linked.wire = r.wire /\ linked.queue = r.queue
      /\ linked.stage = "free" /\ linked.app = r.app /\ linked.errors = r.errors
      /\ linked.status = r.status /\ linked.pending = r.pending /\ (r.link = "open" => linked.link = "open")
  <2>1. linked.status = free.status
    BY <1>1 DEF Reconnect, Sound, ClientRecord
  <2> QED
    BY <1>1, <2>1, ReconnectFields
<1>3. r.app # "normal" => r.pending # "none"
  BY DEF Sound, Owing
<1>4. \/ s = free \/ s = Error(free, "ResponseNotConsumed")
      \/ \E k \in Requests : s = SendRequest(free, k, reached)
      \/ r.app = "normal" /\ HasResponsePending(r) /\ s = WaitFor(free, r.pending)
      \/ r.app = "normal" /\ \E k \in Requests : s = SendAndWait(free, k, reached)
  BY DEF Used
<1>5. free \in ClientRecord
  BY <1>1 DEF Sound
<1>a. ASSUME NEW k
      PROVE  \/ SendRequest(free, k, reached) = linked
             \/ SendRequest(free, k, reached) = Error(linked, "ResponseNotConsumed")
             \/ r.pending = "none" /\ SendRequest(free, k, reached) = Send(linked, k)
  BY <1>1 DEF SendRequest, HasResponsePending
<1> HIDE DEF free, linked
<1>b. ASSUME NEW k \in Requests
      PROVE  LET t == SendRequest(free, k, reached)
             IN  /\ DOMAIN t = DOMAIN linked
                 /\ t.stage = "free" /\ t.queue = r.queue /\ t.app = r.app /\ r.errors \subseteq t.errors
                 /\ t.status = r.status /\ (r.app # "normal" => t.wire = r.wire) /\ OwesThen(r, t)
  <2> DEFINE t == SendRequest(free, k, reached)
  <2>1. CASE t = linked
    BY <1>2, <2>1 DEF OwesThen
  <2>2. CASE t = Error(linked, "ResponseNotConsumed")
    <3> DEFINE u == Error(linked, "ResponseNotConsumed")
    <3>1. /\ DOMAIN u = DOMAIN linked /\ u.stage = linked.stage /\ u.queue = linked.queue
          /\ u.app = linked.app /\ linked.errors \subseteq u.errors /\ u.status = linked.status
          /\ u.wire = linked.wire /\ u.pending = linked.pending /\ u.link = linked.link
      BY <1>2 DEF Error, ClientRecord
    <3> QED
      BY <1>2, <2>2, <3>1 DEF OwesThen
  <2>3. CASE r.pending = "none" /\ t = Send(linked, k)
    <3> DEFINE u == Send(linked, k)
    <3>1. /\ DOMAIN u = DOMAIN linked /\ u.stage = linked.stage /\ u.queue = linked.queue
          /\ u.app = linked.app /\ u.errors = linked.errors /\ u.status = linked.status
          /\ u.pending = k /\ k # "none" /\ u.link = linked.link
          /\ linked.link = "open" => u.wire = Append(linked.wire, k)
      BY <1>2 DEF Send, ClientRecord, Requests
    <3>2. linked.link = "open" => u.wire # <<>>
      <4>1. linked.wire \in Seq(Kinds)
        BY <1>2 DEF ClientRecord
      <4>2. Append(linked.wire, k) # <<>>
        BY <4>1
      <4> QED
        BY <3>1, <4>2
    <3> QED
      BY <1>2, <1>3, <2>3, <3>1, <3>2 DEF OwesThen
  <2> QED
    BY <1>a, <2>1, <2>2, <2>3
<1>6. CASE s = free \/ s = Error(free, "ResponseNotConsumed")
  BY <1>1, <1>5, <1>6 DEF Error, ClientRecord, OwesThen
<1>7. ASSUME NEW k \in Requests, s = SendRequest(free, k, reached)
      PROVE  /\ s.stage = "free" /\ s.queue = r.queue /\ s.app = r.app /\ r.errors \subseteq s.errors
             /\ s.status = r.status /\ (r.app # "normal" => s.wire = r.wire) /\ OwesThen(r, s)
  BY <1>7, <1>b
<1>8. CASE r.app = "normal" /\ s = WaitFor(free, r.pending)
  BY <1>1, <1>5, <1>8 DEF WaitFor, ClientRecord, OwesThen
<1>9. ASSUME r.app = "normal", NEW k \in Requests, s = SendAndWait(free, k, reached)
      PROVE  /\ s.stage \in {"free", "waiting"} /\ s.queue = r.queue /\ s.app = r.app /\ r.errors \subseteq s.errors
             /\ s.stage = "free" => s.status = r.status
             /\ OwesThen(r, s)
  <2> DEFINE t == SendRequest(free, k, reached)
  <2>1. s = t \/ s = WaitFor(t, k)
    BY <1>9 DEF SendAndWait
  <2>2. /\ DOMAIN t = DOMAIN linked
        /\ t.stage = "free" /\ t.queue = r.queue /\ t.app = r.app /\ r.errors \subseteq t.errors
        /\ t.status = r.status /\ OwesThen(r, t)
    BY <1>9, <1>b
  <2> HIDE DEF t
  <2> QED
    <3>1. CASE s = t
      BY <3>1, <2>2
    <3>2. CASE s = WaitFor(t, k)
      <4>1. /\ s.stage = "waiting" /\ s.queue = t.queue /\ s.app = t.app /\ s.errors = t.errors
            /\ s.pending = t.pending /\ s.wire = t.wire /\ s.link = t.link
        <5>1. {"stage", "queue", "app", "errors", "pending", "wire", "link", "call", "status"} \subseteq DOMAIN t
          BY <1>2, <2>2 DEF ClientRecord
        <5> QED
          BY <3>2, <5>1 DEF WaitFor
      <4> QED
        BY <2>2, <4>1 DEF OwesThen
    <3> QED
      BY <2>1, <3>1, <3>2
<1> QED
  BY <1>1, <1>4, <1>6, <1>7, <1>8, <1>9

(* What a step of a wait does: nothing is left in the queue, and what was on  *)
(* its way still is where there has been no error.                            *)
Moves(r, s) ==
    /\ s.queue = <<>> /\ r.errors \subseteq s.errors
    /\ s.pending \in {r.pending, "none", "ping"}
    /\ s.app = "normal" /\ s.stage \notin Waits => r.queue # <<>> /\ s.status = Head(r.queue).status
    /\ s.app # "normal" => s.wire = <<>>
    /\ s.stage # "waiting" /\ (s.stage = "lost" => s.errors # {})
    /\ s.stage = "answered" => r.stage = "waiting" /\ r.queue # <<>> /\ Head(r.queue).verdict = "done"
    /\ s.wire \in {r.wire, <<>>} \/ s.pending = "ping"
    /\ s.errors = {} /\ r.link = "open" =>
        /\ s.link = "open"
        /\ r.queue # <<>> => Head(r.queue).verdict # "error" /\ s.pending = "none"
        /\ r.wire # <<>> => s.wire = r.wire /\ s.pending = r.pending

LEMMA MovedOn ==
  ASSUME IInv, NEW c \in Clients, WaitStep(c)
  PROVE  /\ client[c].app = "normal" /\ Moves(client[c], client'[c])
         /\ client' = [client EXCEPT ![c] = client'[c]]
         /\ UNCHANGED <<members, playing, over, stepped>>
<1> DEFINE r == client[c]
<1>1. Sound(r) /\ r \in ClientRecord /\ client = [d \in Clients |-> client[d]]
  BY DEF IInv, Sound
<1>2. r.stage \in Waits
  BY DEF WaitStep, Receive, TimeOut, GiveUp, Crashed, Ping, ReceivePing, Unreachable, GiveUpPing, Waits
<1>3. r.app = "normal"
  BY <1>1, <1>2 DEF Sound
<1>4. r.queue # <<>> => /\ Tail(r.queue) = <<>> /\ r.wire = <<>>
                        /\ Head(r.queue).verdict \in {"done", "refused", "error"}
  BY <1>1, FirstResponse DEF Responses, Verdicts
<1>5. r.stage = "failing" => r.wire = <<>> /\ r.queue = <<>> /\ r.link = "none"
  BY <1>1, NothingOut DEF Sound, Linked
<1>6. SUFFICES \E s : client' = [client EXCEPT ![c] = s] /\ Moves(r, s)
                      /\ UNCHANGED <<members, playing, over, stepped>>
  BY <1>1, <1>3
<1>7. CASE Receive(c)
  <2> DEFINE s == IF Head(r.queue).verdict = "error"
                  THEN [Error(Received(r), "SC2ProtocolError") EXCEPT !.stage = "failed"]
                  ELSE [Received(r) EXCEPT !.stage = IF Head(r.queue).kind # r.call THEN "failed"
                                                     ELSE IF Head(r.queue).verdict = "refused" THEN "refused"
                                                     ELSE "answered"]
  <2>1. /\ client' = [client EXCEPT ![c] = s] /\ UNCHANGED <<members, gameVars>>
        /\ r.stage = "waiting" /\ r.queue # <<>>
    BY <1>7 DEF Receive
  <2>2. Moves(r, s)
    <3> DEFINE got == Received(r)
    <3>1. /\ DOMAIN got = DOMAIN r /\ got.queue = <<>> /\ got.wire = <<>> /\ got.pending = "none"
          /\ got.app = "normal" /\ got.status = Head(r.queue).status /\ r.errors \subseteq got.errors
          /\ got.link = r.link
      BY <1>1, <1>3, <1>4, <2>1 DEF Received, PopResponse, ClientRecord
    <3>2. DOMAIN r = {"link", "wire", "queue", "hasResponse", "pending", "status", "app", "errors", "stage", "call"}
      BY <1>1 DEF ClientRecord
    <3> HIDE DEF got
    <3>3. CASE Head(r.queue).verdict = "error"
      <4>1. s = [Error(got, "SC2ProtocolError") EXCEPT !.stage = "failed"]
        BY <3>3 DEF got
      <4> HIDE DEF s
      <4>2. /\ s.queue = <<>> /\ s.wire = <<>> /\ s.pending = "none" /\ s.app = "normal" /\ s.stage = "failed"
            /\ s.status = Head(r.queue).status /\ s.errors = got.errors \cup {"SC2ProtocolError"}
        BY <3>1, <3>2, <4>1 DEF Error
      <4> QED
        BY <1>4, <2>1, <3>1, <4>2 DEF Moves
    <3>4. CASE Head(r.queue).verdict # "error"
      <4> DEFINE stage == IF Head(r.queue).kind # r.call THEN "failed"
                          ELSE IF Head(r.queue).verdict = "refused" THEN "refused"
                          ELSE "answered"
      <4>1. s = [got EXCEPT !.stage = stage]
        BY <3>4 DEF got
      <4>2. stage = "answered" => Head(r.queue).verdict = "done"
        BY <1>4, <2>1, <3>4
      <4>3. stage # "waiting" /\ stage # "lost"
        OBVIOUS
      <4> HIDE DEF s, stage
      <4>4. /\ s.queue = <<>> /\ s.wire = <<>> /\ s.pending = "none" /\ s.app = "normal" /\ s.stage = stage
            /\ s.status = Head(r.queue).status /\ s.errors = got.errors /\ s.link = got.link
        BY <3>1, <3>2, <4>1
      <4> QED
        BY <1>4, <2>1, <3>1, <3>4, <4>2, <4>3, <4>4 DEF Moves
    <3> QED
      BY <3>3, <3>4
  <2> QED
    BY <2>1, <2>2 DEF gameVars
<1>8. CASE TimeOut(c)
  <2> DEFINE s == [r EXCEPT !.stage = IF @ = "waiting" THEN "late" ELSE "pinglate"]
  <2>1. client' = [client EXCEPT ![c] = s] /\ UNCHANGED <<members, gameVars>> /\ r.queue = <<>>
    BY <1>8 DEF TimeOut
  <2>2. Moves(r, s)
    BY <1>1, <1>3, <2>1 DEF Moves, ClientRecord, Waits
  <2> QED
    BY <2>1, <2>2 DEF gameVars
<1>9. CASE GiveUp(c)
  <2> DEFINE s == Abandoned(r, "failing")
  <2>1. client' = [client EXCEPT ![c] = s] /\ UNCHANGED <<members, gameVars>>
    BY <1>9 DEF GiveUp
  <2>2. Moves(r, s)
    <3>1. /\ s.queue = <<>> /\ s.wire = <<>> /\ s.pending = r.pending /\ s.app = "normal"
          /\ s.stage = "failing" /\ s.errors = r.errors \cup Hangup(r)
      BY <1>1, <1>3 DEF Abandoned, Disconnect, ClientRecord
    <3> HIDE DEF s
    <3> QED
      BY <3>1 DEF Moves, Hangup, Waits
  <2> QED
    BY <2>1, <2>2 DEF gameVars
<1>10. CASE Crashed(c)
  <2> DEFINE s == [Error(r, "SC2AppFailure") EXCEPT !.app = "crashed", !.stage = "lost"]
  <2>1. client' = [client EXCEPT ![c] = s] /\ UNCHANGED <<members, gameVars>> /\ r.stage = "failing"
    BY <1>10 DEF Crashed
  <2>2. Moves(r, s)
    BY <1>1, <1>5, <2>1 DEF Moves, Error, ClientRecord
  <2> QED
    BY <2>1, <2>2 DEF gameVars
<1>11. CASE Ping(c)
  <2> DEFINE linked == Reconnect(r, TRUE)
             sent == Send(linked, "ping")
             s == [sent EXCEPT !.stage = "pinging", !.status = "unknown"]
  <2>1. client' = [client EXCEPT ![c] = s] /\ UNCHANGED <<members, gameVars>> /\ r.stage = "failing"
    BY <1>11 DEF Ping
  <2>2. linked \in ClientRecord /\ linked.queue = r.queue /\ linked.errors = r.errors /\ linked.app = r.app
    BY <1>1, ReconnectFields
  <2> HIDE DEF linked
  <2>3. Moves(r, s)
    BY <1>3, <1>5, <2>1, <2>2 DEF Moves, Send, ClientRecord, Waits
  <2> HIDE DEF s
  <2> QED
    BY <2>1, <2>3 DEF gameVars
<1>12. CASE ReceivePing(c)
  <2> DEFINE s == Revived(r)
  <2>1. client' = [client EXCEPT ![c] = s] /\ UNCHANGED <<members, gameVars>> /\ r.queue # <<>>
    BY <1>12 DEF ReceivePing
  <2>2. Moves(r, s)
    BY <1>1, <1>3, <1>4, <2>1 DEF Moves, Revived, Error, Received, PopResponse, ClientRecord
  <2> QED
    BY <2>1, <2>2 DEF gameVars
<1>13. ASSUME NEW t \in ClientRecord, t.wire = <<>>, t.queue = <<>>, t.pending = r.pending,
              r.errors \subseteq t.errors, NEW left, Terminate(c, t, left)
       PROVE  \E s : client' = [client EXCEPT ![c] = s] /\ Moves(r, s)
                     /\ UNCHANGED <<members, playing, over, stepped>>
  <2> DEFINE s == [t EXCEPT !.app = IF left = "gone" THEN "timeout" ELSE "timeout_zombie",
                            !.errors = @ \cup {"SC2ProtocolTimeout", "SC2AppFailure"}, !.stage = "lost"]
  <2>1. client' = [client EXCEPT ![c] = s] /\ UNCHANGED <<members, playing, over, stepped>>
    BY <1>13 DEF Terminate
  <2>2. Moves(r, s)
    BY <1>13 DEF Moves, ClientRecord
  <2> QED
    BY <2>1, <2>2
<1>14. CASE Unreachable(c)
  BY <1>1, <1>5, <1>13, <1>14 DEF Unreachable
<1>15. CASE GiveUpPing(c)
  <2>1. "lost" \in Stages
    BY DEF Stages, Results
  <2>2. /\ Abandoned(r, "lost") \in ClientRecord /\ Abandoned(r, "lost").wire = <<>>
        /\ Abandoned(r, "lost").queue = <<>> /\ Abandoned(r, "lost").pending = r.pending
    BY <1>1, <2>1, AbandonedFields
  <2>3. r.errors \subseteq Abandoned(r, "lost").errors
    BY <1>1 DEF Abandoned, Disconnect, ClientRecord
  <2> QED
    BY <1>13, <1>15, <2>2, <2>3 DEF GiveUpPing
<1> QED
  BY <1>7, <1>8, <1>9, <1>10, <1>11, <1>12, <1>14, <1>15 DEF WaitStep

(* What an answer does, ...                                                   *)
LEMMA AnswerFields ==
  ASSUME IInv, NEW c \in members, NEW verdict \in Verdicts, Answer(c, verdict)
  PROVE  LET r == client[c]
             s == client'[c]
             k == Head(r.wire)
         IN  /\ c \in Clients /\ r.wire # <<>> /\ k = r.pending /\ k \in Kinds /\ r.queue = <<>>
             /\ client' = [client EXCEPT ![c] = s]
             /\ s.wire = <<>> /\ s.queue # <<>>
             /\ Head(s.queue) = [kind |-> k, status |-> playing'[c], verdict |-> verdict]
             /\ s.stage = r.stage /\ s.app = r.app /\ s.status = r.status /\ s.pending = r.pending
             /\ s.errors = r.errors /\ s.link = r.link
             /\ playing' = [playing EXCEPT ![c] = IF verdict = "done" THEN StatusAfter(c, k) ELSE playing[c]]
             /\ members' = members /\ process' = process
<1> DEFINE r == client[c]
           k == Head(r.wire)
           status == IF verdict = "done" THEN StatusAfter(c, k) ELSE playing[c]
           response == [kind |-> k, status |-> status, verdict |-> verdict]
           s == Answered(r, response)
<1>1. c \in Clients /\ Sound(r) /\ r \in ClientRecord /\ r.wire # <<>> /\ playing \in [Clients -> Statuses]
  BY DEF IInv, Surroundings, Sound, Answer, Heard
<1>2. r.wire \in Seq(Kinds) /\ r.queue \in Seq(Responses) /\ Len(r.wire) + Len(r.queue) <= 1
  BY <1>1 DEF Sound, ClientRecord, OneAtMost
<1>3. Len(r.wire) = 1 /\ Len(r.queue) = 0
  <2>1. Len(r.wire) \in Nat /\ Len(r.wire) # 0 /\ Len(r.queue) \in Nat
    BY <1>1, <1>2, Lengths
  <2>2. ASSUME NEW a \in Nat, NEW b \in Nat, a # 0, a + b <= 1 PROVE a = 1 /\ b = 0
    BY <2>2
  <2> QED
    BY <1>2, <2>1, <2>2
<1>4. /\ r.queue = <<>> /\ Tail(r.wire) = <<>> /\ k \in Kinds /\ k = r.wire[1] /\ 1 \in DOMAIN r.wire
  BY <1>2, <1>3, Lengths
<1>5. k = r.pending
  BY <1>1, <1>4 DEF Sound, Matched
<1>6. /\ client' = [client EXCEPT ![c] = s] /\ playing' = [playing EXCEPT ![c] = status]
      /\ members' = members /\ process' = process
  BY DEF Answer
<1>7. client'[c] = s /\ playing'[c] = status
  BY <1>1, <1>6 DEF IInv
<1>8. /\ s.wire = Tail(r.wire) /\ s.queue = Append(r.queue, response)
      /\ s.stage = r.stage /\ s.app = r.app /\ s.status = r.status /\ s.pending = r.pending
      /\ s.errors = r.errors /\ s.link = r.link
  BY <1>1 DEF Answered, PushResponse, ClientRecord
<1> HIDE DEF s, status
<1>9. s.queue # <<>> /\ Head(s.queue) = response
  <2> HIDE DEF response
  <2>1. Append(<<>>, response) = <<response>> /\ <<response>> # <<>> /\ Head(<<response>>) = response
    OBVIOUS
  <2> QED
    BY <1>4, <1>8, <2>1
<1> QED
  BY <1>1, <1>4, <1>5, <1>6, <1>7, <1>8, <1>9 DEF status

(* ... and the end of a connection.                                           *)
LEMMA CloseFields ==
  ASSUME IInv, NEW c \in members, Close(c)
  PROVE  LET r == client[c]
             s == client'[c]
         IN  /\ c \in Clients /\ client' = [client EXCEPT ![c] = s]
             /\ s.wire = <<>> /\ s.queue = r.queue /\ s.errors = r.errors \cup {"ConnectionClosed"}
             /\ s.stage = r.stage /\ s.app = r.app /\ s.status = r.status /\ s.pending = r.pending
             /\ UNCHANGED <<members, gameVars>>
<1>1. c \in Clients /\ client[c] \in ClientRecord /\ client = [d \in Clients |-> client[d]]
  BY DEF IInv, Surroundings, Sound
<1> QED
  BY <1>1 DEF Close, Closed, Error, ClientRecord

LEMMA KnownInit == ControlInit => AllKnow
<1>1. ASSUME ControlInit, NEW c \in Clients PROVE Knows(client[c], playing[c])
  BY <1>1 DEF ControlInit, Attached, Knows
<1> QED
  BY <1>1 DEF AllKnow

LEMMA KnownStep == IInv /\ AllKnow /\ [ControlNext]_controlVars => AllKnow'
<1> SUFFICES ASSUME IInv, AllKnow, [ControlNext]_controlVars, NEW d \in Clients
             PROVE  Knows(client'[d], playing'[d])
  BY DEF AllKnow
<1>1. /\ Sound(client[d]) /\ Knows(client[d], playing[d]) /\ members \subseteq Clients
      /\ playing = [c \in Clients |-> playing[c]] /\ client = [c \in Clients |-> client[c]]
  BY DEF IInv, AllKnow, Surroundings
<1>2. CASE Use
  <2>1. playing' = playing
    BY <1>2 DEF Use, gameVars
  <2>2. CASE client'[d] = client[d]
    BY <1>1, <2>1, <2>2
  <2>3. ASSUME NEW reached \in BOOLEAN, Used(client[d], client'[d], reached) PROVE Knows(client'[d], playing'[d])
    BY <1>1, <2>1, <2>3, UsedFields DEF Knows, Waits
  <2> QED
    BY <1>2, <2>2, <2>3 DEF Use, Reachable
<1>3. ASSUME NEW c \in members, WaitStep(c) PROVE Knows(client'[d], playing'[d])
  <2>1. /\ Moves(client[c], client'[c]) /\ client' = [client EXCEPT ![c] = client'[c]]
        /\ playing' = playing /\ c \in Clients
    BY <1>1, <1>3, MovedOn
  <2>2. CASE d = c
    BY <1>1, <2>1, <2>2 DEF Moves, Knows
  <2>3. CASE d # c
    BY <1>1, <2>1, <2>3
  <2> QED
    BY <2>2, <2>3
<1>4. ASSUME NEW c \in members, NEW verdict \in Verdicts, Answer(c, verdict) PROVE Knows(client'[d], playing'[d])
  <2>1. CASE d = c
    <3>1. /\ client[c].wire # <<>> /\ client'[c].queue # <<>> /\ client'[c].app = client[c].app
          /\ Head(client'[c].queue).status = playing'[c]
      <4> DEFINE response == [kind |-> Head(client[c].wire), status |-> playing'[c], verdict |-> verdict]
      <4>1. response.status = playing'[c]
        OBVIOUS
      <4> HIDE DEF response
      <4>2. /\ client[c].wire # <<>> /\ client'[c].queue # <<>> /\ client'[c].app = client[c].app
            /\ Head(client'[c].queue) = response
        BY <1>4, AnswerFields DEF response
      <4> QED
        BY <4>1, <4>2
    <3> QED
      BY <1>1, <2>1, <3>1 DEF Knows
  <2>2. CASE d # c
    BY <1>1, <1>4, <2>2, AnswerFields
  <2> QED
    BY <2>1, <2>2
<1>5. ASSUME NEW c \in members, Close(c) PROVE Knows(client'[d], playing'[d])
  <2>1. /\ client' = [client EXCEPT ![c] = client'[c]] /\ playing' = playing /\ c \in Clients
        /\ client'[c].wire = <<>> /\ client'[c].queue = client[c].queue
        /\ client'[c].stage = client[c].stage /\ client'[c].app = client[c].app
        /\ client'[c].status = client[c].status
    BY <1>5, CloseFields DEF gameVars
  <2>2. CASE d = c
    BY <1>1, <2>1, <2>2 DEF Knows
  <2>3. CASE d # c
    BY <1>1, <2>1, <2>3
  <2> QED
    BY <2>2, <2>3
<1>6. CASE Decided \/ (\E c \in members \cap Faulty, left \in {"gone", "zombie"} : Crash(c, left)) \/ UNCHANGED controlVars
  BY <1>1, <1>6 DEF Decided, Crash, controlVars, gameVars
<1> QED
  BY <1>2, <1>3, <1>4, <1>5, <1>6 DEF ControlNext, GameStep

(* Without an error a client is connected, what is pending is on its way or   *)
(* there, and no response has been lost.                                      *)
Flies(r) ==
    r.errors = {} =>
        /\ r.link = "open" /\ (r.pending # "none" => r.wire # <<>> \/ r.queue # <<>>)
        /\ r.stage # "lost"

AllFly == \A c \in Clients : Flies(client[c])

LEMMA FliesInit == ControlInit => AllFly
BY DEF ControlInit, AllFly, Flies, Attached

LEMMA FliesStep == IInv /\ AllFly /\ [ControlNext]_controlVars => AllFly'
<1> SUFFICES ASSUME IInv, AllFly, [ControlNext]_controlVars, NEW d \in Clients
             PROVE  Flies(client'[d])
  BY DEF AllFly, Flies
<1>1. /\ Sound(client[d]) /\ Flies(client[d]) /\ members \subseteq Clients /\ client = [c \in Clients |-> client[c]]
  BY DEF IInv, AllFly, Surroundings
<1>2. CASE Use
  <2>1. CASE client'[d] = client[d]
    BY <1>1, <2>1
  <2>2. ASSUME NEW reached \in BOOLEAN, Used(client[d], client'[d], reached) PROVE Flies(client'[d])
    BY <1>1, <2>2, UsedFields DEF Flies, OwesThen
  <2> QED
    BY <1>2, <2>1, <2>2 DEF Use, Reachable
<1>3. ASSUME NEW c \in members, WaitStep(c) PROVE Flies(client'[d])
  <2>1. Moves(client[c], client'[c]) /\ client' = [client EXCEPT ![c] = client'[c]] /\ c \in Clients
    BY <1>1, <1>3, MovedOn
  <2>2. CASE d = c
    <3>1. SUFFICES ASSUME client'[c].errors = {}
                   PROVE  /\ client'[c].link = "open" /\ (client'[c].pending # "none" => client'[c].wire # <<>>)
                          /\ client'[c].stage # "lost"
      BY <2>2 DEF Flies
    <3>2. client[c].errors = {} /\ client[c].link = "open"
      BY <1>1, <2>1, <2>2, <3>1 DEF Moves, Flies
    <3>3. client[c].stage \in Waits
      BY <1>3 DEF WaitStep, Receive, TimeOut, GiveUp, Crashed, Ping, ReceivePing, Unreachable, GiveUpPing, Waits
    <3>4. client[c].pending # "none"
      BY <1>1, <2>2, <3>3 DEF Sound, Owing
    <3>5. client[c].wire # <<>> \/ client[c].queue # <<>>
      BY <1>1, <2>2, <3>2, <3>4 DEF Flies
    <3> QED
      BY <2>1, <3>1, <3>2, <3>5 DEF Moves
  <2>3. CASE d # c
    BY <1>1, <2>1, <2>3
  <2> QED
    BY <2>2, <2>3
<1>4. ASSUME NEW c \in members, NEW verdict \in Verdicts, Answer(c, verdict) PROVE Flies(client'[d])
  <2>1. CASE d = c
    BY <1>1, <1>4, <2>1, AnswerFields DEF Flies
  <2>2. CASE d # c
    BY <1>1, <1>4, <2>2, AnswerFields
  <2> QED
    BY <2>1, <2>2
<1>5. ASSUME NEW c \in members, Close(c) PROVE Flies(client'[d])
  <2>1. client' = [client EXCEPT ![c] = client'[c]] /\ client'[c].errors # {} /\ c \in Clients
    BY <1>5, CloseFields
  <2>2. CASE d = c
    BY <2>1, <2>2 DEF Flies
  <2>3. CASE d # c
    BY <1>1, <2>1, <2>3
  <2> QED
    BY <2>2, <2>3
<1>6. CASE Decided \/ (\E c \in members \cap Faulty, left \in {"gone", "zombie"} : Crash(c, left)) \/ UNCHANGED controlVars
  BY <1>1, <1>6 DEF Decided, Crash, controlVars, gameVars
<1> QED
  BY <1>2, <1>3, <1>4, <1>5, <1>6 DEF ControlNext, GameStep
-------------------------------------------------------------------------------
(* Where the coordinator is with an agent it waits for nothing from, ...      *)
Resting == {"ready", "done", "events", "calling", "ending"}

(* ... and with one it steps.                                                 *)
Working == {"stepping", "events", "calling", "acting", "layering", "ending"}

Quiet(c) ==
    \/ at[c] \in Resting \/ c \notin members
    \/ phase \in {"verdict", "stopped", "left"}
    \/ phase = "create" /\ c # 1

(* What may be pending of an agent nobody waits for: nothing, or a leave that *)
(* was asked for when it was done.                                            *)
Cleared(r) == r.stage = "free" /\ r.app = "normal" => r.pending = "none"

MayOwe(place, p) ==
    IF mode.ports /\ place \notin Working /\ p \notin {"await", "observe"}
    THEN {"none", "leave"} ELSE {"none"}

Settled(r, place, p) == r.stage = "free" /\ r.app = "normal" => r.pending \in MayOwe(place, p)

(* The joins are asked for in one phase, and waited for in the next.          *)
OwesJoin(c) ==
    c \in members /\ ((phase = "join" /\ at[c] = "done") \/ (phase = "await" /\ at[c] = "ready"))

Placed(c) ==
    /\ at[c] \in Working => phase \in {"update", "serial", "exited"}
    /\ at[c] = "leaving" => phase \in {"update", "serial", "drain", "left", "exited"}

Coordinated ==
    /\ mode \in Modes /\ members = 1..mode.agents
    /\ at = [c \in Clients |-> at[c]]
    /\ \A c \in Clients :
          /\ Placed(c)
          /\ Quiet(c) => client[c].stage = "free"
          /\ OwesJoin(c) => client[c].pending = "join" /\ client[c].app = "normal"
          /\ c \in members /\ ~OwesJoin(c) /\ phase # "exited" => Settled(client[c], at[c], phase)

CInv == IInv /\ Coordinated

(* What becomes of a client in one go: nothing, or a use of the interface.    *)
UsedWell(c, s) == s = client[c] \/ \E reached \in Reachable(c) : Used(client[c], s, reached)

-------------------------------------------------------------------------------
LEMMA Members ==
  ASSUME CInv
  PROVE  members \subseteq Clients /\ 1 \in members
<1>1. mode.agents \in Clients
  BY ModesAssumption DEF CInv, Coordinated, Mode
<1>2. Clients \subseteq Nat \ {0}
  BY ClientsAssumption DEF Clients
<1> QED
  BY <1>1, <1>2, ClientsAssumption DEF CInv, Coordinated, Clients

(* A step at one client is a use of the interface.                            *)
LEMMA OneUse ==
  ASSUME CInv, NEW c \in Clients, NEW s, UsedWell(c, s), client' = [client EXCEPT ![c] = s],
         UNCHANGED <<members, gameVars>>
  PROVE  Use
<1>1. client' = [d \in Clients |-> IF d = c THEN s ELSE client[d]]
  BY DEF CInv, IInv
<1>2. ASSUME NEW d \in Clients
      PROVE  client'[d] = client[d] \/ \E reached \in Reachable(d) : Used(client[d], client'[d], reached)
  <2>1. CASE d = c
    BY <1>1, <2>1 DEF UsedWell
  <2>2. CASE d # c
    BY <1>1, <2>2
  <2> QED
    BY <2>1, <2>2
<1>3. client' = [d \in Clients |-> client'[d]]
  BY <1>1
<1> QED
  BY <1>2, <1>3 DEF Use

(* The coordinator goes on with one agent.                                    *)
LEMMA OneAgent ==
  ASSUME CInv, NEW c \in members, NEW s, NEW p,
         client' = [client EXCEPT ![c] = s], at' = [at EXCEPT ![c] = p],
         UNCHANGED <<members, gameVars, mode, phase>>, UsedWell(c, s),
         phase \in {"await", "observe", "update", "serial", "leave", "drain"},
         phase = "await" => p # "ready",
         p \in Working => phase \in {"update", "serial"},
         p = "leaving" => phase \in {"update", "serial", "drain"},
         p \in Resting => s.stage = "free",
         Settled(s, p, phase)
  PROVE  Use /\ Coordinated'
<1>1. c \in Clients
  BY Members
<1>2. Use
  BY <1>1, OneUse
<1>3. /\ client' = [d \in Clients |-> IF d = c THEN s ELSE client[d]]
      /\ at' = [d \in Clients |-> IF d = c THEN p ELSE at[d]]
  BY DEF CInv, IInv, Coordinated
<1>4. ASSUME NEW d \in Clients
      PROVE  /\ Placed(d)'
             /\ Quiet(d)' => client'[d].stage = "free"
             /\ OwesJoin(d)' => client'[d].pending = "join" /\ client'[d].app = "normal"
             /\ d \in members' /\ ~OwesJoin(d)' /\ phase' # "exited" => Settled(client[d], at[d], phase)'
  <2>1. CASE d = c
    BY <1>3, <2>1 DEF Placed, Quiet, OwesJoin, Settled, MayOwe
  <2>2. CASE d # c
    <3>1. client'[d] = client[d] /\ at'[d] = at[d]
      BY <1>3, <2>2
    <3> QED
      BY <3>1 DEF CInv, Coordinated, Placed, Quiet, OwesJoin, Settled, MayOwe
  <2> QED
    BY <2>1, <2>2
<1>5. at' = [d \in Clients |-> at'[d]]
  BY <1>3
<1>6. mode' \in Modes /\ members' = 1..mode'.agents
  BY DEF CInv, Coordinated
<1> QED
  BY <1>2, <1>4, <1>5, <1>6 DEF Coordinated

(* ... with it stopping there and then, or nothing done to the client.        *)
LEMMA Unmoved ==
  ASSUME CInv, NEW c \in Clients
  PROVE  /\ client = [client EXCEPT ![c] = client[c]] /\ at = [at EXCEPT ![c] = at[c]]
         /\ UsedWell(c, client[c])
  BY DEF CInv, IInv, Coordinated, UsedWell

LEMMA SoundClients ==
  ASSUME CInv, NEW c \in members
  PROVE  c \in Clients /\ Sound(client[c])
  BY Members DEF CInv, IInv

-------------------------------------------------------------------------------
(* What a use of the interface makes of a client.                             *)
LEMMA Takes ==
  ASSUME NEW r, Sound(r), r.stage \in Results \cup {"free"}
  PROVE  /\ Sound(Taken(r)) /\ Taken(r).stage = "free"
         /\ Taken(r).app = r.app /\ Taken(r).pending = r.pending
         /\ r.stage \in Results => Taken(r) = Returned(r) /\ Cleared(Returned(r))
<1>1. Sound(Taken(r)) /\ Taken(r).app = r.app /\ Taken(r).pending = r.pending
  BY TakenSound
<1>2. Taken(r).stage = "free"
  BY DEF Sound, Taken, Returned, ClientRecord, Results
<1>3. ASSUME r.stage \in Results PROVE Taken(r) = Returned(r) /\ Cleared(Returned(r))
  <2>1. Taken(r) = Returned(r)
    BY <1>3 DEF Taken
  <2>2. r.app = "normal" => r.pending = "none"
    BY <1>3 DEF Sound, Owing
  <2> QED
    BY <1>1, <2>1, <2>2 DEF Cleared
<1> QED
  BY <1>1, <1>2, <1>3

LEMMA Asks ==
  ASSUME NEW r, Sound(r), r.stage = "free", NEW k \in Requests, NEW reached \in BOOLEAN
  PROVE  /\ Accepts(r, reached) =>
                /\ SendAndWait(r, k, reached).stage = "waiting"
                /\ r.app = "normal" /\ r.pending = "none"
                /\ SendAndWait(r, k, reached) = WaitFor(SendRequest(r, k, reached), k)
         /\ ~Accepts(r, reached) =>
                /\ SendAndWait(r, k, reached) = SendRequest(r, k, reached)
                /\ SendRequest(r, k, reached).pending = r.pending
         /\ Accepts(r, reached) => SendRequest(r, k, reached).pending = k
         /\ SendRequest(r, k, reached).stage = "free" /\ SendRequest(r, k, reached).app = r.app
         /\ r.pending = "none" => Accepts(r, reached)
<1>1. k \in Kinds
  BY DEF Kinds
<1>2. /\ Sound(SendRequest(r, k, reached)) /\ SendRequest(r, k, reached).stage = "free"
      /\ SendRequest(r, k, reached).app = r.app
      /\ SendRequest(r, k, reached).pending = IF Accepts(r, reached) THEN k ELSE r.pending
  BY <1>1, SendRequestSound
<1>3. r.pending = "none" => r.app = "normal" /\ r.link # "none"
  BY DEF Sound, Owing
<1>4. WaitFor(SendRequest(r, k, reached), k).stage = "waiting"
  BY <1>2 DEF WaitFor, Sound, ClientRecord
<1> QED
  BY <1>2, <1>3, <1>4 DEF SendAndWait, Accepts, HasResponsePending

LEMMA ClearedAfter ==
  ASSUME NEW r, NEW s, s.stage # "free" \/ (s.app = r.app /\ s.pending = r.pending), Cleared(r), r.stage = "free"
  PROVE  Cleared(s)
  BY DEF Cleared

(* It may owe what it did before, or a leave as well, unless it is at work.   *)
LEMMA SettledThen ==
  ASSUME NEW r, NEW place, NEW p, NEW q, NEW then,
         \/ Cleared(r)
         \/ /\ Settled(r, place, p) /\ then \notin {"await", "observe"}
            /\ q \in Working => place \in Working
  PROVE  Settled(r, q, then)
  BY DEF Cleared, Settled, MayOwe

-------------------------------------------------------------------------------
(* What the coordinator does with one agent.                                  *)
LEMMA Observes ==
  ASSUME CInv, NEW c \in members, NEW then \in {"done", "events", "calling"},
         phase \in {"observe", "update", "serial"}, then # "done" => phase # "observe",
         client[c].stage \in Results \cup {"free"}, Cleared(Taken(client[c])),
         GetObservation(c, then), UNCHANGED phase, Stays
  PROVE  Use /\ Coordinated'
<1> DEFINE r == client[c]
           free == Taken(r)
<1>1. c \in Clients /\ Sound(r)
  BY SoundClients
<1>2. Sound(free) /\ free.stage = "free" /\ free.app = r.app /\ free.pending = r.pending
  BY <1>1, Takes
<1>3. PICK reached \in Reachable(c) :
        /\ client' = [client EXCEPT ![c] = IF r.app # "normal" THEN free ELSE SendAndWait(free, "observe", reached)]
        /\ at' = [at EXCEPT ![c] = IF r.app = "normal" /\ Accepts(r, reached) THEN "observing" ELSE then]
  BY DEF GetObservation, Becomes, Goes
<1> DEFINE s == IF r.app # "normal" THEN free ELSE SendAndWait(free, "observe", reached)
           p == IF r.app = "normal" /\ Accepts(r, reached) THEN "observing" ELSE then
<1>4. reached \in BOOLEAN /\ "observe" \in Requests
  BY DEF Reachable, Requests
<1>5. Accepts(r, reached) <=> Accepts(free, reached)
  <2>1. r.link = free.link
    BY <1>1 DEF Taken, Returned, Sound, ClientRecord
  <2> QED
    BY <1>2, <2>1 DEF Accepts, HasResponsePending
<1>6. UsedWell(c, s)
  BY <1>2, <1>4 DEF UsedWell, Used
<1>7. p \in Resting => s.stage = "free"
  BY <1>2, <1>4, <1>5, Asks DEF Resting
<1>8. Settled(s, p, phase)
  <2>1. s.stage # "free" \/ (s.app = free.app /\ s.pending = free.pending)
    BY <1>2, <1>4, Asks
  <2> HIDE DEF s
  <2>2. Cleared(s)
    BY <1>2, <2>1, ClearedAfter
  <2> QED
    BY <2>2, SettledThen
<1>9. /\ phase = "await" => p # "ready"
      /\ p \in Working => phase \in {"update", "serial"}
      /\ p = "leaving" => phase \in {"update", "serial", "drain"}
  BY DEF Working
<1>10. client' = [client EXCEPT ![c] = s] /\ at' = [at EXCEPT ![c] = p]
  BY <1>3
<1> HIDE DEF s, p, free
<1> QED
  BY <1>6, <1>7, <1>8, <1>9, <1>10, OneAgent DEF Stays

(* A wait has ended.                                                          *)
LEMMA TakesIt ==
  ASSUME CInv, NEW c \in members, NEW p,
         phase \in {"await", "observe", "update", "serial", "drain"},
         phase = "await" => p # "ready", p \in Working => phase \in {"update", "serial"}, p # "leaving",
         client[c].stage \in Results, Becomes(c, Returned(client[c])), Goes(c, p),
         UNCHANGED phase, Stays
  PROVE  Use /\ Coordinated'
<1> DEFINE r == client[c]
           s == Returned(r)
<1>1. c \in Clients /\ Sound(r)
  BY SoundClients
<1>2. s.stage = "free" /\ Settled(s, p, phase) /\ Taken(r) = s
  BY <1>1, Takes, SettledThen
<1>3. UsedWell(c, s)
  BY <1>2 DEF UsedWell, Used, Reachable
<1>4. client' = [client EXCEPT ![c] = s] /\ at' = [at EXCEPT ![c] = p]
  BY DEF Becomes, Goes
<1> HIDE DEF s
<1> QED
  BY <1>2, <1>3, <1>4, OneAgent DEF Stays

(* Only the place changes.                                                    *)
LEMMA GoesOn ==
  ASSUME CInv, NEW c \in members, NEW p,
         phase \in {"update", "serial"}, p # "leaving",
         p \in Resting => client[c].stage = "free", ~OwesJoin(c),
         p \in Working => at[c] \in Working,
         UNCHANGED client, Goes(c, p), UNCHANGED phase, Stays
  PROVE  Use /\ Coordinated'
<1>1. c \in Clients
  BY SoundClients
<1>2. client' = [client EXCEPT ![c] = client[c]] /\ UsedWell(c, client[c])
  BY <1>1, Unmoved
<1>3. Settled(client[c], p, phase)
  <2>1. Settled(client[c], at[c], phase)
    BY <1>1 DEF CInv, Coordinated
  <2> QED
    BY <2>1, SettledThen
<1> QED
  BY <1>2, <1>3, OneAgent DEF Stays, Goes

LEMMA WaitsFor ==
  ASSUME CInv, NEW c \in members, NEW p \in {"joining", "leaving"},
         phase \in {"await", "update", "serial", "drain"},
         p = "leaving" => phase # "await",
         client[c].stage = "free", client[c].app = "normal", HasResponsePending(client[c]),
         Becomes(c, WaitFor(client[c], client[c].pending)), Goes(c, p), UNCHANGED phase, Stays
  PROVE  Use /\ Coordinated'
<1> DEFINE r == client[c]
           s == WaitFor(r, r.pending)
<1>1. c \in Clients /\ Sound(r)
  BY SoundClients
<1>2. s.stage = "waiting" /\ Taken(r) = r
  BY <1>1 DEF WaitFor, Sound, ClientRecord, Taken, Results
<1>3. UsedWell(c, s)
  BY <1>2 DEF UsedWell, Used, Reachable
<1>4. client' = [client EXCEPT ![c] = s] /\ at' = [at EXCEPT ![c] = p]
  BY DEF Becomes, Goes
<1>5. Settled(s, p, phase) /\ p \notin Resting /\ p \notin Working
  BY <1>2 DEF Settled, Resting, Working
<1> HIDE DEF s
<1> QED
  BY <1>3, <1>4, <1>5, OneAgent DEF Stays

(* A client nobody waits for is asked of something that may stay pending, or  *)
(* has an error added to it.                                                  *)
LEMMA TurnsTo ==
  ASSUME CInv, NEW c \in members, NEW s, NEW p \in {"done", "calling"},
         phase \in {"update", "serial", "leave"}, p = "calling" => phase # "leave" /\ Cleared(s),
         client[c].stage = "free",
         \/ s = client[c] \/ s = Error(client[c], "ResponseNotConsumed")
         \/ mode.ports /\ \E reached \in Reachable(c) : s = SendRequest(client[c], "leave", reached),
         Becomes(c, s), Goes(c, p), UNCHANGED phase, Stays
  PROVE  Use /\ Coordinated'
<1> DEFINE r == client[c]
<1>1. c \in Clients /\ Sound(r) /\ Settled(r, at[c], phase) /\ Taken(r) = r
  <2>1. c \in Clients /\ Sound(r)
    BY SoundClients
  <2> QED
    BY <2>1 DEF CInv, Coordinated, OwesJoin, Taken, Results
<1>2. "leave" \in Requests
  BY DEF Requests
<1>3. UsedWell(c, s)
  <2>1. CASE s = r
    BY <2>1 DEF UsedWell
  <2>2. CASE s = Error(r, "ResponseNotConsumed")
    <3>1. Used(r, s, FALSE)
      BY <1>1, <2>2 DEF Used
    <3> QED
      BY <3>1 DEF UsedWell, Reachable
  <2>3. ASSUME NEW reached \in Reachable(c), s = SendRequest(r, "leave", reached) PROVE UsedWell(c, s)
    <3>1. Used(r, s, reached)
      BY <1>1, <1>2, <2>3 DEF Used
    <3> QED
      BY <3>1 DEF UsedWell
  <2> QED
    BY <2>1, <2>2, <2>3
<1>4. s.stage = "free" /\ (p = "done" => Settled(s, p, phase))
  <2>1. CASE s = r
    BY <1>1, <2>1, SettledThen DEF Working
  <2>2. CASE s = Error(r, "ResponseNotConsumed")
    <3>1. s.stage = "free" /\ s.app = r.app /\ s.pending = r.pending
      BY <1>1, <2>2 DEF Error, Sound, ClientRecord
    <3>2. Settled(s, at[c], phase)
      BY <1>1, <3>1 DEF Settled
    <3> QED
      BY <3>1, <3>2, SettledThen DEF Working
  <2>3. ASSUME mode.ports, NEW reached \in Reachable(c), s = SendRequest(r, "leave", reached)
        PROVE  s.stage = "free" /\ (p = "done" => Settled(s, p, phase))
    <3>1. reached \in BOOLEAN
      BY DEF Reachable
    <3>2. s.stage = "free" /\ s.app = r.app /\ s.pending \in {"leave", r.pending}
      BY <1>1, <1>2, <2>3, <3>1, Asks
    <3> QED
      BY <1>1, <2>3, <3>2 DEF Settled, MayOwe, Working
  <2> QED
    BY <2>1, <2>2, <2>3
<1>5. client' = [client EXCEPT ![c] = s] /\ at' = [at EXCEPT ![c] = p]
  BY DEF Becomes, Goes
<1>6. p \in Working => phase \in {"update", "serial"}
  BY DEF Working
<1>7. Settled(s, p, phase)
  BY <1>4, SettledThen
<1> QED
  BY <1>3, <1>4, <1>5, <1>6, <1>7, OneAgent DEF Stays

(* Nothing is done to any client.                                             *)
LEMMA Turns ==
  ASSUME CInv, UNCHANGED <<client, members, gameVars, mode>>, at' = [d \in Clients |-> at'[d]],
         \A d \in Clients :
            /\ Placed(d)' /\ (Quiet(d)' => Quiet(d) \/ client[d].stage = "free")
            /\ OwesJoin(d)' => OwesJoin(d)
            /\ d \in members /\ ~OwesJoin(d)' /\ phase' # "exited" => Settled(client[d], at'[d], phase')
  PROVE  Use /\ Coordinated'
<1>1. Use
  <2>1. client' = [d \in Clients |-> client'[d]]
    BY DEF CInv, IInv
  <2> QED
    BY <2>1 DEF Use
<1>2. mode' \in Modes /\ members' = 1..mode'.agents /\ mode' = mode /\ client' = client
  BY DEF CInv, Coordinated
<1>3. \A d \in Clients : Settled(client[d], at[d], phase)' <=> Settled(client[d], at'[d], phase')
  BY <1>2 DEF Settled, MayOwe
<1>4. ASSUME NEW d \in Clients
      PROVE  /\ Placed(d)'
             /\ Quiet(d)' => client'[d].stage = "free"
             /\ OwesJoin(d)' => client'[d].pending = "join" /\ client'[d].app = "normal"
             /\ d \in members' /\ ~OwesJoin(d)' /\ phase' # "exited" => Settled(client[d], at[d], phase)'
  BY <1>2, <1>3 DEF CInv, Coordinated
<1> QED
  BY <1>1, <1>2, <1>4 DEF Coordinated

LEMMA Exits ==
  ASSUME CInv, phase \in {"observe", "update"}, phase' = "exited", UNCHANGED <<client, at>>, Stays
  PROVE  Use /\ Coordinated'
<1>1. ASSUME NEW d \in Clients
      PROVE  Placed(d)' /\ (Quiet(d)' => Quiet(d)) /\ ~OwesJoin(d)'
  BY DEF CInv, Coordinated, Placed, Quiet, OwesJoin, Stays
<1>2. at' = [d \in Clients |-> at'[d]]
  BY DEF CInv, Coordinated
<1> QED
  BY <1>1, <1>2, Turns DEF Stays

LEMMA TakesObservationKeeps ==
  ASSUME CInv, NEW c \in members, NEW then \in {"done", "events", "calling"},
         phase \in {"observe", "update"}, then # "done" => phase = "update",
         TakesObservation(c, then), Stays
  PROVE  Use /\ Coordinated'
<1>1. CASE client[c].stage = "lost"
  BY <1>1, Exits DEF TakesObservation
<1>2. CASE client[c].stage # "lost"
  <2>1. then \in Working => phase \in {"update", "serial"}
    BY DEF Working
  <2> QED
    BY <1>2, <2>1, TakesIt DEF TakesObservation
<1> QED
  BY <1>1, <1>2

-------------------------------------------------------------------------------
(* An agent that asks to join, or fails to and ends it all.                   *)
LEMMA JoinKeeps ==
  ASSUME CInv, NEW c \in members, RequestJoinGame(c)
  PROVE  Use /\ Coordinated'
<1> DEFINE r == client[c]
<1>1. c \in Clients /\ Sound(r)
  BY SoundClients
<1>2. r.stage = "free" /\ phase = "join" /\ at[c] = "ready"
  BY <1>1 DEF CInv, Coordinated, Quiet, Resting, RequestJoinGame
<1>3. PICK reached \in Reachable(c) :
        /\ client' = [client EXCEPT ![c] = SendRequest(r, "join", reached)]
        /\ IF Accepts(r, reached) THEN Goes(c, "done") /\ phase' = phase ELSE at' = at /\ phase' = "exited"
  BY DEF RequestJoinGame, Becomes
<1> DEFINE s == SendRequest(r, "join", reached)
<1>4. reached \in BOOLEAN /\ "join" \in Requests
  BY DEF Reachable, Requests
<1>5. /\ s.stage = "free" /\ s.app = r.app
      /\ Accepts(r, reached) => s.pending = "join" /\ s.app = "normal"
  BY <1>1, <1>2, <1>4, Asks
<1>6. Use
  <2>1. Taken(r) = r
    BY <1>2 DEF Taken, Results
  <2>2. Used(r, s, reached)
    BY <1>2, <1>4, <2>1 DEF Used
  <2>3. UsedWell(c, s)
    BY <2>2 DEF UsedWell
  <2> HIDE DEF s
  <2>4. client' = [client EXCEPT ![c] = s] /\ UNCHANGED <<members, gameVars>>
    BY <1>3 DEF RequestJoinGame, Stays, s
  <2> QED
    BY <1>1, <2>3, <2>4, OneUse
<1>7. client' = [d \in Clients |-> IF d = c THEN s ELSE client[d]]
  BY <1>3 DEF CInv, IInv
<1>8. mode' = mode /\ members' = members
  BY DEF RequestJoinGame, Stays
<1> HIDE DEF s
<1>9. CASE Accepts(r, reached)
  <2>1. at' = [d \in Clients |-> IF d = c THEN "done" ELSE at[d]] /\ phase' = "join"
    BY <1>2, <1>3, <1>9 DEF CInv, Coordinated, Goes
  <2>2. ASSUME NEW d \in Clients
        PROVE  /\ Placed(d)'
               /\ Quiet(d)' => client'[d].stage = "free"
               /\ OwesJoin(d)' => client'[d].pending = "join" /\ client'[d].app = "normal"
               /\ d \in members' /\ ~OwesJoin(d)' /\ phase' # "exited" => Settled(client[d], at[d], phase)'
    <3>1. CASE d = c
      BY <1>5, <1>7, <1>8, <1>9, <2>1, <3>1 DEF Placed, Working, OwesJoin
    <3>2. CASE d # c
      <4>1. client'[d] = client[d] /\ at'[d] = at[d] /\ phase' = phase
        BY <1>2, <1>7, <2>1, <3>2
      <4> QED
        BY <1>8, <4>1 DEF CInv, Coordinated, Placed, Quiet, OwesJoin, Settled, MayOwe
    <3> QED
      BY <3>1, <3>2
  <2> QED
    BY <1>6, <1>8, <2>1, <2>2 DEF CInv, Coordinated
<1>10. CASE ~Accepts(r, reached)
  <2>1. at' = at /\ phase' = "exited"
    BY <1>3, <1>10
  <2>2. ASSUME NEW d \in Clients
        PROVE  /\ Placed(d)' /\ ~OwesJoin(d)'
               /\ Quiet(d)' => client'[d].stage = "free"
    <3>1. Quiet(d)' => Quiet(d)
      BY <1>8, <2>1 DEF Quiet
    <3> QED
      BY <1>5, <1>7, <2>1, <3>1 DEF CInv, Coordinated, Placed, OwesJoin
  <2> QED
    BY <1>6, <1>8, <2>1, <2>2 DEF CInv, Coordinated
<1> QED
  BY <1>9, <1>10

(* An agent that may have left.                                               *)
LEMMA PollsKeeps ==
  ASSUME CInv, NEW c \in members, phase \in {"update", "serial"}, at[c] = "ready",
         client[c].app = "normal", PollsLeave(c), UNCHANGED phase, Stays
  PROVE  Use /\ Coordinated'
<1>1. client[c].stage = "free"
  BY SoundClients DEF CInv, Coordinated, Quiet, Resting
<1>2. CASE Consumes(client[c])
  BY <1>1, <1>2, WaitsFor DEF PollsLeave, Consumes, HasResponsePending
<1>3. CASE ~Consumes(client[c])
  <2>1. PolledLeave(client[c]) = client[c] \/ PolledLeave(client[c]) = Error(client[c], "ResponseNotConsumed")
    BY DEF PolledLeave
  <2> QED
    BY <1>1, <1>3, <2>1, TurnsTo DEF PollsLeave
<1> QED
  BY <1>2, <1>3

(* ... and that has not: nothing is pending of it, so it can be asked.        *)
LEMMA StepKeeps ==
  ASSUME CInv, NEW c \in members, StepAgent(c)
  PROVE  Use /\ Coordinated'
<1> DEFINE r == client[c]
<1>1. c \in Clients /\ Sound(r)
  BY SoundClients
<1>2. /\ r.stage = "free" /\ phase = "update" /\ at[c] = "ready" /\ Settled(r, "ready", "update")
      /\ UNCHANGED phase /\ Stays
  BY <1>1 DEF CInv, Coordinated, Quiet, Resting, OwesJoin, StepAgent
<1>3. CASE UNCHANGED client /\ Goes(c, "done")
  BY <1>2, <1>3, GoesOn DEF OwesJoin, Working
<1>4. CASE r.app = "normal" /\ PollsLeave(c)
  BY <1>2, <1>4, PollsKeeps
<1>5. CASE /\ ~Leaves(r) /\ ~IsFinishedGame(PolledLeave(r))
           /\ IF mode.realtime THEN GetObservation(c, "events")
              ELSE \E reached \in Reachable(c) :
                    /\ Becomes(c, WaitFor(SendRequest(PolledLeave(r), "step", reached), "step"))
                    /\ Goes(c, "stepping")
  <2>1. r.app = "normal"
    <3>1. PolledLeave(r).app = r.app
      BY <1>1 DEF PolledLeave, Error, Sound, ClientRecord
    <3> QED
      BY <1>5, <3>1 DEF IsFinishedGame
  <2>2. r.pending = "none" /\ PolledLeave(r) = r
    <3>1. r.pending \in MayOwe("ready", "update")
      BY <1>2, <2>1 DEF Settled
    <3>2. r.pending = "none"
      BY <1>5, <3>1 DEF MayOwe, Leaves
    <3> QED
      BY <3>2 DEF PolledLeave
  <2>3. CASE mode.realtime
    <3>1. Taken(r) = r /\ Cleared(r)
      BY <1>2, <2>2 DEF Taken, Results, Cleared
    <3> QED
      BY <1>2, <1>5, <2>3, <3>1, Observes
  <2>4. CASE ~mode.realtime
    <3>1. PICK reached \in Reachable(c) :
            /\ Becomes(c, WaitFor(SendRequest(r, "step", reached), "step")) /\ Goes(c, "stepping")
      BY <1>5, <2>2, <2>4
    <3> DEFINE s == SendAndWait(r, "step", reached)
    <3>2. reached \in BOOLEAN /\ "step" \in Requests
      BY DEF Reachable, Requests
    <3>3. s = WaitFor(SendRequest(r, "step", reached), "step") /\ s.stage = "waiting"
      BY <1>1, <1>2, <2>2, <3>2, Asks
    <3>4. UsedWell(c, s)
      <4>1. Taken(r) = r
        BY <1>2 DEF Taken, Results
      <4>2. Used(r, s, reached)
        BY <1>2, <2>1, <3>2, <4>1 DEF Used
      <4> QED
        BY <4>2 DEF UsedWell
    <3>5. client' = [client EXCEPT ![c] = s] /\ at' = [at EXCEPT ![c] = "stepping"]
      BY <3>1, <3>3 DEF Becomes, Goes
    <3> HIDE DEF s
    <3> QED
      BY <1>2, <3>3, <3>4, <3>5, OneAgent DEF Stays, Settled, Resting
  <2> QED
    BY <2>3, <2>4
<1> QED
  BY <1>3, <1>4, <1>5 DEF StepAgent

LEMMA SerialKeeps ==
  ASSUME CInv, NEW c \in members, SerialStep(c)
  PROVE  Use /\ Coordinated'
<1> DEFINE r == client[c]
<1>1. /\ r.stage = "free" /\ phase = "serial" /\ at[c] = "ready"
      /\ UNCHANGED phase /\ Stays
  BY SoundClients DEF CInv, Coordinated, Quiet, Resting, SerialStep
<1>2. CASE UNCHANGED client /\ Goes(c, "done")
  BY <1>1, <1>2, GoesOn DEF OwesJoin, Working
<1>3. CASE r.app = "normal" /\ PollsLeave(c)
  BY <1>1, <1>3, PollsKeeps
<1>4. CASE r.app = "normal" /\ ~Leaves(r) /\ Becomes(c, PolledLeave(r)) /\ Goes(c, "calling")
  <2>1. Settled(r, at[c], phase)
    BY <1>1, SoundClients DEF CInv, Coordinated, OwesJoin
  <2>2. r.pending = "none"
    BY <1>1, <1>4, <2>1 DEF Settled, MayOwe, Leaves
  <2>3. PolledLeave(r) = r /\ Cleared(r)
    BY <2>2 DEF PolledLeave, Cleared
  <2> QED
    BY <1>1, <1>4, <2>3, TurnsTo
<1> QED
  BY <1>2, <1>3, <1>4 DEF SerialStep

(* The actions of a bot.                                                      *)
LEMMA ActKeeps ==
  ASSUME CInv, NEW c \in members, phase # "exited", SendActions(c)
  PROVE  Use /\ Coordinated'
<1> DEFINE r == client[c]
<1>1. c \in Clients /\ Sound(r) /\ AfterActions(c) \in {"ending", "layering", "done"}
  BY SoundClients DEF AfterActions
<1>2. r.stage = "free" /\ at[c] \in {"acting", "layering"} /\ UNCHANGED phase /\ Stays
  BY DEF SendActions, Idle
<1>3. phase \in {"update", "serial"}
  BY <1>1, <1>2 DEF CInv, Coordinated, Placed, Working
<1>4. ~OwesJoin(c) /\ Cleared(r)
  BY <1>1, <1>2, <1>3 DEF CInv, Coordinated, OwesJoin, Settled, MayOwe, Cleared, Working
<1>5. CASE UNCHANGED client /\ Goes(c, AfterActions(c))
  BY <1>1, <1>2, <1>3, <1>4, <1>5, GoesOn DEF Working
<1>6. ASSUME NEW reached \in Reachable(c), Becomes(c, SendAndWait(r, "act", reached)),
             IF Accepts(r, reached) THEN at' = at ELSE Goes(c, AfterActions(c))
      PROVE  Use /\ Coordinated'
  <2> DEFINE s == SendAndWait(r, "act", reached)
             p == IF Accepts(r, reached) THEN at[c] ELSE AfterActions(c)
  <2>1. reached \in BOOLEAN /\ "act" \in Requests
    BY DEF Reachable, Requests
  <2>2. /\ Accepts(r, reached) => r.app = "normal"
        /\ ~Accepts(r, reached) => s = SendRequest(r, "act", reached)
    BY <1>1, <1>2, <2>1, Asks
  <2>3. UsedWell(c, s)
    <3>1. Taken(r) = r
      BY <1>2 DEF Taken, Results
    <3>2. Used(r, s, reached)
      BY <1>2, <2>1, <2>2, <3>1 DEF Used
    <3> QED
      BY <3>2 DEF UsedWell
  <2>4. s.stage # "free" \/ (s.app = r.app /\ s.pending = r.pending)
    BY <1>1, <1>2, <2>1, Asks
  <2>5. ~Accepts(r, reached) => s.stage = "free"
    BY <1>1, <1>2, <2>1, Asks
  <2>6. client' = [client EXCEPT ![c] = s] /\ at' = [at EXCEPT ![c] = p]
    BY <1>1, <1>6, Unmoved DEF Becomes, Goes
  <2>7. p \in Resting => s.stage = "free"
    BY <1>2, <2>5 DEF Resting
  <2>8. p # "leaving"
    BY <1>1, <1>2
  <2> HIDE DEF s, p
  <2>9. Settled(s, p, phase)
    <3>1. Cleared(s)
      BY <1>2, <1>4, <2>4, ClearedAfter
    <3> QED
      BY <3>1, SettledThen
  <2> QED
    BY <1>2, <1>3, <2>3, <2>6, <2>7, <2>8, <2>9, OneAgent DEF Stays
<1> QED
  BY <1>5, <1>6 DEF SendActions

LEMMA AgentKeeps ==
  ASSUME CInv, NEW c \in members, phase # "exited", AgentStep(c)
  PROVE  Use /\ Coordinated'
<1> DEFINE r == client[c]
<1>1. c \in Clients /\ Sound(r)
  BY SoundClients
<1>2. /\ Placed(c) /\ (Quiet(c) => r.stage = "free")
      /\ OwesJoin(c) => r.pending = "join" /\ r.app = "normal"
      /\ ~OwesJoin(c) => Settled(r, at[c], phase)
      /\ at[c] \in Resting => r.stage = "free"
  BY <1>1 DEF CInv, Coordinated, Quiet
<1>3. r.stage \in Results => phase # "left" /\ r.stage # "free"
  BY <1>2 DEF Quiet, Results
<1>4. ASSUME RequestJoinGame(c) PROVE Use /\ Coordinated'
  BY <1>4, JoinKeeps
<1>5. ASSUME WaitJoinGame(c) PROVE Use /\ Coordinated'
  <2>1. r.pending = "join" /\ r.app = "normal" /\ r.stage = "free"
    BY <1>2, <1>5 DEF WaitJoinGame, OwesJoin, Resting
  <2> QED
    BY <1>5, <2>1, WaitsFor DEF WaitJoinGame, HasResponsePending
<1>6. ASSUME Joined(c) PROVE Use /\ Coordinated'
  BY <1>6, TakesIt DEF Joined, Working
<1>7. ASSUME FirstObservation(c) PROVE Use /\ Coordinated'
  <2>1. r.stage = "free" /\ Taken(r) = r /\ Cleared(r)
    BY <1>2, <1>7 DEF FirstObservation, Resting, OwesJoin, Taken, Results, Settled, MayOwe, Cleared
  <2> QED
    BY <1>7, <2>1, Observes DEF FirstObservation
<1>8. ASSUME FirstObserved(c) PROVE Use /\ Coordinated'
  BY <1>8, TakesObservationKeeps DEF FirstObserved
<1>9. ASSUME StepAgent(c) PROVE Use /\ Coordinated'
  BY <1>2, <1>9, StepKeeps DEF StepAgent, Resting, OwesJoin
<1>10. AfterStep \in {"done", "events", "calling"}
  BY DEF AfterStep
<1>11. ASSUME Stepped(c) PROVE Use /\ Coordinated'
  <2>1. phase \in {"update", "serial"}
    BY <1>2, <1>11 DEF Stepped, Placed, Working
  <2>2. r.stage \in Results /\ Taken(r) = Returned(r) /\ Cleared(Returned(r))
    BY <1>1, <1>11, Takes DEF Stepped
  <2>3. CASE r.stage = "answered"
    BY <1>10, <1>11, <2>1, <2>2, <2>3, Observes DEF Stepped
  <2>4. CASE r.stage # "answered"
    BY <1>10, <1>11, <2>1, <2>2, <2>4, TakesIt DEF Stepped
  <2> QED
    BY <2>3, <2>4
<1>12. ASSUME Observed(c) PROVE Use /\ Coordinated'
  BY <1>10, <1>12, TakesObservationKeeps DEF Observed
<1>13. at[c] \in Working => phase \in {"update", "serial"}
  BY <1>2 DEF Placed
<1>14. ASSUME RealtimeEvents(c) PROVE Use /\ Coordinated'
  BY <1>13, <1>14, GoesOn DEF RealtimeEvents, Working, Resting, OwesJoin
<1>15. ASSUME End(c), at[c] \in {"calling", "ending"}, UNCHANGED phase, Stays PROVE Use /\ Coordinated'
  BY <1>2, <1>13, <1>15, TurnsTo DEF End, RequestLeaveGame, Working, Resting, Becomes
<1>16. ASSUME RealtimeEnd(c) PROVE Use /\ Coordinated'
  BY <1>2, <1>13, <1>15, <1>16, GoesOn DEF RealtimeEnd, Working, Resting, OwesJoin
<1>17. ASSUME CallOnStep(c) PROVE Use /\ Coordinated'
  BY <1>2, <1>13, <1>15, <1>17, GoesOn DEF CallOnStep, Working, Resting, OwesJoin
<1>18. ASSUME SendActions(c) PROVE Use /\ Coordinated'
  BY <1>18, ActKeeps
<1>19. AfterActions(c) \in {"ending", "layering", "done"}
  BY DEF AfterActions
<1>20. ASSUME ActionsSent(c) PROVE Use /\ Coordinated'
  <2>1. phase \in {"update", "serial"}
    BY <1>13, <1>20 DEF ActionsSent, Working
  <2> QED
    BY <1>19, <1>20, <2>1, TakesIt DEF ActionsSent
<1>21. ASSUME SerialStep(c) PROVE Use /\ Coordinated'
  BY <1>2, <1>21, SerialKeeps DEF SerialStep, Resting
<1>22. ASSUME LeaveResponse(c) PROVE Use /\ Coordinated'
  <2>1. phase \in {"update", "serial", "drain"}
    BY <1>2, <1>3, <1>22 DEF LeaveResponse, Placed
  <2> QED
    BY <1>22, <2>1, TakesIt DEF LeaveResponse, Working
<1>23. ASSUME AskToLeave(c) PROVE Use /\ Coordinated'
  BY <1>2, <1>23, TurnsTo DEF AskToLeave, RequestLeaveGame, Reachable, Resting
<1>24. ASSUME Drain(c) PROVE Use /\ Coordinated'
  BY <1>2, <1>24, WaitsFor DEF Drain, Owes, Resting
<1> QED
  BY <1>4, <1>5, <1>6, <1>7, <1>8, <1>9, <1>11, <1>12, <1>14, <1>16, <1>17, <1>18, <1>20, <1>21, <1>22,
     <1>23, <1>24 DEF AgentStep

-------------------------------------------------------------------------------
(* The first agent creates the game ...                                       *)
LEMMA CreateKeeps ==
  ASSUME CInv, CreateGame
  PROVE  Use /\ Coordinated'
<1> DEFINE r == client[1]
<1>1. 1 \in Clients /\ 1 \in members /\ Sound(r)
  BY Members, SoundClients
<1>2. r.stage = "free" /\ phase = "create" /\ at[1] = "ready"
  BY <1>1 DEF CInv, Coordinated, Quiet, Resting, OwesJoin, CreateGame
<1>3. PICK reached \in Reachable(1) :
        /\ client' = [client EXCEPT ![1] = SendAndWait(r, "create", reached)]
        /\ IF Accepts(r, reached) THEN Goes(1, "creating") /\ phase' = phase ELSE at' = at /\ phase' = "exited"
  BY DEF CreateGame, Becomes
<1> DEFINE s == SendAndWait(r, "create", reached)
<1>4. reached \in BOOLEAN /\ "create" \in Requests
  BY DEF Reachable, Requests
<1>5. /\ Accepts(r, reached) => s.stage = "waiting" /\ r.app = "normal"
      /\ ~Accepts(r, reached) => s.stage = "free" /\ s = SendRequest(r, "create", reached)
  BY <1>1, <1>2, <1>4, Asks
<1>6. Use
  <2>1. Taken(r) = r
    BY <1>2 DEF Taken, Results
  <2>2. Used(r, s, reached)
    BY <1>2, <1>4, <1>5, <2>1 DEF Used
  <2>3. UsedWell(1, s)
    BY <2>2 DEF UsedWell
  <2> HIDE DEF s
  <2>4. client' = [client EXCEPT ![1] = s] /\ UNCHANGED <<members, gameVars>>
    BY <1>3 DEF CreateGame, Stays, s
  <2> QED
    BY <1>1, <2>3, <2>4, OneUse
<1>7. client' = [d \in Clients |-> IF d = 1 THEN s ELSE client[d]]
  BY <1>3 DEF CInv, IInv
<1>8. mode' = mode /\ members' = members
  BY DEF CreateGame, Stays
<1> HIDE DEF s
<1>9. at' = [at EXCEPT ![1] = IF Accepts(r, reached) THEN "creating" ELSE "ready"]
  BY <1>1, <1>2, <1>3, Unmoved DEF Goes
<1>10. at' = [d \in Clients |-> IF d = 1 THEN IF Accepts(r, reached) THEN "creating" ELSE "ready" ELSE at[d]]
  BY <1>9 DEF CInv, Coordinated
<1>11. phase' = IF Accepts(r, reached) THEN "create" ELSE "exited"
  BY <1>2, <1>3
<1>12. ASSUME NEW d \in Clients
       PROVE  /\ Placed(d)' /\ ~OwesJoin(d)'
              /\ Quiet(d)' => client'[d].stage = "free"
              /\ d \in members /\ phase' # "exited" => Settled(client[d], at[d], phase)'
  <2>1. CASE d = 1
    BY <1>1, <1>5, <1>7, <1>8, <1>10, <1>11, <2>1 DEF Placed, Working, Quiet, Resting, OwesJoin, Settled
  <2>2. CASE d # 1
    <3>1. client'[d] = client[d] /\ at'[d] = at[d]
      BY <1>7, <1>10, <2>2
    <3>2. /\ Placed(d) /\ client[d].stage = "free"
          /\ d \in members => Settled(client[d], at[d], phase)
      BY <1>2, <2>2 DEF CInv, Coordinated, Quiet, OwesJoin
    <3> QED
      BY <1>2, <1>8, <1>11, <3>1, <3>2 DEF Placed, OwesJoin, Settled, MayOwe
  <2> QED
    BY <2>1, <2>2
<1> QED
  BY <1>6, <1>8, <1>10, <1>12 DEF CInv, Coordinated

LEMMA CreatedKeeps ==
  ASSUME CInv, GameCreated
  PROVE  Use /\ Coordinated'
<1> DEFINE r == client[1]
           s == Returned(r)
<1>1. 1 \in Clients /\ 1 \in members /\ Sound(r) /\ r.stage \in Results
  BY Members, SoundClients DEF GameCreated
<1>2. s.stage = "free" /\ Cleared(s) /\ Taken(r) = s
  BY <1>1, Takes
<1>3. client' = [client EXCEPT ![1] = s]
  BY DEF GameCreated, Becomes
<1>4. UsedWell(1, s)
  BY <1>2 DEF UsedWell, Used, Reachable
<1> HIDE DEF s
<1>5. Use
  BY <1>1, <1>3, <1>4, OneUse DEF GameCreated, Stays
<1>6. client' = [d \in Clients |-> IF d = 1 THEN s ELSE client[d]]
  BY <1>3 DEF CInv, IInv
<1>7. /\ mode' = mode /\ members' = members /\ phase = "create"
      /\ at' = [d \in Clients |-> "ready"] /\ phase' \in {"join", "exited"}
  BY DEF GameCreated, Stays, AllReady
<1>8. ASSUME NEW d \in Clients
      PROVE  /\ Placed(d)' /\ ~OwesJoin(d)' /\ client'[d].stage = "free"
             /\ d \in members /\ phase' # "exited" => Settled(client[d], at[d], phase)'
  <2>1. /\ client'[d].stage = "free"
        /\ d \in members /\ phase' # "exited" => Settled(client'[d], "ready", "join")
    <3>1. CASE d = 1
      BY <1>2, <1>6, <3>1, SettledThen
    <3>2. CASE d # 1
      <4>1. client'[d] = client[d] /\ client[d].stage = "free"
        BY <1>6, <1>7, <3>2 DEF CInv, Coordinated, Quiet
      <4>2. d \in members => Settled(client[d], at[d], phase)
        BY <1>7 DEF CInv, Coordinated, OwesJoin
      <4> QED
        BY <4>1, <4>2, SettledThen DEF Working
    <3> QED
      BY <3>1, <3>2
  <2> QED
    BY <1>7, <2>1 DEF Placed, Working, OwesJoin, Settled, MayOwe
<1> QED
  BY <1>5, <1>7, <1>8 DEF CInv, Coordinated

(* ... and a phase is over when all agents are done.                          *)
LEMMA NextKeeps ==
  ASSUME CInv, NEW p \in {"await", "observe", "update", "serial", "verdict", "drain"},
         Next(p), p = "await" <=> phase = "join", p = "observe" => phase = "await", phase # "exited", UNCHANGED client, Stays
  PROVE  Use /\ Coordinated'
<1>1. /\ at' = [d \in Clients |-> "ready"] /\ phase' = p /\ members' = members /\ mode' = mode
      /\ \A d \in members : at[d] = "done"
  BY DEF Next, AllReady, AllDone, Stays
<1>2. ASSUME NEW d \in Clients
      PROVE  /\ Placed(d)' /\ Quiet(d)
             /\ OwesJoin(d)' <=> OwesJoin(d)
  BY <1>1 DEF Placed, Working, Quiet, Resting, OwesJoin
<1>3. at' = [d \in Clients |-> at'[d]]
  BY <1>1
<1>4. ASSUME NEW d \in members, ~OwesJoin(d)' PROVE Settled(client[d], at'[d], phase')
  <2>1. d \in Clients /\ at[d] = "done" /\ at'[d] = "ready" /\ p # "await"
    BY <1>1, <1>4, Members DEF OwesJoin
  <2>2. Settled(client[d], "done", phase)
    BY <1>2, <1>4, <2>1 DEF CInv, Coordinated
  <2>3. phase = "await" => Cleared(client[d])
    BY <2>2 DEF Settled, MayOwe, Cleared
  <2> QED
    BY <1>1, <2>1, <2>2, <2>3, SettledThen DEF Working
<1> QED
  BY <1>1, <1>2, <1>3, <1>4, Turns DEF Stays

(* Where nothing is asked of anyone.                                          *)
LEMMA PhaseKeeps ==
  ASSUME CInv, phase \in {"verdict", "drain", "stopped", "left"} \/ (phase = "await" /\ AllDone),
         phase' \in {"stopped", "update", "leave", "left", "create"}, phase' = "left" => phase = "drain",
         phase = "await" => phase' = "stopped", phase' \in {"stopped", "update", "leave"} => phase \in {"verdict", "await"},
         phase = "drain" => \A d \in members : Idle(d),
         at' = at \/ AllReady, phase' = "create" => AllReady,
         UNCHANGED <<client, members, gameVars, mode>>
  PROVE  Use /\ Coordinated'
<1>1. ASSUME NEW d \in Clients
      PROVE  client[d].stage = "free"
  BY DEF CInv, Coordinated, Quiet, Resting, AllDone, Idle
<1>2. at' = [d \in Clients |-> at'[d]] /\ \A d \in Clients : at'[d] \in {at[d], "ready"}
  BY DEF CInv, Coordinated, AllReady
<1>3. ASSUME NEW d \in Clients
      PROVE  Placed(d)' /\ ~OwesJoin(d)' /\ ~OwesJoin(d)
  BY <1>2 DEF CInv, Coordinated, Placed, Working, OwesJoin, AllDone, AllReady
<1>4. ASSUME NEW d \in members PROVE Settled(client[d], at'[d], phase')
  <2>1. d \in Clients /\ Settled(client[d], at[d], phase)
    BY <1>3, Members DEF CInv, Coordinated
  <2>2. at'[d] \in Working => at[d] \in Working
    BY <1>2, <2>1 DEF Working
  <2> QED
    BY <2>1, <2>2, SettledThen
<1> QED
  BY <1>1, <1>2, <1>3, <1>4, Turns

LEMMA MainKeeps ==
  ASSUME CInv, MainStep \/ LeaveGame \/ PlayAgain
  PROVE  Use /\ Coordinated'
<1>1. CASE AllAsked
  BY <1>1, NextKeeps DEF AllAsked
<1>2. CASE AllJoined
  BY <1>2, NextKeeps, PhaseKeeps DEF AllJoined, Stays
<1>3. CASE OnGameStart
  BY <1>3, NextKeeps DEF OnGameStart
<1>4. CASE AllStepped
  BY <1>4, NextKeeps DEF AllStepped
<1>5. CASE Verdict
  BY <1>5, PhaseKeeps DEF Verdict, Stays
<1>6. CASE LeaveGame
  BY <1>6, PhaseKeeps DEF LeaveGame, Stays
<1>7. CASE AllAskedToLeave
  BY <1>7, NextKeeps DEF AllAskedToLeave
<1>8. CASE Drained
  BY <1>8, PhaseKeeps DEF Drained, Stays
<1>9. CASE PlayAgain
  BY <1>9, PhaseKeeps DEF PlayAgain
<1> QED
  BY <1>1, <1>2, <1>3, <1>4, <1>5, <1>6, <1>7, <1>8, <1>9, CreateKeeps, CreatedKeeps DEF MainStep

-------------------------------------------------------------------------------
(* A client has been asked for something while a response was pending.        *)
Quarrels(r, s) == "ResponseNotConsumed" \in s.errors \ r.errors

(* The steps of a wait, and of the games, are those of GameControl: they free *)
(* no client that is not, and what is pending changes in a wait only.         *)
LEMMA WaitFields ==
  ASSUME CInv, NEW c \in members, WaitStep(c)
  PROVE  /\ c \in Clients /\ client[c].stage \in Waits /\ client'[c].stage # "free"
         /\ ~Quarrels(client[c], client'[c])
         /\ \A d \in Clients \ {c} : client'[d] = client[d]
<1> DEFINE r == client[c]
<1>1. c \in Clients /\ r \in ClientRecord
  BY SoundClients DEF Sound
<1>2. client = [d \in Clients |-> client[d]]
  BY DEF CInv, IInv
<1>3. CASE Receive(c)
  BY <1>1, <1>2, <1>3 DEF Receive, Received, PopResponse, Mismatch, Error, ClientRecord, Waits, Quarrels
<1>4. CASE TimeOut(c)
  BY <1>1, <1>2, <1>4 DEF TimeOut, ClientRecord, Waits, Quarrels
<1>5. CASE GiveUp(c)
  BY <1>1, <1>2, <1>5 DEF GiveUp, Abandoned, Disconnect, Hangup, ClientRecord, Waits, Quarrels
<1>6. CASE Crashed(c)
  BY <1>1, <1>2, <1>6 DEF Crashed, Error, ClientRecord, Waits, Quarrels
<1>7. CASE Ping(c)
  <2> DEFINE sent == Send(Reconnect(r, TRUE), "ping")
  <2>1. DOMAIN sent = DOMAIN r
    BY <1>1 DEF Send, Reconnect, ClientRecord
  <2>2. "stage" \in DOMAIN sent /\ "errors" \in DOMAIN sent /\ sent.errors = r.errors
    BY <1>1, <2>1 DEF Send, Reconnect, ClientRecord
  <2>3. client' = [client EXCEPT ![c] = [sent EXCEPT !.stage = "pinging", !.status = "unknown"]]
    BY <1>7 DEF Ping
  <2> HIDE DEF sent
  <2> QED
    BY <1>1, <1>2, <1>7, <2>2, <2>3 DEF Ping, Waits, Quarrels
<1>8. CASE ReceivePing(c)
  <2> DEFINE got == Received(r)
  <2>1. /\ "stage" \in DOMAIN got /\ "errors" \in DOMAIN got
        /\ "ResponseNotConsumed" \in got.errors => "ResponseNotConsumed" \in r.errors
    BY <1>1 DEF Received, PopResponse, Mismatch, ClientRecord
  <2>2. client' = [client EXCEPT ![c] = [Error(got, "SC2UnknownStatus") EXCEPT !.stage = "lost"]]
    BY <1>8 DEF ReceivePing, Revived
  <2> HIDE DEF got
  <2> DEFINE s == [Error(got, "SC2UnknownStatus") EXCEPT !.stage = "lost"]
  <2>3. s.stage = "lost" /\ s.errors = got.errors \cup {"SC2UnknownStatus"}
    BY <2>1 DEF Error
  <2> HIDE DEF s
  <2>4. client' = [d \in Clients |-> IF d = c THEN s ELSE client[d]]
    BY <1>2, <2>2 DEF s
  <2>5. r.stage \in Waits
    BY <1>8 DEF ReceivePing, Waits
  <2>6. client'[c] = s
    BY <1>1, <2>4
  <2>7. ~Quarrels(r, s)
    BY <2>1, <2>3 DEF Quarrels
  <2> QED
    BY <1>1, <2>3, <2>4, <2>5, <2>6, <2>7
<1>9. CASE Unreachable(c)
  <2>1. PICK left \in {"gone", "zombie", "running"} : Terminate(c, r, left)
    BY <1>9 DEF Unreachable
  <2> QED
    BY <1>1, <1>2, <1>9, <2>1 DEF Unreachable, Terminate, ClientRecord, Waits, Quarrels
<1>10. CASE GiveUpPing(c)
  <2> DEFINE given == Abandoned(r, "lost")
  <2>1. Sound(r) /\ "lost" \in Stages
    BY SoundClients DEF Stages, Results
  <2>2. given \in ClientRecord /\ given.errors = r.errors \cup Hangup(r)
    BY <1>1, <2>1, AbandonedFields DEF Abandoned, Disconnect, ClientRecord
  <2>3. PICK left \in {"gone", "zombie", "running"} : Terminate(c, given, left)
    BY <1>10 DEF GiveUpPing
  <2> HIDE DEF given
  <2> QED
    BY <1>1, <1>2, <1>10, <2>2, <2>3 DEF GiveUpPing, Terminate, Hangup, ClientRecord, Waits, Quarrels
<1> QED
  BY <1>3, <1>4, <1>5, <1>6, <1>7, <1>8, <1>9, <1>10 DEF WaitStep

LEMMA GameFields ==
  ASSUME CInv, GameStep
  PROVE  \A d \in Clients : /\ client'[d].stage = client[d].stage
                            /\ client'[d].app = client[d].app /\ client'[d].pending = client[d].pending
                            /\ ~Quarrels(client[d], client'[d])
<1>1. /\ client = [d \in Clients |-> client[d]] /\ \A d \in Clients : client[d] \in ClientRecord
  BY DEF CInv, IInv, Sound
<1>2. ASSUME NEW c \in members, NEW verdict \in Verdicts, Answer(c, verdict), NEW d \in Clients
      PROVE  /\ client'[d].stage = client[d].stage
             /\ client'[d].app = client[d].app /\ client'[d].pending = client[d].pending
             /\ ~Quarrels(client[d], client'[d])
  BY <1>1, <1>2 DEF Answer, Answered, PushResponse, ClientRecord, Quarrels
<1>3. ASSUME NEW c \in members, Close(c), NEW d \in Clients
      PROVE  /\ client'[d].stage = client[d].stage
             /\ client'[d].app = client[d].app /\ client'[d].pending = client[d].pending
             /\ ~Quarrels(client[d], client'[d])
  BY <1>1, <1>3 DEF Close, Closed, Error, ClientRecord, Quarrels
<1> QED
  BY <1>2, <1>3 DEF GameStep, Decided, Crash, Quarrels

LEMMA WaitKeeps ==
  ASSUME CInv, NEW c \in members, WaitStep(c), UNCHANGED coordinatorVars
  PROVE  Coordinated'
<1>1. /\ c \in Clients /\ client[c].stage \in Waits /\ client'[c].stage # "free"
      /\ \A d \in Clients \ {c} : client'[d] = client[d]
  BY WaitFields
<1>2. members' = members
  BY DEF WaitStep, Receive, TimeOut, GiveUp, Crashed, Ping, ReceivePing, Unreachable, GiveUpPing, Terminate
<1>3. UNCHANGED <<mode, phase, at>>
  BY DEF coordinatorVars
<1>4. \A d \in Clients : (Quiet(d)' <=> Quiet(d)) /\ (OwesJoin(d)' <=> OwesJoin(d)) /\ (Placed(d)' <=> Placed(d))
  BY <1>2, <1>3 DEF Quiet, OwesJoin, Placed
<1>5. ~Quiet(c) /\ ~OwesJoin(c)
  BY <1>1 DEF CInv, Coordinated, Waits, OwesJoin, Quiet, Resting
<1>6. ASSUME NEW d \in Clients
      PROVE  /\ Placed(d)'
             /\ Quiet(d)' => client'[d].stage = "free"
             /\ OwesJoin(d)' => client'[d].pending = "join" /\ client'[d].app = "normal"
             /\ d \in members' /\ ~OwesJoin(d)' /\ phase' # "exited" => Settled(client[d], at[d], phase)'
  <2>1. CASE d = c
    BY <1>1, <1>4, <1>5, <2>1 DEF CInv, Coordinated, Settled
  <2>2. CASE d # c
    <3>1. client'[d] = client[d] /\ at' = at /\ phase' = phase /\ mode' = mode /\ members' = members
      BY <1>1, <1>2, <1>3, <2>2
    <3>2. Settled(client[d], at[d], phase)' <=> Settled(client[d], at[d], phase)
      BY <3>1 DEF Settled, MayOwe
    <3> QED
      BY <1>4, <3>1, <3>2 DEF CInv, Coordinated
  <2> QED
    BY <2>1, <2>2
<1> QED
  BY <1>2, <1>3, <1>6 DEF CInv, Coordinated

LEMMA GamesKeep ==
  ASSUME CInv, GameStep, UNCHANGED coordinatorVars
  PROVE  Coordinated'
<1>1. members' = members
  BY DEF GameStep, Answer, Decided, Crash, Close
<1>2. UNCHANGED <<mode, phase, at>>
  BY DEF coordinatorVars
<1>3. \A d \in Clients : (Quiet(d)' <=> Quiet(d)) /\ (OwesJoin(d)' <=> OwesJoin(d)) /\ (Placed(d)' <=> Placed(d))
  BY <1>1, <1>2 DEF Quiet, OwesJoin, Placed
<1>4. \A d \in Clients : Settled(client[d], at[d], phase)' <=> Settled(client[d], at[d], phase)
  BY <1>2, GameFields DEF Settled, MayOwe
<1> QED
  BY <1>1, <1>2, <1>3, <1>4, GameFields DEF CInv, Coordinated

-------------------------------------------------------------------------------
LEMMA CoordinatedInit == Init => ControlInit /\ CInv
<1> SUFFICES ASSUME Init PROVE ControlInit /\ CInv
  OBVIOUS
<1>1. ControlInit /\ IInv
  BY InvariantInit DEF Init
<1>2. \A d \in Clients : client[d].stage = "free" /\ client[d].pending = "none"
  BY DEF Init, ControlInit, Attached
<1>3. Coordinated
  BY <1>2 DEF Init, Coordinated, Placed, Working, OwesJoin, Settled, MayOwe
<1> QED
  BY <1>1, <1>3 DEF CInv

LEMMA CoordinatedStep == CInv /\ [Act]_vars => [ControlNext]_controlVars /\ CInv'
<1> SUFFICES ASSUME CInv, [Act]_vars PROVE [ControlNext]_controlVars /\ CInv'
  OBVIOUS
<1>1. ASSUME Use, Coordinated' PROVE [ControlNext]_controlVars /\ Coordinated'
  BY <1>1 DEF ControlNext
<1>2. [ControlNext]_controlVars /\ Coordinated'
  <2>1. ASSUME NEW c \in members, Step(c) PROVE [ControlNext]_controlVars /\ Coordinated'
    <3>1. CASE AgentStep(c)
      BY <1>1, <2>1, <3>1, AgentKeeps DEF Step
    <3>2. CASE WaitStep(c) /\ UNCHANGED coordinatorVars
      BY <3>2, WaitKeeps DEF ControlNext
    <3> QED
      BY <2>1, <3>1, <3>2 DEF Step
  <2>2. CASE MainStep \/ LeaveGame \/ PlayAgain
    BY <1>1, <2>2, MainKeeps
  <2>3. CASE GameActs
    BY <2>3, GamesKeep DEF GameActs, ControlNext
  <2>4. CASE UNCHANGED vars
    <3>1. UNCHANGED controlVars /\ UNCHANGED client /\ UNCHANGED coordinatorVars /\ UNCHANGED members
      BY <2>4 DEF vars, controlVars
    <3>2. UNCHANGED <<mode, phase, at>>
      BY <3>1 DEF coordinatorVars
    <3>3. Coordinated'
      BY <3>1, <3>2 DEF CInv, Coordinated, Placed, Quiet, OwesJoin, Settled, MayOwe
    <3> QED
      BY <3>1, <3>3
  <2> QED
    BY <2>1, <2>2, <2>3, <2>4 DEF Act, Finished
<1>3. IInv'
  BY <1>2, InvariantStep DEF CInv
<1> QED
  BY <1>2, <1>3 DEF CInv

(* The coordinator, with any program, any number of agents and any failures   *)
(* of their games, keeps to what the control interface asks of its caller.    *)
THEOREM CoordinatorUsesControl == Spec => UsesControl
  BY CoordinatedInit, CoordinatedStep, PTL DEF Spec, UsesControl, ControlSpec

(* So none of its agents takes a response for another request's, ...          *)
THEOREM CoordinatorResponsesMatch == Spec => []NeverMismatched
  BY CoordinatorUsesControl, ResponsesMatch, PTL DEF UsesControl

(* ... and what it polls for is there.                                        *)
THEOREM CoordinatorPollIsTruthful == Spec => []FlagTruthful
  BY CoordinatorUsesControl, PollIsTruthful, PTL DEF UsesControl

-------------------------------------------------------------------------------
(* Whom a step lets complain has had errors before, or is asked for something *)
(* new while it owes a leave.                                                 *)
Excused(c) ==
    Quarrels(client[c], client'[c]) =>
        client[c].errors # {} \/ (phase \in {"leave", "create", "join"} /\ client[c].pending = "leave")

AllExcused == \A c \in members : Excused(c)

LEMMA Becoming ==
  ASSUME CInv, NEW c \in members, NEW s, Becomes(c, s),
         Quarrels(client[c], s) =>
            client[c].errors # {} \/ (phase \in {"leave", "create", "join"} /\ client[c].pending = "leave")
  PROVE  AllExcused
<1>1. client' = [d \in Clients |-> IF d = c THEN s ELSE client[d]] /\ members \subseteq Clients
  BY Members DEF CInv, IInv, Becomes
<1> QED
  BY <1>1 DEF AllExcused, Excused, Quarrels

(* Nothing is asked.                                                          *)
LEMMA NothingAsked ==
  ASSUME CInv, UNCHANGED client
  PROVE  AllExcused
  BY DEF AllExcused, Excused, Quarrels

LEMMA OnlyWaits ==
  ASSUME CInv, NEW c \in members, NEW k,
         Becomes(c, WaitFor(client[c], k)) \/ Becomes(c, Returned(client[c])) \/ Becomes(c, Taken(client[c]))
  PROVE  AllExcused
<1>1. client[c] \in ClientRecord
  BY SoundClients DEF Sound
<1>2. /\ ~Quarrels(client[c], WaitFor(client[c], k)) /\ ~Quarrels(client[c], Returned(client[c]))
      /\ ~Quarrels(client[c], Taken(client[c]))
  BY <1>1 DEF WaitFor, Returned, Taken, Quarrels, ClientRecord
<1> QED
  BY <1>2, Becoming

LEMMA AskedErrors ==
  ASSUME NEW r \in ClientRecord, r.pending = "none", NEW k, NEW reached
  PROVE  ~Quarrels(r, SendRequest(r, k, reached)) /\ ~Quarrels(r, SendAndWait(r, k, reached))
<1> DEFINE linked == Reconnect(r, reached)
<1>1. DOMAIN linked = DOMAIN r /\ linked.errors = r.errors
  BY DEF Reconnect, ClientRecord
<1> HIDE DEF linked
<1> DEFINE sent == Send(linked, k)
<1>2. DOMAIN sent = DOMAIN r /\ sent.errors = r.errors
  BY <1>1 DEF Send, ClientRecord
<1> HIDE DEF sent
<1>3. SendRequest(r, k, reached) \in {linked, sent}
  BY DEF SendRequest, HasResponsePending, linked, sent
<1>4. SendAndWait(r, k, reached) \in {linked, sent, WaitFor(linked, k), WaitFor(sent, k)}
  BY <1>3 DEF SendAndWait
<1>5. WaitFor(linked, k).errors = r.errors /\ WaitFor(sent, k).errors = r.errors
  BY <1>1, <1>2 DEF WaitFor, ClientRecord
<1> QED
  BY <1>1, <1>2, <1>3, <1>4, <1>5 DEF Quarrels

(* Something is asked of a client that owes nothing, or at most a leave.      *)
LEMMA AskedExcused ==
  ASSUME CInv, NEW c \in members, client[c].stage \in Results \cup {"free"},
         NEW k, NEW reached,
         \/ Becomes(c, SendRequest(Taken(client[c]), k, reached))
         \/ Becomes(c, SendAndWait(Taken(client[c]), k, reached)),
         \/ Cleared(Taken(client[c]))
         \/ client[c].stage = "free" /\ phase \in {"leave", "create", "join"} /\ Settled(client[c], at[c], phase)
  PROVE  AllExcused
<1> DEFINE r == client[c]
           free == Taken(r)
<1>1. Sound(r) /\ r \in ClientRecord
  BY SoundClients DEF Sound
<1>2. /\ free \in ClientRecord /\ free.app = r.app /\ free.pending = r.pending /\ free.stage = "free"
      /\ free.errors = r.errors
  BY <1>1, Takes DEF Sound, Taken, Returned, ClientRecord
<1> HIDE DEF free
<1>3. PICK s \in {SendRequest(free, k, reached), SendAndWait(free, k, reached)} : Becomes(c, s)
  BY DEF free
<1>4. ASSUME Quarrels(r, s)
      PROVE  r.errors # {} \/ (phase \in {"leave", "create", "join"} /\ r.pending = "leave")
  <2>1. r.pending # "none"
    BY <1>2, <1>3, <1>4, AskedErrors DEF Quarrels
  <2>2. r.app # "normal" => r.errors # {}
    BY <1>1 DEF Sound, Owing
  <2>3. CASE r.app = "normal"
    BY <1>2, <2>1, <2>3 DEF Cleared, Settled, MayOwe, free
  <2> QED
    BY <2>2, <2>3
<1> QED
  BY <1>3, <1>4, Becoming

LEMMA ObservesExcused ==
  ASSUME CInv, NEW c \in members, NEW then, client[c].stage \in Results \cup {"free"},
         Cleared(Taken(client[c])), GetObservation(c, then)
  PROVE  AllExcused
<1>1. CASE client[c].app # "normal"
  BY <1>1, OnlyWaits DEF GetObservation, Reachable
<1>2. CASE client[c].app = "normal"
  BY <1>2, AskedExcused DEF GetObservation
<1> QED
  BY <1>1, <1>2

LEMMA PollsExcused ==
  ASSUME CInv, NEW c \in members, client[c].app = "normal", Settled(client[c], at[c], phase),
         client[c].stage = "free", PollsLeave(c) \/ Becomes(c, PolledLeave(client[c]))
  PROVE  AllExcused
<1>1. PolledLeave(client[c]) = client[c]
  BY DEF PolledLeave, Settled, MayOwe
<1>2. CASE Becomes(c, client[c])
  BY <1>2, Becoming DEF Quarrels
<1>3. CASE PollsLeave(c) /\ Consumes(client[c])
  BY <1>3, OnlyWaits DEF PollsLeave
<1> QED
  BY <1>1, <1>2, <1>3 DEF PollsLeave

LEMMA StepExcused ==
  ASSUME CInv, NEW c \in members, StepAgent(c)
  PROVE  AllExcused
<1> DEFINE r == client[c]
<1>1. /\ r.stage = "free" /\ Settled(r, at[c], phase) /\ Taken(r) = r /\ Sound(r)
      /\ phase = "update" /\ at[c] = "ready"
  BY SoundClients DEF CInv, Coordinated, Quiet, Resting, OwesJoin, StepAgent, Taken, Results
<1>2. CASE UNCHANGED client
  BY <1>2, NothingAsked
<1>3. CASE r.app = "normal" /\ PollsLeave(c)
  BY <1>1, <1>3, PollsExcused
<1>4. CASE /\ ~Leaves(r) /\ ~IsFinishedGame(PolledLeave(r))
           /\ IF mode.realtime THEN GetObservation(c, "events")
              ELSE \E reached \in Reachable(c) :
                    /\ Becomes(c, WaitFor(SendRequest(PolledLeave(r), "step", reached), "step"))
                    /\ Goes(c, "stepping")
  <2>1. r.app = "normal"
    <3>1. PolledLeave(r).app = r.app
      BY <1>1 DEF PolledLeave, Error, Sound, ClientRecord
    <3> QED
      BY <1>4, <3>1 DEF IsFinishedGame
  <2>2. r.pending = "none"
    BY <1>1, <1>4, <2>1 DEF Settled, MayOwe, Leaves
  <2>3. Cleared(r) /\ PolledLeave(r) = r
    BY <2>2 DEF Cleared, PolledLeave
  <2>4. CASE mode.realtime
    BY <1>1, <1>4, <2>3, <2>4, ObservesExcused
  <2>5. CASE ~mode.realtime
    <3>1. PICK reached \in Reachable(c) : Becomes(c, WaitFor(SendRequest(r, "step", reached), "step"))
      BY <1>4, <2>3, <2>5
    <3>2. reached \in BOOLEAN /\ "step" \in Requests
      BY DEF Reachable, Requests
    <3>3. SendAndWait(r, "step", reached) = WaitFor(SendRequest(r, "step", reached), "step")
      BY <1>1, <2>2, <3>2, Asks
    <3> QED
      BY <1>1, <2>3, <3>1, <3>3, AskedExcused
  <2> QED
    BY <2>4, <2>5
<1> QED
  BY <1>2, <1>3, <1>4 DEF StepAgent

LEMMA AgentExcused ==
  ASSUME CInv, NEW c \in members, phase # "exited", AgentStep(c)
  PROVE  AllExcused
<1> DEFINE r == client[c]
<1>1. c \in Clients /\ Sound(r)
  BY SoundClients
<1>2. /\ Placed(c) /\ (at[c] \in Resting => r.stage = "free")
      /\ ~OwesJoin(c) => Settled(r, at[c], phase)
  BY <1>1 DEF CInv, Coordinated, Quiet
<1>3. r.stage = "free" => Taken(r) = r
  BY DEF Taken, Results
<1>4. r.stage \in Results => Taken(r) = Returned(r) /\ Cleared(Returned(r))
  BY <1>1, Takes
<1>5. at[c] \in Working => Cleared(r)
  BY <1>2 DEF Placed, OwesJoin, Settled, MayOwe, Cleared, Working
<1>6. ASSUME RequestJoinGame(c) PROVE AllExcused
  <2>1. r.stage = "free" /\ Settled(r, at[c], phase)
    BY <1>2, <1>6 DEF RequestJoinGame, OwesJoin, Resting
  <2> QED
    BY <1>3, <1>6, <2>1, AskedExcused DEF RequestJoinGame
<1>7. ASSUME FirstObservation(c) PROVE AllExcused
  <2>1. r.stage = "free" /\ Cleared(r)
    BY <1>2, <1>7 DEF FirstObservation, OwesJoin, Resting, Settled, MayOwe, Cleared
  <2> QED
    BY <1>3, <1>7, <2>1, ObservesExcused DEF FirstObservation
<1>8. ASSUME NEW then, TakesObservation(c, then) PROVE AllExcused
  BY <1>8, OnlyWaits, NothingAsked DEF TakesObservation
<1>9. ASSUME Stepped(c) PROVE AllExcused
  BY <1>4, <1>9, OnlyWaits, ObservesExcused DEF Stepped
<1>10. ASSUME End(c), at[c] \in {"calling", "ending"} PROVE AllExcused
  <2>1. r.stage = "free" /\ Cleared(r)
    BY <1>2, <1>5, <1>10 DEF Resting, Working
  <2>2. CASE Becomes(c, r)
    BY <2>2, Becoming DEF Quarrels
  <2>3. ASSUME NEW reached \in Reachable(c), Becomes(c, SendRequest(r, "leave", reached)) PROVE AllExcused
    BY <1>3, <2>1, <2>3, AskedExcused
  <2> QED
    BY <1>10, <2>2, <2>3 DEF End, RequestLeaveGame
<1>11. ASSUME SendActions(c) PROVE AllExcused
  <2>1. r.stage = "free" /\ Cleared(r)
    BY <1>5, <1>11 DEF SendActions, Idle, Working
  <2> QED
    BY <1>3, <1>11, <2>1, NothingAsked, AskedExcused DEF SendActions
<1>12. ASSUME SerialStep(c) PROVE AllExcused
  <2>1. r.stage = "free" /\ Settled(r, at[c], phase)
    BY <1>2, <1>12 DEF SerialStep, OwesJoin, Resting
  <2> QED
    BY <1>12, <2>1, NothingAsked, PollsExcused DEF SerialStep
<1>13. ASSUME AskToLeave(c) PROVE AllExcused
  <2>1. r.stage = "free" /\ Settled(r, at[c], phase)
    BY <1>2, <1>13 DEF AskToLeave, OwesJoin, Resting
  <2>2. CASE Becomes(c, r)
    BY <2>2, Becoming DEF Quarrels
  <2>3. CASE Becomes(c, SendRequest(r, "leave", FALSE))
    BY <1>3, <1>13, <2>1, <2>3, AskedExcused DEF AskToLeave
  <2> QED
    BY <1>13, <2>2, <2>3 DEF AskToLeave, RequestLeaveGame
<1>14. ASSUME WaitJoinGame(c) \/ Drain(c) PROVE AllExcused
  BY <1>14, OnlyWaits DEF WaitJoinGame, Drain
<1>15. ASSUME Joined(c) \/ ActionsSent(c) \/ LeaveResponse(c) PROVE AllExcused
  BY <1>15, OnlyWaits DEF Joined, ActionsSent, LeaveResponse
<1>16. ASSUME RealtimeEvents(c) \/ RealtimeEnd(c) \/ CallOnStep(c) PROVE AllExcused
  BY <1>10, <1>16, NothingAsked DEF RealtimeEvents, RealtimeEnd, CallOnStep
<1> QED
  BY <1>6, <1>7, <1>8, <1>9, <1>11, <1>12, <1>13, <1>14, <1>15, <1>16, StepExcused
     DEF AgentStep, FirstObserved, Observed

LEMMA CreateExcused ==
  ASSUME CInv, CreateGame \/ GameCreated
  PROVE  AllExcused
<1>1. 1 \in members /\ 1 \in Clients
  BY Members
<1>2. CASE GameCreated
  BY <1>1, <1>2, OnlyWaits DEF GameCreated
<1>3. CASE CreateGame
  <2>1. client[1].stage = "free" /\ Taken(client[1]) = client[1] /\ Settled(client[1], at[1], phase)
    BY <1>1, <1>3 DEF CreateGame, CInv, Coordinated, Quiet, Resting, OwesJoin, Taken, Results
  <2> QED
    BY <1>1, <1>3, <2>1, AskedExcused DEF CreateGame
<1> QED
  BY <1>2, <1>3

LEMMA ExcusedStep == CInv /\ [Act]_vars => AllExcused
<1> SUFFICES ASSUME CInv, [Act]_vars PROVE AllExcused
  OBVIOUS
<1>1. ASSUME NEW c \in members, WaitStep(c) PROVE AllExcused
  BY <1>1, WaitFields, Members DEF AllExcused, Excused, Quarrels
<1>2. CASE GameStep
  BY <1>2, GameFields, Members DEF AllExcused, Excused
<1>3. CASE MainStep \/ LeaveGame \/ PlayAgain
  BY <1>3, CreateExcused, NothingAsked
     DEF MainStep, AllAsked, AllJoined, OnGameStart, AllStepped, Verdict, AllAskedToLeave, Drained, LeaveGame, PlayAgain
<1>4. CASE UNCHANGED vars
  BY <1>4, NothingAsked DEF vars, controlVars
<1> QED
  BY <1>1, <1>2, <1>3, <1>4, AgentExcused DEF Act, Step, GameActs, Finished

(* No client is asked for anything while a response is pending, unless it has *)
(* had errors, or owes a leave and is asked to leave or to start over.        *)
THEOREM CoordinatorAsksInTurn == Spec => PurelySequential
<1> DEFINE InTurn ==
        \A c \in members :
            "ResponseNotConsumed" \in client'[c].errors \ client[c].errors =>
                \/ client[c].errors # {}
                \/ phase \in {"leave", "create", "join"} /\ client[c].pending = "leave"
<1>1. CInv /\ [Act]_vars => [InTurn]_vars
  BY ExcusedStep DEF AllExcused, Excused, Quarrels
<1> HIDE DEF InTurn
<1>2. Spec => [][InTurn]_vars
  BY <1>1, CoordinatedInit, CoordinatedStep, PTL DEF Spec
<1> QED
  BY <1>2 DEF InTurn, PurelySequential

-------------------------------------------------------------------------------
Tidings == {"nothing", "started", "ended", "wrong"}

(* What the coordinator's variables are.                                      *)
Typed ==
    /\ phase \in Phases /\ at \in [Clients -> Places] /\ told \in [Clients -> Tidings]
    /\ matches \in 1..mode.matches /\ begun \subseteq members

(* A step with an agent is at that agent only.                                *)
Alone(c) ==
    /\ phase' \in {phase, "exited"} /\ UNCHANGED <<begun, members, gameVars, mode, matches>>
    /\ client' = [client EXCEPT ![c] = client'[c]]
    /\ at' = [at EXCEPT ![c] = at'[c]] /\ at'[c] \in Places
    /\ told' = [told EXCEPT ![c] = told'[c]] /\ told'[c] \in Tidings

LEMMA AgentAlone ==
  ASSUME CInv, Typed, NEW c \in members, AgentStep(c)
  PROVE  Alone(c)
<1>1. /\ c \in Clients /\ client = [d \in Clients |-> client[d]]
      /\ at = [d \in Clients |-> at[d]] /\ at[c] \in Places
      /\ told = [d \in Clients |-> told[d]] /\ told[c] \in Tidings
  BY SoundClients DEF CInv, IInv, Typed
<1> DEFINE Here == client' = [client EXCEPT ![c] = client'[c]]
           There == at' = [at EXCEPT ![c] = at'[c]] /\ at'[c] \in Places
           Heard1 == told' = [told EXCEPT ![c] = told'[c]] /\ told'[c] \in Tidings
<1>2. ASSUME NEW s, Becomes(c, s) PROVE Here
  BY <1>1, <1>2 DEF Becomes
<1>3. ASSUME UNCHANGED client PROVE Here
  BY <1>1, <1>3
<1>4. ASSUME NEW p \in Places, Goes(c, p) PROVE There
  BY <1>1, <1>4 DEF Goes
<1>5. ASSUME UNCHANGED at PROVE There
  BY <1>1, <1>5
<1>6. ASSUME UNCHANGED told \/ OnStep(c) \/ OnGameEnd(c) PROVE Heard1
  BY <1>1, <1>6 DEF OnStep, OnGameEnd, Tidings
<1> HIDE DEF Here, There, Heard1
<1>7. ASSUME NEW then \in Places, GetObservation(c, then) PROVE Here /\ There
  BY <1>2, <1>4, <1>7 DEF GetObservation, Places
<1>8. ASSUME NEW then \in Places, TakesObservation(c, then)
      PROVE  Here /\ There /\ phase' \in {phase, "exited"}
  BY <1>2, <1>3, <1>4, <1>5, <1>8 DEF TakesObservation
<1>9. ASSUME PollsLeave(c) PROVE Here /\ There
  BY <1>2, <1>4, <1>9 DEF PollsLeave, Places
<1>10. ASSUME End(c) PROVE Here /\ There /\ Heard1
  BY <1>2, <1>4, <1>6, <1>10 DEF End, Places
<1>11. /\ AfterStep \in Places /\ AfterActions(c) \in Places
       /\ \A p \in {"ready", "joining", "observing", "stepping", "calling", "acting", "leaving", "done"} : p \in Places
  BY DEF AfterStep, AfterActions, Places
<1> DEFINE Good == phase' \in {phase, "exited"} /\ begun' = begun /\ Stays /\ Here /\ There /\ Heard1
<1>12. ASSUME RequestJoinGame(c) PROVE Good
  BY <1>2, <1>4, <1>5, <1>6, <1>11, <1>12 DEF RequestJoinGame
<1>13. ASSUME WaitJoinGame(c) \/ Joined(c) \/ LeaveResponse(c) \/ AskToLeave(c) \/ Drain(c) PROVE Good
  BY <1>2, <1>4, <1>6, <1>11, <1>13 DEF WaitJoinGame, Joined, LeaveResponse, AskToLeave, Drain
<1>14. ASSUME FirstObservation(c) \/ FirstObserved(c) \/ Observed(c) PROVE Good
  BY <1>6, <1>7, <1>8, <1>11, <1>14 DEF FirstObservation, FirstObserved, Observed
<1>15. ASSUME Stepped(c) PROVE Good
  BY <1>2, <1>4, <1>6, <1>7, <1>11, <1>15 DEF Stepped
<1>16. ASSUME StepAgent(c) PROVE Good
  <2>1. "events" \in Places
    BY DEF Places
  <2> QED
    BY <1>2, <1>3, <1>4, <1>6, <1>7, <1>9, <1>11, <1>16, <2>1 DEF StepAgent
<1>17. ASSUME RealtimeEvents(c) PROVE Good
  BY <1>3, <1>4, <1>6, <1>11, <1>17 DEF RealtimeEvents, IssueEvents
<1>18. ASSUME RealtimeEnd(c) PROVE Good
  BY <1>3, <1>4, <1>6, <1>10, <1>11, <1>18 DEF RealtimeEnd
<1>19. ASSUME CallOnStep(c) PROVE Good
  BY <1>3, <1>4, <1>6, <1>10, <1>11, <1>19 DEF CallOnStep, IssueEvents
<1>20. ASSUME SendActions(c) PROVE Good
  BY <1>2, <1>3, <1>4, <1>5, <1>6, <1>11, <1>20 DEF SendActions
<1>21. ASSUME ActionsSent(c) PROVE Good
  BY <1>2, <1>4, <1>6, <1>11, <1>21 DEF ActionsSent
<1>22. ASSUME SerialStep(c) PROVE Good
  BY <1>2, <1>3, <1>4, <1>6, <1>9, <1>11, <1>22 DEF SerialStep
<1>23. Good
  BY <1>12, <1>13, <1>14, <1>15, <1>16, <1>17, <1>18, <1>19, <1>20, <1>21, <1>22 DEF AgentStep
<1> QED
  BY <1>23 DEF Alone, Stays, Here, There, Heard1

LEMMA TypedInit == Init => Typed
<1> SUFFICES ASSUME Init PROVE Typed
  OBVIOUS
<1>1. mode.matches \in Nat \ {0}
  BY ModesAssumption DEF Init, Mode
<1> QED
  BY <1>1 DEF Init, Typed, Phases, Places, Tidings

LEMMA TypedStep == CInv /\ Typed /\ [Act]_vars => Typed'
<1> SUFFICES ASSUME CInv, Typed, [Act]_vars PROVE Typed'
  OBVIOUS
<1>1. /\ phase \in Phases /\ at \in [Clients -> Places] /\ told \in [Clients -> Tidings]
      /\ matches \in 1..mode.matches /\ begun \subseteq members
      /\ \A c \in members : c \in Clients
  BY Members DEF Typed
<1>2. mode.matches \in Nat
  BY ModesAssumption DEF CInv, Coordinated, Mode
<1>3. "exited" \in Phases
  BY DEF Phases
<1>4. ASSUME NEW c \in members, AgentStep(c) PROVE Typed'
  BY <1>1, <1>3, <1>4, AgentAlone DEF Alone, Typed
<1>5. ASSUME NEW c \in members, WaitStep(c), UNCHANGED coordinatorVars PROVE Typed'
  <2>1. members' = members
    BY <1>5, MovedOn, Members DEF CInv
  <2> QED
    BY <1>1, <1>5, <2>1 DEF coordinatorVars, Typed
<1>6. CASE GameStep /\ UNCHANGED coordinatorVars
  <2>1. members' = members
    BY <1>6 DEF GameStep, Answer, Decided, Crash, Close
  <2> QED
    BY <1>1, <1>6, <2>1 DEF coordinatorVars, Typed
<1>7. CASE UNCHANGED vars
  BY <1>1, <1>7 DEF vars, controlVars, coordinatorVars, Typed
<1>8. ASSUME AllReady PROVE at' \in [Clients -> Places]
  BY <1>8 DEF AllReady, Places
<1>9. ASSUME MainStep \/ LeaveGame
      PROVE  /\ phase' \in Phases /\ at' \in [Clients -> Places] /\ told' \in [Clients -> Tidings]
             /\ begun' \subseteq members /\ Stays
  <2>1. CASE CreateGame
    <3>1. "creating" \in Places /\ 1 \in Clients
      BY Members DEF Places
    <3> QED
      BY <1>1, <1>3, <2>1, <3>1 DEF CreateGame, Goes
  <2>2. CASE GameCreated
    BY <1>1, <1>8, <2>2 DEF GameCreated, Phases
  <2>3. CASE AllAsked \/ AllJoined \/ AllStepped \/ AllAskedToLeave
    BY <1>1, <1>8, <2>3 DEF AllAsked, AllJoined, AllStepped, AllAskedToLeave, Next, Phases
  <2>4. CASE OnGameStart
    BY <1>1, <1>8, <2>4 DEF OnGameStart, Next, Phases, Tidings
  <2>5. CASE Verdict \/ LeaveGame \/ Drained
    BY <1>1, <2>5 DEF Verdict, LeaveGame, Drained, Phases
  <2> QED
    BY <1>9, <2>1, <2>2, <2>3, <2>4, <2>5 DEF MainStep
<1>10. CASE MainStep \/ LeaveGame
  BY <1>1, <1>9, <1>10 DEF Typed, Stays
<1>11. CASE PlayAgain
  BY <1>1, <1>2, <1>8, <1>11 DEF PlayAgain, Typed, Phases, Tidings
<1> QED
  BY <1>4, <1>5, <1>6, <1>7, <1>10, <1>11 DEF Act, Step, GameActs, Finished

(* The variables have values of their kinds, for any number of agents and any *)
(* program.                                                                   *)
THEOREM CoordinatorTypeCorrect == Spec => []TypeOK
<1>1. CInv /\ Typed /\ ControlTypeOK => TypeOK
  BY DEF CInv, Coordinated, Typed, Tidings, TypeOK
<1>2. Spec => []ControlTypeOK
  BY CoordinatorUsesControl, OneOnTheWire, PTL DEF UsesControl
<1>3. Spec => [](CInv /\ Typed)
  BY CoordinatedInit, CoordinatedStep, TypedInit, TypedStep, PTL DEF Spec
<1> QED
  BY <1>1, <1>2, <1>3, PTL

-------------------------------------------------------------------------------
Opening == {"create", "join", "await", "observe"}
Match == {"update", "serial", "verdict"}

(* Where StepAgents has called the bot in a thread of its own, or is to.      *)
Called == {"events", "calling", "acting", "layering", "ending"}

(* What a bot has been told fits with where the coordinator is with it: until *)
(* the match begins, nothing; while it lasts, its start and perhaps its end,  *)
(* which ends all work with it.  An agent that plays alone is not asked to    *)
(* leave, and its end is the end of the match there and then.                 *)
Tells(r, place, what, status, p) ==
    /\ p \in Opening => what = "nothing"
    /\ p \in Match => what \in {"started", "ended"}
    /\ what # "wrong"
    /\ what = "ended" =>
        /\ place \notin Working \cup {"observing"}
        /\ r.app = "normal" => status # "in_game" /\ r.pending # "join"
        /\ ~mode.ports /\ p \in {"update", "serial"} =>
              place = "done" /\ (p = "update" => mode.threaded \/ mode.realtime)
    /\ p = "update" /\ ~mode.threaded /\ ~mode.realtime => place \notin Called
    /\ p = "serial" => ~mode.threaded /\ ~mode.realtime

AllTell == \A c \in members : Tells(client[c], at[c], told[c], playing[c], phase)

TInv == CInv /\ AllKnow /\ Typed /\ AllTell

(* A step with one agent, of which it has only to be said what it does there. *)
LEMMA OneTells ==
  ASSUME TInv, NEW c \in members, Alone(c), Tells(client'[c], at'[c], told'[c], playing[c], phase')
  PROVE  AllTell'
<1>1. members \subseteq Clients /\ client = [d \in Clients |-> client[d]] /\ at \in [Clients -> Places]
      /\ told \in [Clients -> Tidings]
  BY Members DEF TInv, CInv, IInv, Typed
<1>2. mode' = mode /\ members' = members /\ playing' = playing /\ phase' \in {phase, "exited"}
  BY DEF Alone, gameVars
<1>3. ASSUME NEW d \in members PROVE Tells(client'[d], at'[d], told'[d], playing'[d], phase')
  <2>1. CASE d = c
    BY <1>2, <2>1
  <2>2. CASE d # c
    <3>1. client'[d] = client[d] /\ at'[d] = at[d] /\ told'[d] = told[d]
      BY <1>1, <2>2 DEF Alone
    <3>2. Tells(client[d], at[d], told[d], playing[d], phase)
      BY DEF TInv, AllTell
    <3> QED
      BY <1>2, <3>1, <3>2 DEF Tells, Opening, Match
  <2> QED
    BY <2>1, <2>2
<1>4. ASSUME NEW d \in members
      PROVE  Tells(client[d], at[d], told[d], playing[d], phase)'
               <=> Tells(client'[d], at'[d], told'[d], playing'[d], phase')
  BY <1>2 DEF Tells
<1> QED
  BY <1>2, <1>3, <1>4 DEF AllTell

(* A step with a bot that has not been told the end changes nothing by going  *)
(* elsewhere ...                                                              *)
LEMMA TellsOn ==
  ASSUME TInv, NEW c \in members, Alone(c), told'[c] = told[c], told[c] # "ended",
         phase = "update" /\ ~mode.threaded /\ ~mode.realtime => at'[c] \notin Called
  PROVE  AllTell'
<1>1. Tells(client[c], at[c], told[c], playing[c], phase)
  BY DEF TInv, AllTell
<1>2. phase' \in {phase, "exited"}
  BY DEF Alone
<1>3. Tells(client'[c], at'[c], told'[c], playing[c], phase')
  BY <1>1, <1>2 DEF Tells, Opening, Match
<1> QED
  BY <1>3, OneTells

(* ... and one that has been told it plays no part but to leave.              *)
LEMMA TellsNoMore ==
  ASSUME TInv, NEW c \in members, Alone(c), told'[c] = told[c], told[c] = "ended",
         phase \in {"update", "serial"} => mode.ports \/ at[c] # "done",
         at'[c] \in {"done", "leaving"}, client'[c].app = client[c].app,
         client'[c].pending \in {client[c].pending, "none", "leave"}
  PROVE  AllTell'
<1>1. Tells(client[c], at[c], told[c], playing[c], phase)
  BY DEF TInv, AllTell
<1>2. phase' \in {phase, "exited"}
  BY DEF Alone
<1>3. Tells(client'[c], at'[c], told'[c], playing[c], phase')
  BY <1>1, <1>2 DEF Tells, Opening, Match, Working, Called
<1> QED
  BY <1>3, OneTells

(* What nobody waits for and nothing is pending of is as the game has it.     *)
LEMMA Current ==
  ASSUME TInv, NEW c \in members, client[c].app = "normal", client[c].stage = "free", client[c].pending = "none"
  PROVE  client[c].status = playing[c] /\ client[c].queue = <<>>
<1>1. Sound(client[c]) /\ Knows(client[c], playing[c])
  BY SoundClients DEF TInv, AllKnow
<1>2. client[c].queue = <<>>
  BY <1>1, NothingOut
<1> QED
  BY <1>1, <1>2 DEF Knows, Waits

LEMMA LeaveAsked ==
  ASSUME NEW r, Sound(r), r.stage = "free", NEW reached \in BOOLEAN
  PROVE  /\ RequestLeaveGame(r, reached).app = r.app /\ RequestLeaveGame(r, reached).stage = "free"
         /\ RequestLeaveGame(r, reached).pending \in {r.pending, "leave"}
<1>1. "leave" \in Requests
  BY DEF Requests
<1> QED
  BY <1>1, Asks DEF RequestLeaveGame

(* The end of the game, told where the game is over.                          *)
LEMMA EndTells ==
  ASSUME TInv, NEW c \in members, phase # "exited", at[c] \in {"calling", "ending"}, ~IsInGame(client[c]),
         Alone(c), UNCHANGED phase, End(c)
  PROVE  AllTell'
<1> DEFINE r == client[c]
<1>1. /\ c \in Clients /\ Sound(r) /\ Tells(r, at[c], told[c], playing[c], phase)
      /\ told \in [Clients -> Tidings] /\ at \in [Clients -> Places] /\ client = [d \in Clients |-> client[d]]
  BY SoundClients DEF TInv, CInv, IInv, AllTell, Typed
<1>2. phase \in {"update", "serial"} /\ r.stage = "free" /\ Settled(r, at[c], phase)
  BY <1>1 DEF TInv, CInv, Coordinated, Placed, Working, Quiet, Resting, OwesJoin
<1>3. told[c] = "started"
  BY <1>1, <1>2 DEF Tells, Match, Working
<1>4. told'[c] = "ended" /\ at'[c] = "done"
  BY <1>1, <1>3 DEF End, OnGameEnd, Goes
<1>5. r.app = "normal" => r.pending = "none" /\ playing[c] # "in_game"
  BY <1>1, <1>2, Current DEF Settled, MayOwe, Working, IsInGame
<1>6. client'[c].app = r.app /\ client'[c].pending \in {r.pending, "leave"}
  <2>1. PICK reached \in BOOLEAN : client'[c] = RequestLeaveGame(r, reached)
    BY <1>1 DEF End, Becomes, Reachable
  <2> QED
    BY <1>1, <1>2, <2>1, LeaveAsked
<1>7. phase = "update" => mode.threaded \/ mode.realtime
  BY <1>1 DEF Tells, Called
<1>8. Tells(client'[c], at'[c], told'[c], playing[c], phase')
  BY <1>2, <1>4, <1>5, <1>6, <1>7, <1>1 DEF Tells, Opening, Match, Working, Called
<1> QED
  BY <1>8, OneTells

(* An agent of a bot that has been told the end has nothing to step.          *)
LEMMA NothingToStep ==
  ASSUME TInv, NEW c \in members, phase \in {"update", "serial"}, at[c] = "ready", told[c] = "ended",
         client[c].app = "normal"
  PROVE  Leaves(client[c])
<1>1. c \in Clients /\ Tells(client[c], at[c], told[c], playing[c], phase)
  BY SoundClients DEF TInv, AllTell
<1>2. mode.ports /\ playing[c] # "in_game"
  BY <1>1 DEF Tells
<1>3. client[c].stage = "free" /\ client[c].pending \in {"none", "leave"}
  BY <1>1 DEF TInv, CInv, Coordinated, Quiet, Resting, OwesJoin, Settled, MayOwe
<1> QED
  BY <1>2, <1>3, Current DEF Leaves, IsInGame

LEMMA PollsTells ==
  ASSUME TInv, NEW c \in members, phase \in {"update", "serial"}, at[c] = "ready", Alone(c),
         UNCHANGED told, client[c].app = "normal", PollsLeave(c)
  PROVE  AllTell'
<1>1. /\ c \in Clients /\ client[c] \in ClientRecord /\ at \in [Clients -> Places]
      /\ client = [d \in Clients |-> client[d]]
  BY SoundClients DEF TInv, CInv, IInv, Sound, Typed
<1>2. /\ at'[c] \in {"done", "leaving"} /\ client'[c].app = client[c].app
      /\ client'[c].pending = client[c].pending
  <2>1. ASSUME NEW s, s \in {WaitFor(client[c], "leave"), PolledLeave(client[c])}
        PROVE  s.app = client[c].app /\ s.pending = client[c].pending
    BY <1>1, <2>1 DEF PolledLeave, Error, WaitFor, ClientRecord
  <2>2. client'[c] \in {WaitFor(client[c], "leave"), PolledLeave(client[c])} /\ at'[c] \in {"done", "leaving"}
    BY <1>1 DEF PollsLeave, Becomes, Goes
  <2> QED
    BY <2>1, <2>2
<1> QED
  BY <1>2, TellsOn, TellsNoMore DEF Called

LEMMA StepTells ==
  ASSUME TInv, NEW c \in members, Alone(c), StepAgent(c)
  PROVE  AllTell'
<1> DEFINE r == client[c]
<1>1. /\ c \in Clients /\ r \in ClientRecord /\ at \in [Clients -> Places] /\ phase = "update" /\ at[c] = "ready"
      /\ client = [d \in Clients |-> client[d]] /\ UNCHANGED told
  BY SoundClients DEF TInv, CInv, IInv, Sound, Typed, StepAgent
<1>2. CASE UNCHANGED client /\ Goes(c, "done")
  <2>1. at'[c] = "done" /\ client'[c] = r
    BY <1>1, <1>2 DEF Goes
  <2> QED
    BY <1>1, <2>1, TellsOn, TellsNoMore DEF Called
<1>3. CASE r.app = "normal" /\ PollsLeave(c)
  BY <1>1, <1>3, PollsTells
<1>4. CASE /\ ~Leaves(r) /\ ~IsFinishedGame(PolledLeave(r))
           /\ IF mode.realtime THEN GetObservation(c, "events")
              ELSE \E reached \in Reachable(c) :
                    /\ Becomes(c, WaitFor(SendRequest(PolledLeave(r), "step", reached), "step"))
                    /\ Goes(c, "stepping")
  <2>1. r.app = "normal"
    <3>1. PolledLeave(r).app = r.app
      BY <1>1 DEF PolledLeave, Error, ClientRecord
    <3> QED
      BY <1>4, <3>1 DEF IsFinishedGame
  <2>2. told[c] # "ended"
    BY <1>1, <1>4, <2>1, NothingToStep
  <2>3. CASE mode.realtime
    BY <1>1, <2>2, <2>3, TellsOn
  <2>4. CASE ~mode.realtime
    <3>1. at'[c] = "stepping"
      BY <1>1, <1>4, <2>4 DEF Goes
    <3> QED
      BY <1>1, <2>2, <3>1, TellsOn DEF Called
  <2> QED
    BY <2>3, <2>4
<1> QED
  BY <1>2, <1>3, <1>4 DEF StepAgent

LEMMA SerialTells ==
  ASSUME TInv, NEW c \in members, Alone(c), SerialStep(c)
  PROVE  AllTell'
<1> DEFINE r == client[c]
<1>1. /\ c \in Clients /\ at \in [Clients -> Places] /\ phase = "serial" /\ at[c] = "ready"
      /\ client = [d \in Clients |-> client[d]] /\ UNCHANGED told
  BY SoundClients DEF TInv, CInv, IInv, Typed, SerialStep
<1>2. CASE UNCHANGED client /\ Goes(c, "done")
  <2>1. at'[c] = "done" /\ client'[c] = r
    BY <1>1, <1>2 DEF Goes
  <2> QED
    BY <1>1, <2>1, TellsOn, TellsNoMore
<1>3. CASE r.app = "normal" /\ PollsLeave(c)
  BY <1>1, <1>3, PollsTells
<1>4. CASE r.app = "normal" /\ ~Leaves(r)
  <2>1. told[c] # "ended"
    BY <1>1, <1>4, NothingToStep
  <2> QED
    BY <1>1, <2>1, TellsOn
<1> QED
  BY <1>2, <1>3, <1>4 DEF SerialStep

LEMMA AgentTells ==
  ASSUME TInv, NEW c \in members, phase # "exited", AgentStep(c)
  PROVE  AllTell'
<1> DEFINE r == client[c]
<1>1. /\ c \in Clients /\ Sound(r) /\ r \in ClientRecord /\ Tells(r, at[c], told[c], playing[c], phase)
      /\ told \in [Clients -> Tidings] /\ at \in [Clients -> Places] /\ client = [d \in Clients |-> client[d]]
      /\ Placed(c)
  BY SoundClients DEF TInv, CInv, IInv, Sound, AllTell, Typed, Coordinated
<1>2. Alone(c)
  BY AgentAlone DEF TInv
<1>3. phase \in Opening => told[c] # "ended"
  BY <1>1 DEF Tells
<1>4. at[c] \in Working \cup {"observing"} => told[c] # "ended"
  BY <1>1 DEF Tells
<1>5. at[c] \in Working => told[c] = "started"
  BY <1>1, <1>4 DEF Tells, Placed, Match
<1>6. ASSUME RequestJoinGame(c) \/ WaitJoinGame(c) \/ Joined(c) \/ FirstObservation(c) \/ FirstObserved(c)
      PROVE  AllTell'
  <2>1. phase \in Opening /\ phase # "update" /\ UNCHANGED told
    BY <1>6 DEF RequestJoinGame, WaitJoinGame, Joined, FirstObservation, FirstObserved, Opening
  <2> QED
    BY <1>2, <1>3, <2>1, TellsOn
<1>7. CASE StepAgent(c)
  BY <1>2, <1>7, StepTells
<1>8. ASSUME Stepped(c) \/ Observed(c) PROVE AllTell'
  <2>1. /\ at[c] \in {"stepping", "observing"} /\ UNCHANGED told
        /\ at'[c] \in {"stepping", "observing", AfterStep}
    BY <1>1, <1>8 DEF Stepped, Observed, TakesObservation, GetObservation, Goes
  <2>2. at[c] \in Working \cup {"observing"}
    BY <2>1 DEF Working
  <2>3. ~mode.threaded /\ ~mode.realtime => at'[c] \notin Called
    BY <2>1 DEF AfterStep, Called
  <2> QED
    BY <1>2, <1>4, <2>1, <2>2, <2>3, TellsOn
<1>9. at[c] \in Called => at[c] \in Working /\ (phase = "update" => mode.threaded \/ mode.realtime)
  BY <1>1 DEF Tells, Called, Working
<1>10. ASSUME SendActions(c) \/ ActionsSent(c) PROVE AllTell'
  <2>1. at[c] \in Called /\ UNCHANGED told
    BY <1>10 DEF SendActions, ActionsSent, Called
  <2> QED
    BY <1>2, <1>4, <1>9, <2>1, TellsOn
<1>11. ASSUME at[c] \in Called, IssueEvents(c) \/ UNCHANGED told PROVE AllTell'
  <2>1. told'[c] = told[c]
    BY <1>1, <1>5, <1>9, <1>11 DEF IssueEvents, OnStep
  <2> QED
    BY <1>2, <1>4, <1>9, <1>11, <2>1, TellsOn
<1>12. CASE RealtimeEvents(c)
  BY <1>11, <1>12 DEF RealtimeEvents, Called
<1>13. CASE RealtimeEnd(c)
  BY <1>2, <1>11, <1>13, EndTells DEF RealtimeEnd, Called
<1>14. CASE CallOnStep(c)
  BY <1>2, <1>11, <1>14, EndTells DEF CallOnStep, Called
<1>15. CASE SerialStep(c)
  BY <1>2, <1>15, SerialTells
<1>16. ASSUME LeaveResponse(c) \/ AskToLeave(c) \/ Drain(c) PROVE AllTell'
  <2>1. at'[c] \in {"done", "leaving"} /\ UNCHANGED told /\ (phase \in {"update", "serial"} => at[c] # "done")
    BY <1>1, <1>16 DEF LeaveResponse, AskToLeave, Drain, Goes
  <2>2. client'[c].app = r.app /\ client'[c].pending \in {r.pending, "leave"}
    <3>1. CASE LeaveResponse(c)
      <4>1. client'[c] = Returned(r)
        BY <1>1, <3>1 DEF LeaveResponse, Becomes
      <4> QED
        BY <1>1, <4>1 DEF Returned, ClientRecord
    <3>2. CASE AskToLeave(c)
      <4>1. client'[c] = RequestLeaveGame(r, FALSE)
        BY <1>1, <3>2 DEF AskToLeave, Becomes
      <4>2. r.stage = "free"
        BY <1>1, <3>2 DEF AskToLeave, TInv, CInv, Coordinated, Quiet, Resting
      <4> QED
        BY <1>1, <4>1, <4>2, LeaveAsked
    <3>3. CASE Drain(c)
      <4>1. client'[c] = WaitFor(r, r.pending)
        BY <1>1, <3>3 DEF Drain, Becomes
      <4> QED
        BY <1>1, <4>1 DEF WaitFor, ClientRecord
    <3> QED
      BY <1>16, <3>1, <3>2, <3>3
  <2> QED
    BY <1>2, <2>1, <2>2, TellsOn, TellsNoMore DEF Called
<1> QED
  BY <1>6, <1>7, <1>8, <1>10, <1>12, <1>13, <1>14, <1>15, <1>16 DEF AgentStep

(* Where all agents are handled, told or not, the phase goes on.              *)
LEMMA MainTells ==
  ASSUME TInv, MainStep \/ LeaveGame \/ PlayAgain
  PROVE  AllTell'
<1>1. /\ members' = members /\ playing' = playing /\ mode' = mode
      /\ told \in [Clients -> Tidings] /\ at \in [Clients -> Places] /\ client = [d \in Clients |-> client[d]]
      /\ mode \in Modes /\ members = 1..mode.agents
  BY DEF TInv, CInv, IInv, Coordinated, Typed, MainStep, CreateGame, GameCreated, AllAsked, AllJoined, OnGameStart,
         AllStepped, Verdict, AllAskedToLeave, Drained, LeaveGame, PlayAgain, Stays, gameVars
<1>2. ASSUME NEW d \in members
      PROVE  /\ d \in Clients /\ Sound(client[d]) /\ Tells(client[d], at[d], told[d], playing[d], phase) /\ Placed(d)
             /\ ~mode.ports => d = 1 /\ members = {1}
  <2>1. d \in Clients /\ Sound(client[d])
    BY SoundClients DEF TInv
  <2>2. ~mode.ports => mode.agents = 1
    <3>1. mode.agents \in Nat /\ (mode.agents > 1 => mode.ports)
      BY <1>1, ModesAssumption, ClientsAssumption DEF Mode, Clients
    <3>2. 1 \in 1..mode.agents /\ mode.agents \in Nat
      BY <1>1, Members, ModesAssumption, ClientsAssumption DEF TInv, Mode, Clients
    <3> QED
      BY <3>1, <3>2
  <2> QED
    BY <1>1, <2>1, <2>2 DEF TInv, AllTell, CInv, Coordinated
<1>3. SUFFICES ASSUME NEW d \in members PROVE Tells(client'[d], at'[d], told'[d], playing[d], phase')
  <2>1. ASSUME NEW d \in members
        PROVE  Tells(client[d], at[d], told[d], playing[d], phase)'
               <=> Tells(client'[d], at'[d], told'[d], playing'[d], phase')
    BY <1>1 DEF Tells
  <2> QED
    BY <1>1, <1>3, <2>1 DEF AllTell
<1>4. CASE CreateGame \/ GameCreated
  <2>1. phase = "create" /\ phase' \in {"create", "exited", "join"} /\ UNCHANGED told
    BY <1>4 DEF CreateGame, GameCreated
  <2> QED
    BY <1>2, <2>1 DEF Tells, Opening, Match
<1>5. CASE AllAsked \/ AllJoined
  <2>1. phase \in Opening /\ phase' \in {"await", "observe", "stopped"} /\ UNCHANGED told
    BY <1>5 DEF AllAsked, AllJoined, Next, Opening
  <2> QED
    BY <1>2, <2>1 DEF Tells, Opening, Match
<1>6. CASE OnGameStart
  <2>1. phase' = "update" /\ told'[d] = "started" /\ at'[d] = "ready"
    BY <1>2, <1>6 DEF OnGameStart, Next, AllReady
  <2> QED
    BY <2>1 DEF Tells, Opening, Match, Called
<1>7. CASE AllStepped
  <2>1. /\ phase \in {"update", "serial"} /\ at'[d] = "ready" /\ UNCHANGED <<client, told>>
        /\ phase' = IF phase = "update" /\ ~mode.threaded /\ ~mode.realtime THEN "serial" ELSE "verdict"
    BY <1>2, <1>7 DEF AllStepped, Next, AllReady
  <2> QED
    BY <1>2, <2>1 DEF Tells, Opening, Match, Working, Called
<1>8. CASE Verdict
  <2> DEFINE r == client[d]
  <2>1. /\ phase = "verdict" /\ UNCHANGED <<client, at, told>> /\ phase' \in {"stopped", "update"}
        /\ phase' = "update" => NoErrors /\ ~AllGamesEnded
    BY <1>8 DEF Verdict
  <2>2. at[d] \notin Working
    BY <1>2, <2>1 DEF Placed
  <2>3. r.stage = "free" /\ Settled(r, at[d], "verdict")
    BY <1>2, <2>1 DEF TInv, CInv, Coordinated, Quiet, OwesJoin
  <2>4. ASSUME phase' = "update", told[d] = "ended" PROVE mode.ports
    <3>1. SUFFICES ASSUME ~mode.ports PROVE FALSE
      OBVIOUS
    <3>2. members = {1} /\ d = 1
      BY <1>2, <3>1
    <3>3. r.app = "normal"
      BY <1>2, <2>1, <2>4 DEF NoErrors, Sound, Owing
    <3>4. r.pending = "none" /\ playing[d] # "in_game"
      BY <1>2, <2>1, <2>3, <2>4, <3>1, <3>3 DEF Settled, MayOwe, Tells
    <3>5. ~IsInGame(r) /\ ~HasResponsePending(r)
      BY <2>3, <3>3, <3>4, Current DEF IsInGame, HasResponsePending
    <3> QED
      BY <2>1, <2>4, <3>2, <3>5 DEF AllGamesEnded
  <2> QED
    BY <1>2, <2>1, <2>2, <2>4 DEF Tells, Opening, Match, Working, Called
<1>9. CASE LeaveGame \/ AllAskedToLeave \/ Drained
  <2>1. /\ phase' \in {"leave", "drain", "left"} /\ UNCHANGED <<client, told>> /\ at'[d] \in {at[d], "ready"}
    BY <1>2, <1>9 DEF LeaveGame, AllAskedToLeave, Drained, Next, AllReady
  <2> QED
    BY <1>2, <2>1 DEF Tells, Opening, Match, Working, Called
<1>10. CASE PlayAgain
  <2>1. phase' = "create" /\ told'[d] = "nothing"
    BY <1>2, <1>10 DEF PlayAgain
  <2> QED
    BY <2>1 DEF Tells, Opening, Match
<1> QED
  BY <1>4, <1>5, <1>6, <1>7, <1>8, <1>9, <1>10 DEF MainStep

LEMMA WaitTells ==
  ASSUME TInv, NEW c \in members, WaitStep(c), UNCHANGED coordinatorVars
  PROVE  AllTell'
<1>1. /\ c \in Clients /\ client[c].app = "normal" /\ Moves(client[c], client'[c])
      /\ client' = [client EXCEPT ![c] = client'[c]] /\ UNCHANGED <<members, playing>>
      /\ members \subseteq Clients /\ client = [d \in Clients |-> client[d]]
  BY MovedOn, Members DEF TInv, CInv, IInv
<1>2. UNCHANGED <<mode, phase, at, told>>
  BY DEF coordinatorVars
<1>3. ASSUME NEW d \in members
      PROVE  Tells(client[d], at[d], told[d], playing[d], phase)'
  <2>1. Tells(client[d], at[d], told[d], playing[d], phase)
    BY DEF TInv, AllTell
  <2>2. CASE d = c
    BY <1>1, <1>2, <2>1, <2>2 DEF Tells, Moves
  <2>3. CASE d # c
    BY <1>1, <1>2, <2>1, <2>3 DEF Tells
  <2> QED
    BY <2>2, <2>3
<1> QED
  BY <1>1, <1>3 DEF AllTell

(* A game goes on only where it is created or joined.                         *)
LEMMA GamesTell ==
  ASSUME TInv, GameStep, UNCHANGED coordinatorVars
  PROVE  AllTell'
<1>1. /\ members' = members /\ members \subseteq Clients /\ client = [d \in Clients |-> client[d]]
      /\ playing \in [Clients -> Statuses]
  BY Members DEF TInv, CInv, IInv, Surroundings, GameStep, Answer, Decided, Crash, Close
<1>2. UNCHANGED <<mode, phase, at, told>>
  BY DEF coordinatorVars
<1>3. ASSUME NEW d \in members
      PROVE  /\ client'[d].app = client[d].app /\ client'[d].pending = client[d].pending
             /\ told[d] = "ended" /\ client[d].app = "normal" => playing'[d] # "in_game"
  <2>1. d \in Clients /\ client'[d].app = client[d].app /\ client'[d].pending = client[d].pending
    BY <1>1, GameFields DEF TInv
  <2>2. told[d] = "ended" /\ client[d].app = "normal" => playing[d] # "in_game" /\ client[d].pending # "join"
    BY DEF TInv, AllTell, Tells
  <2>3. ASSUME NEW c \in members, NEW verdict \in Verdicts, Answer(c, verdict), playing'[d] = "in_game"
        PROVE  playing[d] = "in_game" \/ client[d].pending = "join"
    <3>1. Head(client[c].wire) = client[c].pending /\ c \in Clients
      BY <2>3, AnswerFields DEF TInv, CInv
    <3>2. playing' = [playing EXCEPT ![c] = IF verdict = "done" THEN StatusAfter(c, client[c].pending)
                                            ELSE playing[c]]
      BY <2>3, <3>1 DEF Answer
    <3> QED
      BY <1>1, <2>1, <2>3, <3>1, <3>2 DEF StatusAfter
  <2>4. playing'[d] = "in_game" => playing[d] = "in_game" \/ client[d].pending = "join"
    BY <2>3 DEF GameStep, Decided, Crash, Close, gameVars
  <2> QED
    BY <2>1, <2>2, <2>4
<1>4. ASSUME NEW d \in members
      PROVE  Tells(client[d], at[d], told[d], playing[d], phase)'
  <2>1. Tells(client[d], at[d], told[d], playing[d], phase)
    BY DEF TInv, AllTell
  <2> QED
    BY <1>2, <1>3, <2>1 DEF Tells
<1> QED
  BY <1>1, <1>4 DEF AllTell

LEMMA TellsInit == Init => TInv
<1> SUFFICES ASSUME Init PROVE TInv
  OBVIOUS
<1>1. CInv /\ AllKnow /\ Typed
  BY CoordinatedInit, KnownInit, TypedInit
<1>2. AllTell
  <2>1. \A c \in members : c \in Clients
    BY <1>1, Members
  <2> QED
    BY <2>1 DEF Init, AllTell, Tells, Opening, Match
<1> QED
  BY <1>1, <1>2 DEF TInv

LEMMA TellsStep == TInv /\ [Act]_vars => TInv'
<1> SUFFICES ASSUME TInv, [Act]_vars PROVE TInv'
  OBVIOUS
<1>1. CInv' /\ AllKnow' /\ Typed'
  BY CoordinatedStep, KnownStep, TypedStep DEF TInv, CInv
<1>2. ASSUME UNCHANGED vars PROVE AllTell'
  <2>1. UNCHANGED <<members, client, playing, mode, phase, at, told>>
    BY <1>2 DEF vars, controlVars, gameVars, coordinatorVars
  <2>2. ASSUME NEW d \in members PROVE Tells(client[d], at[d], told[d], playing[d], phase)'
    <3>1. Tells(client[d], at[d], told[d], playing[d], phase)
      BY DEF TInv, AllTell
    <3> QED
      BY <2>1, <3>1 DEF Tells
  <2> QED
    BY <2>1, <2>2 DEF AllTell
<1>3. AllTell'
  BY <1>2, AgentTells, WaitTells, MainTells, GamesTell DEF Act, Step, GameActs, Finished, TInv
<1> QED
  BY <1>1, <1>3 DEF TInv

(* A bot is told of the end at most once, and of no step before the start or  *)
(* after the end, ...                                                         *)
THEOREM EndIsToldOnce == Spec => []EndToldOnce
<1>1. TInv => EndToldOnce
  BY DEF TInv, AllTell, Tells, EndToldOnce
<1> QED
  BY <1>1, TellsInit, TellsStep, PTL DEF Spec

(* ... and of the end only where its game is over, unless it has failed.      *)
THEOREM EndIsToldTrue == Spec => []EndIsTrue
<1>1. TInv => EndIsTrue
  BY DEF TInv, AllTell, Tells, EndIsTrue
<1> QED
  BY <1>1, TellsInit, TellsStep, PTL DEF Spec

-------------------------------------------------------------------------------
(* What a step with an agent newly asks its game for, ...                     *)
NewlyAsked(c) ==
    LET k == client'[c].pending
    IN  k # client[c].pending =>
            /\ k # "create"
            /\ k = "join" => phase = "join"
            /\ k = "step" => at'[c] = "stepping"
            /\ k = "leave" => phase = "leave" \/ told'[c] = "ended"

(* ... where it goes, ...                                                     *)
NewlyAt(c) ==
    /\ at'[c] = "stepping" => phase = "update"
    /\ at'[c] \in {"events", "ending"} => mode.realtime
    /\ at'[c] = "leaving" => phase = "drain" \/ client[c].pending = "leave"

(* ... and that it leaves a bot that has been told of the end alone, waits    *)
(* for the step to be made, and is not made where Update has stopped.         *)
NewlyDone(c) ==
    /\ told[c] = "ended" => told'[c] = "ended"
    /\ at[c] = "stepping" => client[c].stage \in Results
    /\ phase # "stopped"

LEMMA AskedFor ==
  ASSUME NEW r, Sound(r), r.stage \in Results \cup {"free"}, NEW k \in Requests, NEW reached \in BOOLEAN
  PROVE  /\ SendAndWait(Taken(r), k, reached).pending \in {r.pending, k}
         /\ SendRequest(Taken(r), k, reached).pending \in {r.pending, k}
<1>1. Sound(Taken(r)) /\ Taken(r).stage = "free" /\ Taken(r).pending = r.pending
  BY Takes
<1>2. SendRequest(Taken(r), k, reached).pending \in {r.pending, k}
  BY <1>1, Asks
<1>3. Sound(SendRequest(Taken(r), k, reached))
  BY <1>1, SendRequestSound DEF Kinds
<1>4. WaitFor(SendRequest(Taken(r), k, reached), k).pending = SendRequest(Taken(r), k, reached).pending
  BY <1>3 DEF WaitFor, Sound, ClientRecord
<1> QED
  BY <1>2, <1>4 DEF SendAndWait

LEMMA ObservationAsked ==
  ASSUME CInv, NEW c \in members, NEW then, client[c].stage \in Results \cup {"free"}, GetObservation(c, then)
  PROVE  /\ client'[c].pending \in {client[c].pending, "observe"}
         /\ at'[c] \in {"observing", then}
<1>1. /\ c \in Clients /\ Sound(client[c]) /\ client = [d \in Clients |-> client[d]]
      /\ at = [d \in Clients |-> at[d]]
  BY SoundClients DEF CInv, IInv, Coordinated
<1>2. Taken(client[c]).pending = client[c].pending
  BY <1>1, Takes
<1>3. PICK reached \in BOOLEAN :
        client'[c] = IF client[c].app # "normal" THEN Taken(client[c])
                     ELSE SendAndWait(Taken(client[c]), "observe", reached)
  BY <1>1 DEF GetObservation, Becomes, Reachable
<1>4. SendAndWait(Taken(client[c]), "observe", reached).pending \in {client[c].pending, "observe"}
  BY <1>1, AskedFor DEF Requests
<1>5. at'[c] \in {"observing", then}
  BY <1>1 DEF GetObservation, Goes
<1> QED
  BY <1>2, <1>3, <1>4, <1>5

(* Waits and what they return leave what is pending alone.                    *)
LEMMA NothingNew ==
  ASSUME NEW r \in ClientRecord
  PROVE  /\ Returned(r).pending = r.pending /\ PolledLeave(r).pending = r.pending
         /\ \A k : WaitFor(r, k).pending = r.pending
<1>1. Returned(r).pending = r.pending
  BY DEF Returned, ClientRecord
<1>2. PolledLeave(r).pending = r.pending
  BY DEF PolledLeave, Error, ClientRecord
<1>3. ASSUME NEW k PROVE WaitFor(r, k).pending = r.pending
  BY DEF WaitFor, ClientRecord
<1> QED
  BY <1>1, <1>2, <1>3

LEMMA AgentAims ==
  ASSUME TInv, NEW c \in members, phase # "exited", AgentStep(c)
  PROVE  NewlyAsked(c) /\ NewlyAt(c) /\ NewlyDone(c)
<1> DEFINE r == client[c]
           s == client'[c]
           Good == NewlyAsked(c) /\ NewlyAt(c) /\ NewlyDone(c)
<1>1. /\ c \in Clients /\ Sound(r) /\ r \in ClientRecord /\ CInv
      /\ client = [d \in Clients |-> client[d]] /\ at = [d \in Clients |-> at[d]] /\ told = [d \in Clients |-> told[d]]
      /\ Placed(c) /\ (at[c] \in Resting => r.stage = "free") /\ (r.stage = "free" => Taken(r) = r)
  BY SoundClients DEF TInv, CInv, IInv, Sound, Typed, Coordinated, Quiet, Taken, Results
<1>2. told[c] = "ended" => at[c] \notin Working
  BY DEF TInv, AllTell, Tells
<1>3. \A k \in {"join", "observe", "act", "step", "leave"} : k \in Requests
  BY DEF Requests
<1>4. ASSUME RequestJoinGame(c) PROVE Good
  <2>1. PICK reached \in BOOLEAN : s = SendRequest(r, "join", reached)
    BY <1>1, <1>4 DEF RequestJoinGame, Becomes, Reachable
  <2>2. s.pending \in {r.pending, "join"}
    BY <1>1, <1>3, <1>4, <2>1, AskedFor DEF RequestJoinGame, Resting
  <2>3. phase = "join" /\ at[c] = "ready" /\ at'[c] \in {"ready", "done"} /\ told' = told
    BY <1>1, <1>4 DEF RequestJoinGame, Goes
  <2> QED
    BY <2>2, <2>3 DEF NewlyAsked, NewlyAt, NewlyDone
<1>5. ASSUME WaitJoinGame(c) \/ Joined(c) \/ ActionsSent(c) \/ LeaveResponse(c) \/ Drain(c) PROVE Good
  <2>1. s = Returned(r) \/ \E k : s = WaitFor(r, k)
    BY <1>1, <1>5 DEF WaitJoinGame, Joined, ActionsSent, LeaveResponse, Drain, Becomes
  <2>2. /\ at[c] # "stepping" /\ told' = told /\ at'[c] \in {"joining", "done", "leaving", AfterActions(c)}
        /\ at'[c] = "leaving" => phase = "drain"
    BY <1>1, <1>5 DEF WaitJoinGame, Joined, ActionsSent, LeaveResponse, Drain, Goes, AfterActions
  <2>3. phase # "stopped"
    BY <1>1, <1>5 DEF WaitJoinGame, Joined, ActionsSent, LeaveResponse, Drain, Placed, Working
  <2> QED
    BY <1>1, <2>1, <2>2, <2>3, NothingNew DEF NewlyAsked, NewlyAt, NewlyDone, AfterActions
<1>6. ASSUME FirstObservation(c) PROVE Good
  <2>1. phase = "observe" /\ at[c] = "ready" /\ told' = told /\ GetObservation(c, "done")
    BY <1>6 DEF FirstObservation
  <2>2. s.pending \in {r.pending, "observe"} /\ at'[c] \in {"observing", "done"}
    BY <1>1, <2>1, ObservationAsked DEF Resting
  <2> QED
    BY <2>1, <2>2 DEF NewlyAsked, NewlyAt, NewlyDone
<1>7. ASSUME NEW then, TakesObservation(c, then), told' = told, phase # "stopped",
             then # "stepping", then # "leaving", then \in {"events", "ending"} => mode.realtime
      PROVE  Good
  <2>1. (s = r \/ s = Returned(r)) /\ at[c] = "observing" /\ at'[c] \in {"observing", then}
    BY <1>1, <1>7 DEF TakesObservation, Becomes, Goes
  <2> QED
    BY <1>1, <1>7, <2>1, NothingNew DEF NewlyAsked, NewlyAt, NewlyDone
<1>8. ASSUME FirstObserved(c) \/ Observed(c) PROVE Good
  BY <1>7, <1>8 DEF FirstObserved, Observed, AfterStep
<1>9. ASSUME PollsLeave(c), told' = told, at[c] # "stepping", phase # "stopped" PROVE Good
  <2>1. (s = PolledLeave(r) \/ s = WaitFor(r, "leave")) /\ at'[c] \in {"done", "leaving"}
        /\ (at'[c] = "leaving" => r.pending = "leave")
    BY <1>1, <1>9 DEF PollsLeave, Becomes, Goes, Consumes
  <2> QED
    BY <1>1, <1>9, <2>1, NothingNew DEF NewlyAsked, NewlyAt, NewlyDone
<1>10. ASSUME Goes(c, "done") \/ Goes(c, "calling"), s = r \/ s = PolledLeave(r), told' = told, at[c] # "stepping", phase # "stopped"
       PROVE  Good
  <2>1. at'[c] \in {"done", "calling"}
    BY <1>1, <1>10 DEF Goes
  <2> QED
    BY <1>1, <1>10, <2>1, NothingNew DEF NewlyAsked, NewlyAt, NewlyDone
<1>11. ASSUME StepAgent(c) PROVE Good
  <2>1. phase = "update" /\ at[c] = "ready" /\ told' = told /\ r.stage = "free"
    BY <1>1, <1>11 DEF StepAgent, Resting
  <2>2. CASE UNCHANGED client /\ Goes(c, "done")
    BY <1>10, <2>1, <2>2
  <2>3. CASE PollsLeave(c)
    BY <1>9, <2>1, <2>3
  <2>4. CASE mode.realtime /\ GetObservation(c, "events")
    <3>1. s.pending \in {r.pending, "observe"} /\ at'[c] \in {"observing", "events"}
      BY <1>1, <2>1, <2>4, ObservationAsked
    <3> QED
      BY <2>1, <2>4, <3>1 DEF NewlyAsked, NewlyAt, NewlyDone
  <2>5. CASE \E reached \in Reachable(c) :
                    /\ Becomes(c, WaitFor(SendRequest(PolledLeave(r), "step", reached), "step"))
                    /\ Goes(c, "stepping")
    <3>1. PICK reached \in BOOLEAN : s = WaitFor(SendRequest(PolledLeave(r), "step", reached), "step")
      BY <1>1, <2>5 DEF Becomes, Reachable
    <3>2. at'[c] = "stepping"
      BY <1>1, <2>5 DEF Goes
    <3>3. Sound(PolledLeave(r)) /\ PolledLeave(r).stage = "free" /\ PolledLeave(r).pending = r.pending
      <4>1. Sound(PolledLeave(r))
        BY <1>1, ErrorSound DEF PolledLeave, ClientErrors
      <4>2. PolledLeave(r).stage = "free"
        BY <1>1, <2>1 DEF PolledLeave, Error, ClientRecord
      <4> QED
        BY <1>1, <4>1, <4>2, NothingNew
    <3>4. Sound(SendRequest(PolledLeave(r), "step", reached))
      BY <1>3, <3>3, SendRequestSound DEF Kinds
    <3>5. SendRequest(PolledLeave(r), "step", reached).pending \in {r.pending, "step"}
      BY <1>3, <3>3, Asks
    <3>6. s.pending \in {r.pending, "step"}
      <4>1. SendRequest(PolledLeave(r), "step", reached) \in ClientRecord
        BY <3>4 DEF Sound
      <4> QED
        BY <3>1, <3>5, <4>1, NothingNew
    <3> QED
      BY <2>1, <3>2, <3>6 DEF NewlyAsked, NewlyAt, NewlyDone
  <2> QED
    BY <1>11, <2>2, <2>3, <2>4, <2>5 DEF StepAgent
<1>12. ASSUME Stepped(c) PROVE Good
  <2>1. r.stage \in Results /\ at[c] = "stepping" /\ told' = told
    BY <1>12 DEF Stepped
  <2>2. phase # "stopped" /\ AfterStep \in {"events", "calling", "done"} /\ (AfterStep = "events" => mode.realtime)
    BY <1>1, <2>1 DEF Placed, Working, AfterStep
  <2>3. CASE GetObservation(c, AfterStep)
    <3>1. s.pending \in {r.pending, "observe"} /\ at'[c] \in {"observing", AfterStep}
      BY <1>1, <2>1, <2>3, ObservationAsked
    <3> QED
      BY <2>1, <2>2, <3>1 DEF NewlyAsked, NewlyAt, NewlyDone
  <2>4. CASE Becomes(c, Returned(r)) /\ Goes(c, AfterStep)
    <3>1. s = Returned(r) /\ at'[c] = AfterStep
      BY <1>1, <2>4 DEF Becomes, Goes
    <3> QED
      BY <1>1, <2>1, <2>2, <3>1, NothingNew DEF NewlyAsked, NewlyAt, NewlyDone
  <2> QED
    BY <1>12, <2>3, <2>4 DEF Stepped
<1>13. at[c] \in Working => phase # "stopped" /\ told[c] = "started"
  BY <1>1, <1>2 DEF Placed, TInv, AllTell, Tells, Match
<1>14. ASSUME UNCHANGED client, Goes(c, "acting") \/ Goes(c, "done"), at[c] \in Working \ {"stepping"} PROVE Good
  <2>1. at'[c] \in {"acting", "done"} /\ s = r
    BY <1>1, <1>14 DEF Goes
  <2> QED
    BY <1>13, <1>14, <2>1 DEF NewlyAsked, NewlyAt, NewlyDone
<1>15. ASSUME End(c), at[c] \in {"calling", "ending"} PROVE Good
  <2>1. PICK reached \in BOOLEAN : s = RequestLeaveGame(r, reached)
    BY <1>1, <1>15 DEF End, Becomes, Reachable
  <2>2. s.pending \in {r.pending, "leave"}
    BY <1>1, <1>15, <2>1, LeaveAsked DEF Resting
  <2>3. told'[c] = "ended" /\ at'[c] = "done" /\ phase # "stopped"
    BY <1>1, <1>13, <1>15 DEF End, OnGameEnd, Goes, Working
  <2> QED
    BY <1>15, <2>2, <2>3 DEF NewlyAsked, NewlyAt, NewlyDone
<1>16. ASSUME RealtimeEvents(c) \/ RealtimeEnd(c) \/ CallOnStep(c) PROVE Good
  BY <1>14, <1>15, <1>16 DEF RealtimeEvents, RealtimeEnd, CallOnStep, Working
<1>17. ASSUME SendActions(c) PROVE Good
  <2>1. /\ r.stage = "free" /\ at[c] \in {"acting", "layering"} /\ told' = told /\ phase # "stopped"
        /\ at'[c] \in {at[c], AfterActions(c)}
    BY <1>1, <1>13, <1>17 DEF SendActions, Idle, Goes, Working
  <2>2. s = r \/ \E reached \in BOOLEAN : s = SendAndWait(r, "act", reached)
    BY <1>1, <1>17 DEF SendActions, Becomes, Reachable
  <2>3. s.pending \in {r.pending, "act"}
    BY <1>1, <1>3, <2>1, <2>2, AskedFor
  <2> QED
    BY <2>1, <2>3 DEF NewlyAsked, NewlyAt, NewlyDone, AfterActions
<1>18. ASSUME SerialStep(c) PROVE Good
  <2>1. phase = "serial" /\ at[c] = "ready" /\ told' = told
    BY <1>18 DEF SerialStep
  <2>2. CASE PollsLeave(c)
    BY <1>9, <2>1, <2>2
  <2>3. CASE (Goes(c, "done") \/ Goes(c, "calling")) /\ (UNCHANGED client \/ Becomes(c, PolledLeave(r)))
    BY <1>1, <1>10, <2>1, <2>3 DEF Becomes
  <2> QED
    BY <1>18, <2>2, <2>3 DEF SerialStep
<1>19. ASSUME AskToLeave(c) PROVE Good
  <2>1. phase = "leave" /\ at[c] = "ready" /\ told' = told /\ at'[c] = "done" /\ s = RequestLeaveGame(r, FALSE)
    BY <1>1, <1>19 DEF AskToLeave, Becomes, Goes
  <2>2. s.pending \in {r.pending, "leave"}
    BY <1>1, <2>1, LeaveAsked DEF Resting
  <2> QED
    BY <2>1, <2>2 DEF NewlyAsked, NewlyAt, NewlyDone
<1> QED
  BY <1>4, <1>5, <1>6, <1>8, <1>11, <1>12, <1>16, <1>17, <1>18, <1>19 DEF AgentStep

-------------------------------------------------------------------------------
(* What an agent may be asking its game for, and what it is told by then: it  *)
(* asks for a step only where it waits for it, and, as long as there is no    *)
(* error, for no part in a match that has begun, nor to leave before its end. *)
Asking(r, place, what, p) ==
    /\ r.wire # <<>> /\ r.pending = "step" => place = "stepping"
    /\ place = "stepping" => p \in {"update", "exited"}
    /\ place \in {"events", "ending"} => mode.realtime
    /\ r.errors = {} =>
        /\ p \notin {"join", "await", "exited"} => r.pending # "join"
        /\ p \in Match => r.pending # "create"
        /\ p \in Match /\ (r.pending = "leave" \/ place = "leaving") => what = "ended"

AllAsk == \A c \in members : Asking(client[c], at[c], told[c], phase)

(* The coordinator leaves what is pending as it is, or asks for something new *)
(* where nothing is.                                                          *)
LEMMA CoordinatorOwes ==
  ASSUME CInv, NEW c \in Clients, Use
  PROVE  /\ OwesThen(client[c], client'[c]) /\ client'[c].queue = client[c].queue
         /\ client[c].errors \subseteq client'[c].errors
<1>1. Sound(client[c])
  BY DEF CInv, IInv
<1>2. CASE client'[c] = client[c]
  BY <1>2 DEF OwesThen
<1>3. ASSUME NEW reached \in BOOLEAN, Used(client[c], client'[c], reached)
      PROVE  /\ OwesThen(client[c], client'[c]) /\ client'[c].queue = client[c].queue
             /\ client[c].errors \subseteq client'[c].errors
  BY <1>1, <1>3, UsedFields
<1> QED
  BY <1>2, <1>3 DEF Use, Reachable

LEMMA AgentAsks ==
  ASSUME TInv, AllAsk, NEW c \in members, phase # "exited", AgentStep(c)
  PROVE  AllAsk'
<1> DEFINE r == client[c]
           s == client'[c]
<1>1. /\ c \in Clients /\ Sound(r) /\ Knows(r, playing[c]) /\ Asking(r, at[c], told[c], phase)
      /\ members \subseteq Clients /\ client = [d \in Clients |-> client[d]] /\ at \in [Clients -> Places]
      /\ told \in [Clients -> Tidings]
  BY SoundClients, Members DEF TInv, AllKnow, AllAsk, CInv, IInv, Typed
<1>2. Alone(c) /\ NewlyAsked(c) /\ NewlyAt(c) /\ NewlyDone(c)
  BY AgentAlone, AgentAims DEF TInv
<1>3. OwesThen(r, s) /\ r.errors \subseteq s.errors
  BY <1>1, AgentKeeps, CoordinatorOwes DEF TInv
<1>4. mode' = mode /\ members' = members /\ phase' \in {phase, "exited"}
  BY <1>2 DEF Alone
<1>5. at[c] = "stepping" /\ r.pending = "step" => r.wire = <<>>
  BY <1>1, <1>2 DEF NewlyDone, Sound, Owing, Knows
<1>6. (s.pending = r.pending /\ s.wire = r.wire) \/ s.pending # r.pending
  BY <1>3 DEF OwesThen
<1>7. Asking(s, at'[c], told'[c], phase')
  <2>1. s.wire # <<>> /\ s.pending = "step" => at'[c] = "stepping"
    BY <1>1, <1>2, <1>5, <1>6 DEF Asking, NewlyAsked
  <2>2. at'[c] = "stepping" => phase' \in {"update", "exited"}
    BY <1>2, <1>4 DEF NewlyAt
  <2>3. at'[c] \in {"events", "ending"} => mode.realtime
    BY <1>2 DEF NewlyAt
  <2>4. ASSUME s.errors = {} PROVE r.errors = {}
    BY <1>3, <2>4
  <2>5. s.errors = {} /\ phase' \notin {"join", "await", "exited"} => s.pending # "join"
    BY <1>1, <1>2, <1>4, <2>4 DEF Asking, NewlyAsked
  <2>6. s.errors = {} /\ phase' \in Match => s.pending # "create"
    BY <1>1, <1>2, <1>4, <2>4 DEF Asking, NewlyAsked, Match
  <2>7. s.errors = {} /\ phase' \in Match /\ (s.pending = "leave" \/ at'[c] = "leaving") => told'[c] = "ended"
    BY <1>1, <1>2, <1>4, <2>4 DEF Asking, NewlyAsked, NewlyAt, NewlyDone, Match
  <2> QED
    BY <2>1, <2>2, <2>3, <2>5, <2>6, <2>7, <1>4 DEF Asking
<1>8. ASSUME NEW d \in members PROVE Asking(client'[d], at'[d], told'[d], phase')
  <2>1. CASE d = c
    BY <1>7, <2>1
  <2>2. CASE d # c
    <3>1. client'[d] = client[d] /\ at'[d] = at[d] /\ told'[d] = told[d] /\ Asking(client[d], at[d], told[d], phase)
      BY <1>1, <1>2, <2>2 DEF Alone, AllAsk
    <3> QED
      BY <1>4, <3>1 DEF Asking, Match
  <2> QED
    BY <2>1, <2>2
<1>9. ASSUME NEW d \in members
      PROVE  Asking(client[d], at[d], told[d], phase)' <=> Asking(client'[d], at'[d], told'[d], phase')
  BY <1>4 DEF Asking
<1> QED
  BY <1>4, <1>8, <1>9 DEF AllAsk

(* Where all agents are done, nothing is on its way but a leave.              *)
LEMMA MainAsks ==
  ASSUME TInv, AllAsk, MainStep \/ LeaveGame \/ PlayAgain
  PROVE  AllAsk'
<1>1. /\ members' = members /\ mode' = mode
      /\ told \in [Clients -> Tidings] /\ at \in [Clients -> Places] /\ client = [d \in Clients |-> client[d]]
  BY DEF TInv, CInv, IInv, Typed, MainStep, CreateGame, GameCreated, AllAsked, AllJoined, OnGameStart,
         AllStepped, Verdict, AllAskedToLeave, Drained, LeaveGame, PlayAgain, Stays
<1>2. ASSUME NEW d \in members
      PROVE  /\ d \in Clients /\ Sound(client[d]) /\ Asking(client[d], at[d], told[d], phase) /\ Placed(d)
             /\ (Quiet(d) => client[d].stage = "free")
             /\ ~OwesJoin(d) /\ phase # "exited" => Settled(client[d], at[d], phase)
  BY SoundClients DEF TInv, AllAsk, CInv, Coordinated
<1>3. SUFFICES ASSUME NEW d \in members PROVE Asking(client'[d], at'[d], told'[d], phase')
  <2>1. ASSUME NEW d \in members
        PROVE  Asking(client[d], at[d], told[d], phase)' <=> Asking(client'[d], at'[d], told'[d], phase')
    BY <1>1 DEF Asking
  <2> QED
    BY <1>1, <1>3, <2>1 DEF AllAsk
<1> DEFINE r == client[d]
           s == client'[d]
<1>4. CASE CreateGame
  <2>1. 1 \in Clients /\ 1 \in members /\ phase = "create" /\ at[1] = "ready" /\ phase' \in {"create", "exited"}
    BY <1>4, Members DEF TInv, CreateGame
  <2>2. told' = told
    BY <1>4 DEF CreateGame
  <2>3. CASE d = 1
    <3>1. /\ client[1].stage = "free" /\ Taken(client[1]) = client[1] /\ Sound(client[1])
      BY <1>2, <2>1 DEF Quiet, Resting, Taken, Results
    <3>2. PICK reached \in BOOLEAN : s = SendAndWait(client[1], "create", reached)
      BY <1>1, <1>4, <2>1, <2>3 DEF CreateGame, Becomes, Reachable
    <3>3. s.pending \in {r.pending, "create"}
      BY <2>3, <3>1, <3>2, AskedFor DEF Requests
    <3>4. OwesThen(r, s) /\ r.errors \subseteq s.errors
      BY <1>2, <1>4, CreateKeeps, CoordinatorOwes DEF TInv
    <3>5. at'[d] \in {"ready", "creating"}
      BY <1>1, <1>4, <2>1, <2>3 DEF CreateGame, Goes
    <3>6. s.wire # <<>> /\ s.pending = "step" => r.wire # <<>> /\ r.pending = "step"
      BY <3>3, <3>4 DEF OwesThen
    <3>7. ~(r.wire # <<>> /\ r.pending = "step")
      BY <1>2, <2>1, <2>3 DEF Asking
    <3>8. s.errors = {} => s.pending # "join"
      BY <1>2, <2>1, <3>3, <3>4 DEF Asking
    <3> QED
      BY <2>1, <3>5, <3>6, <3>7, <3>8 DEF Asking, Match
  <2>4. CASE d # 1
    <3>1. s = r /\ at'[d] = at[d]
      BY <1>1, <1>2, <1>4, <2>1, <2>4 DEF CreateGame, Becomes, Goes
    <3> QED
      BY <1>2, <2>1, <2>2, <3>1 DEF Asking, Match
  <2> QED
    BY <2>3, <2>4
<1>5. CASE GameCreated
  <2>1. /\ 1 \in Clients /\ phase = "create" /\ phase' \in {"join", "exited"} /\ told' = told
        /\ at'[d] = "ready" /\ at[1] = "creating"
    BY <1>2, <1>5, Members DEF TInv, GameCreated, AllReady
  <2>2. s.wire = r.wire /\ s.pending = r.pending
    <3>1. CASE d = 1
      <4>1. s = Returned(r) /\ r \in ClientRecord
        BY <1>1, <1>2, <1>5, <2>1, <3>1 DEF GameCreated, Becomes, Sound
      <4> QED
        BY <4>1 DEF Returned, ClientRecord
    <3>2. CASE d # 1
      BY <1>1, <1>2, <1>5, <2>1, <3>2 DEF GameCreated, Becomes
    <3> QED
      BY <3>1, <3>2
  <2>3. ~(r.wire # <<>> /\ r.pending = "step")
    BY <1>2, <2>1 DEF Asking
  <2> QED
    BY <2>1, <2>2, <2>3 DEF Asking, Match
<1>6. ASSUME UNCHANGED client, AllDone, at'[d] = "ready" \/ at'[d] = at[d], phase \notin {"update", "exited"},
             r.errors = {} /\ phase' \notin {"join", "await", "exited"} => r.pending # "join",
             phase' \notin Match
      PROVE  Asking(client'[d], at'[d], told'[d], phase')
  <2>1. at[d] = "done" /\ ~(r.wire # <<>> /\ r.pending = "step")
    BY <1>2, <1>6 DEF AllDone, Asking
  <2> QED
    BY <1>6, <2>1 DEF Asking
<1>7. CASE AllAsked
  BY <1>1, <1>2, <1>6, <1>7 DEF AllAsked, Next, AllReady, Match
<1>8. ASSUME phase \in {"await", "observe"}, AllDone PROVE r.errors = {} => r.pending = "none"
  <2>1. r.stage = "free" /\ ~OwesJoin(d) /\ Settled(r, at[d], phase)
    BY <1>2, <1>8 DEF AllDone, Quiet, Resting, OwesJoin
  <2> QED
    BY <1>2, <1>8, <2>1 DEF Sound, Owing, Settled, MayOwe
<1>9. CASE AllJoined
  <2>1. /\ phase = "await" /\ AllDone /\ phase' \in {"observe", "stopped"} /\ UNCHANGED client
        /\ at'[d] = "ready" \/ at'[d] = at[d]
    BY <1>2, <1>9 DEF AllJoined, Next, AllReady
  <2> QED
    BY <1>6, <1>8, <2>1 DEF Match
<1>10. CASE OnGameStart
  <2>1. phase = "observe" /\ AllDone /\ phase' = "update" /\ UNCHANGED client /\ at'[d] = "ready"
    BY <1>2, <1>10 DEF OnGameStart, Next, AllReady
  <2>2. at[d] = "done" /\ ~(r.wire # <<>> /\ r.pending = "step")
    BY <1>2, <2>1 DEF AllDone, Asking
  <2> QED
    BY <1>8, <2>1, <2>2 DEF Asking, Match
<1>11. ASSUME UNCHANGED <<client, told>>, phase \notin {"join", "await", "exited"}, phase' \notin {"join", "await", "exited"},
              phase \notin {"update"} \/ AllDone, at'[d] = "ready" \/ (at'[d] = at[d] /\ phase # "update"),
              phase' \in Match => phase \in Match
       PROVE  Asking(client'[d], at'[d], told'[d], phase')
  <2>1. ~(r.wire # <<>> /\ r.pending = "step")
    BY <1>2, <1>11 DEF AllDone, Asking
  <2> QED
    BY <1>2, <1>11, <2>1 DEF Asking
<1>12. CASE AllStepped
  BY <1>2, <1>11, <1>12 DEF AllStepped, Next, AllReady, Match
<1>13. CASE Verdict
  BY <1>2, <1>11, <1>13 DEF Verdict, Match
<1>14. CASE LeaveGame \/ Drained
  BY <1>2, <1>11, <1>14 DEF LeaveGame, Drained, Match
<1>15. CASE AllAskedToLeave
  BY <1>2, <1>11, <1>15 DEF AllAskedToLeave, Next, AllReady, Match
<1>16. CASE PlayAgain
  <2>1. /\ phase \in {"stopped", "left"} /\ phase' = "create" /\ UNCHANGED client /\ at'[d] = "ready"
    BY <1>2, <1>16 DEF PlayAgain, AllReady
  <2>2. ~(r.wire # <<>> /\ r.pending = "step")
    BY <1>2, <2>1 DEF Asking
  <2> QED
    BY <1>2, <2>1, <2>2 DEF Asking, Match
<1> QED
  BY <1>4, <1>5, <1>7, <1>9, <1>10, <1>12, <1>13, <1>14, <1>15, <1>16 DEF MainStep

LEMMA WaitAsks ==
  ASSUME TInv, AllAsk, NEW c \in members, WaitStep(c), UNCHANGED coordinatorVars
  PROVE  AllAsk'
<1>1. /\ c \in Clients /\ Moves(client[c], client'[c])
      /\ client' = [client EXCEPT ![c] = client'[c]] /\ members' = members
      /\ members \subseteq Clients /\ client = [d \in Clients |-> client[d]]
  BY MovedOn, Members DEF TInv, CInv, IInv
<1>2. UNCHANGED <<mode, phase, at, told>>
  BY DEF coordinatorVars
<1>3. ASSUME NEW d \in members
      PROVE  Asking(client[d], at[d], told[d], phase)'
  <2>1. Asking(client[d], at[d], told[d], phase)
    BY DEF AllAsk
  <2>2. CASE d = c
    BY <1>1, <1>2, <2>1, <2>2 DEF Asking, Moves
  <2>3. CASE d # c
    BY <1>1, <1>2, <2>1, <2>3 DEF Asking
  <2> QED
    BY <2>2, <2>3
<1> QED
  BY <1>1, <1>3 DEF AllAsk

LEMMA GamesAsk ==
  ASSUME TInv, AllAsk, GameStep, UNCHANGED coordinatorVars
  PROVE  AllAsk'
<1>1. /\ members' = members /\ members \subseteq Clients /\ client = [d \in Clients |-> client[d]] /\ IInv
  BY Members DEF TInv, CInv, IInv, GameStep, Answer, Decided, Crash, Close
<1>2. UNCHANGED <<mode, phase, at, told>>
  BY DEF coordinatorVars
<1>3. ASSUME NEW d \in members
      PROVE  /\ client'[d].pending = client[d].pending /\ client'[d].wire \in {client[d].wire, <<>>}
             /\ client[d].errors \subseteq client'[d].errors
  <2>1. ASSUME NEW c \in members, NEW verdict \in Verdicts, Answer(c, verdict)
        PROVE  /\ client'[d].pending = client[d].pending /\ client'[d].wire \in {client[d].wire, <<>>}
               /\ client[d].errors \subseteq client'[d].errors
    <3>1. /\ client' = [client EXCEPT ![c] = client'[c]] /\ client'[c].wire = <<>>
          /\ client'[c].pending = client[c].pending /\ client'[c].errors = client[c].errors
      BY <1>1, <2>1, AnswerFields
    <3> QED
      BY <1>1, <3>1
  <2>2. ASSUME NEW c \in members, Close(c)
        PROVE  /\ client'[d].pending = client[d].pending /\ client'[d].wire \in {client[d].wire, <<>>}
               /\ client[d].errors \subseteq client'[d].errors
    <3>1. /\ client' = [client EXCEPT ![c] = client'[c]] /\ client'[c].wire = <<>>
          /\ client'[c].pending = client[c].pending /\ client[c].errors \subseteq client'[c].errors
      BY <1>1, <2>2, CloseFields
    <3> QED
      BY <1>1, <3>1
  <2> QED
    BY <2>1, <2>2 DEF GameStep, Decided, Crash
<1>4. ASSUME NEW d \in members
      PROVE  Asking(client[d], at[d], told[d], phase)'
  <2>1. Asking(client[d], at[d], told[d], phase)
    BY DEF AllAsk
  <2> QED
    BY <1>2, <1>3, <2>1 DEF Asking
<1> QED
  BY <1>1, <1>4 DEF AllAsk

-------------------------------------------------------------------------------
(* An error the game reports of what it was asked for.                        *)
Fails(r) == r.link = "open" /\ r.queue # <<>> /\ Head(r.queue).verdict = "error"

(* Where the time is not real, a match is decided with all its players asking *)
(* for a step, and whoever it is not over for asks still, ...                 *)
StepAsked(c) ==
    /\ phase # "exited" /\ ~mode.realtime /\ over
    /\ playing[c] = "in_game" /\ process[c] = "running" /\ client[c].errors = {}
    => Asked(c, "step") \/ Fails(client[c])

AllStepAsked == \A c \in members : StepAsked(c)

(* ... so that a new match is not decided before it begins.                   *)
Undecided ==
    /\ ~mode.realtime /\ phase \in {"join", "await", "observe"} => ~over
    /\ phase = "create" /\ at[1] = "creating" =>
        /\ client[1].stage = "waiting" => client[1].pending = "create"
        /\ ~mode.realtime =>
            /\ client[1].stage = "answered" => ~over
            /\ client[1].queue # <<>> /\ Head(client[1].queue).verdict = "done" /\ client[1].pending = "create" => ~over

Decisions == AllStepAsked /\ Undecided

LEMMA OnItsWay ==
  ASSUME NEW r, Sound(r), r.wire # <<>>
  PROVE  Head(r.wire) = r.pending /\ r.pending # "none"
<1>1. r.wire \in Seq(Kinds) /\ r.pending # "none"
  BY NothingOut DEF Sound, ClientRecord
<1>2. Head(r.wire) = r.wire[1] /\ 1 \in DOMAIN r.wire
  BY <1>1
<1> QED
  BY <1>1, <1>2 DEF Sound, Matched

(* What the coordinator does takes back no request.                           *)
LEMMA AskedStill ==
  ASSUME CInv, NEW c \in members, StepAsked(c), Use, UNCHANGED mode, phase # "exited"
  PROVE  StepAsked(c)'
<1> DEFINE r == client[c]
           s == client'[c]
<1>1. c \in Clients /\ Sound(r)
  BY SoundClients
<1>2. OwesThen(r, s) /\ s.queue = r.queue /\ r.errors \subseteq s.errors
  BY <1>1, CoordinatorOwes
<1>3. over' = over /\ playing' = playing /\ process' = process
  BY DEF Use, gameVars
<1>4. ASSUME Asked(c, "step") PROVE Asked(c, "step")'
  <2>1. r.pending # "none"
    BY <1>1, <1>4, OnItsWay DEF Asked
  <2> QED
    BY <1>2, <1>4, <2>1 DEF OwesThen, Asked
<1>5. ASSUME Fails(r) PROVE Fails(s)
  <2>1. r.pending # "none"
    BY <1>1, <1>5, NothingOut DEF Fails
  <2> QED
    BY <1>2, <1>5, <2>1 DEF OwesThen, Fails
<1>6. Fails(client[c])' <=> Fails(s)
  BY DEF Fails
<1> QED
  BY <1>2, <1>3, <1>4, <1>5, <1>6 DEF StepAsked

(* Agents have no part in creating a match.                                   *)
LEMMA NotCreating ==
  ASSUME CInv, NEW c \in members, phase # "exited", AgentStep(c)
  PROVE  phase # "create"
<1>1. Placed(c)
  BY SoundClients DEF CInv, Coordinated
<1> QED
  BY <1>1 DEF Placed, Working, AgentStep, RequestJoinGame, WaitJoinGame, Joined, FirstObservation, FirstObserved,
              StepAgent, Stepped, Observed, RealtimeEvents, RealtimeEnd, CallOnStep, SendActions, ActionsSent,
              SerialStep, LeaveResponse, AskToLeave, Drain

LEMMA AgentDecides ==
  ASSUME TInv, Decisions, NEW c \in members, phase # "exited", AgentStep(c)
  PROVE  Decisions'
<1>1. Use /\ Alone(c) /\ phase # "create"
  BY AgentKeeps, AgentAlone, NotCreating DEF TInv
<1>2. UNCHANGED <<mode, members, over>> /\ phase' \in {phase, "exited"}
  BY <1>1 DEF Alone, gameVars
<1>3. AllStepAsked'
  BY <1>1, <1>2, AskedStill DEF TInv, Decisions, AllStepAsked
<1>4. Undecided'
  BY <1>1, <1>2 DEF Decisions, Undecided
<1> QED
  BY <1>3, <1>4 DEF Decisions

(* The first agent waits for its game to be created.                          *)
LEMMA Creates ==
  ASSUME CInv, CreateGame
  PROVE  /\ phase' \in {"create", "exited"}
         /\ phase' = "create" =>
              client'[1].stage = "waiting" /\ client'[1].pending = "create" /\ client'[1].queue = <<>>
<1>1. 1 \in Clients /\ Sound(client[1]) /\ client = [d \in Clients |-> client[d]]
  BY Members, SoundClients DEF CInv, IInv
<1>2. PICK reached \in BOOLEAN :
          /\ Becomes(1, SendAndWait(client[1], "create", reached))
          /\ IF Accepts(client[1], reached)
             THEN Goes(1, "creating") /\ phase' = phase
             ELSE at' = at /\ phase' = "exited"
  BY DEF CreateGame, Reachable
<1>3. phase' \in {"create", "exited"}
  BY <1>2 DEF CreateGame
<1>4. ASSUME phase' = "create"
      PROVE  client'[1].stage = "waiting" /\ client'[1].pending = "create" /\ client'[1].queue = <<>>
  <2>1. Accepts(client[1], reached)
    BY <1>2, <1>4 DEF CreateGame
  <2>2. client[1].queue = <<>> /\ client[1].pending = "none"
    BY <1>1, <2>1, NothingOut DEF Accepts, HasResponsePending
  <2>3. client'[1] = WaitFor(SendRequest(client[1], "create", reached), "create")
    BY <1>1, <1>2, <2>1 DEF SendAndWait, Becomes
  <2>4. /\ Reconnect(client[1], reached) \in ClientRecord
        /\ Reconnect(client[1], reached).queue = <<>> /\ Reconnect(client[1], reached).link # "none"
    BY <1>1, <2>1, <2>2, ReconnectFields DEF Accepts, Reconnect, Sound, ClientRecord
  <2>5. SendRequest(client[1], "create", reached) = Send(Reconnect(client[1], reached), "create")
    BY <2>2, <2>4 DEF SendRequest, HasResponsePending
  <2>6. /\ Send(Reconnect(client[1], reached), "create").pending = "create"
        /\ Send(Reconnect(client[1], reached), "create").queue = <<>>
        /\ DOMAIN Send(Reconnect(client[1], reached), "create") = DOMAIN Reconnect(client[1], reached)
    BY <2>4 DEF Send, ClientRecord
  <2> QED
    BY <2>3, <2>4, <2>5, <2>6 DEF WaitFor, ClientRecord
<1> QED
  BY <1>3, <1>4

LEMMA MainDecides ==
  ASSUME TInv, Decisions, MainStep \/ LeaveGame \/ PlayAgain
  PROVE  Decisions'
<1>1. Use /\ UNCHANGED <<mode, members, over>> /\ phase # "exited" /\ 1 \in Clients
      /\ Sound(client[1]) /\ at \in [Clients -> Places] /\ client = [d \in Clients |-> client[d]]
  <2>1. Use /\ 1 \in members
    BY MainKeeps, Members DEF TInv
  <2>2. mode' = mode /\ phase # "exited"
    BY DEF MainStep, CreateGame, GameCreated, AllAsked, AllJoined, OnGameStart,
           AllStepped, Verdict, AllAskedToLeave, Drained, LeaveGame, PlayAgain, Stays
  <2> QED
    BY <2>1, <2>2, SoundClients DEF TInv, CInv, IInv, Typed, Use, gameVars
<1>2. AllStepAsked'
  BY <1>1, AskedStill DEF TInv, Decisions, AllStepAsked
<1>3. CASE CreateGame
  <2>1. Undecided'
    BY <1>1, <1>3, Creates DEF Undecided, TInv
  <2> QED
    BY <1>2, <2>1 DEF Decisions
<1>4. CASE GameCreated
  <2>1. ~mode.realtime /\ phase' = "join" => ~over
    BY <1>4 DEF GameCreated, Decisions, Undecided
  <2>2. phase' \in {"join", "exited"}
    BY <1>4 DEF GameCreated
  <2>3. Undecided'
    BY <1>1, <2>1, <2>2 DEF Undecided
  <2> QED
    BY <1>2, <2>3 DEF Decisions
<1>5. CASE AllAsked \/ AllJoined
  <2>1. phase \in {"join", "await"} /\ phase' \in {"await", "observe", "stopped"}
    BY <1>5 DEF AllAsked, AllJoined, Next
  <2>2. Undecided'
    BY <1>1, <2>1 DEF Decisions, Undecided
  <2> QED
    BY <1>2, <2>2 DEF Decisions
<1>6. CASE OnGameStart \/ AllStepped \/ Verdict \/ AllAskedToLeave \/ Drained \/ LeaveGame
  <2>1. phase' \in {"update", "serial", "verdict", "stopped", "leave", "drain", "left"}
    BY <1>6 DEF OnGameStart, AllStepped, Verdict, AllAskedToLeave, Drained, LeaveGame, Next
  <2>2. Undecided'
    BY <2>1 DEF Undecided
  <2> QED
    BY <1>2, <2>2 DEF Decisions
<1>7. CASE PlayAgain
  <2>1. phase' = "create" /\ at'[1] = "ready"
    BY <1>1, <1>7 DEF PlayAgain, AllReady
  <2>2. Undecided'
    BY <2>1 DEF Undecided
  <2> QED
    BY <1>2, <2>2 DEF Decisions
<1> QED
  BY <1>3, <1>4, <1>5, <1>6, <1>7 DEF MainStep

(* A wait brings no process back.                                             *)
LEMMA RunsYet ==
  ASSUME IInv, NEW c \in members, WaitStep(c), NEW d \in Clients, process'[d] = "running"
  PROVE  process[d] = "running"
<1>1. process \in [Clients -> {"running", "zombie", "gone"}]
  BY DEF IInv, Surroundings
<1>2. ASSUME NEW u, NEW left, Terminate(c, u, left) PROVE process[d] = "running"
  BY <1>1, <1>2 DEF Terminate
<1> QED
  BY <1>2 DEF WaitStep, Receive, TimeOut, GiveUp, Crashed, Ping, ReceivePing, Unreachable, GiveUpPing, gameVars

(* A wait goes on while its request is on its way, but for an error.          *)
LEMMA WaitDecides ==
  ASSUME TInv, Decisions, NEW c \in members, WaitStep(c), UNCHANGED coordinatorVars
  PROVE  Decisions'
<1> DEFINE r == client[c]
           s == client'[c]
<1>1. /\ c \in Clients /\ Moves(r, s) /\ client' = [client EXCEPT ![c] = s]
      /\ UNCHANGED <<members, playing, over>> /\ Sound(r)
      /\ client = [d \in Clients |-> client[d]]
  BY MovedOn, SoundClients DEF TInv, CInv, IInv
<1>2. UNCHANGED <<mode, phase, at>>
  BY DEF coordinatorVars
<1>3. ASSUME NEW d \in Clients, process'[d] = "running" PROVE process[d] = "running"
  BY <1>3, RunsYet DEF TInv, CInv
<1>4. ASSUME NEW d \in members PROVE StepAsked(d)'
  <2>1. StepAsked(d) /\ d \in Clients
    BY SoundClients DEF TInv, Decisions, AllStepAsked
  <2>2. CASE d = c
    <3>1. SUFFICES ASSUME s.errors = {}, r.errors = {} => Asked(c, "step") \/ Fails(r)
                   PROVE  Asked(c, "step")' \/ Fails(s)
      BY <1>1, <1>2, <1>3, <2>1, <2>2 DEF StepAsked, Fails, Moves
    <3>2. r.errors = {}
      BY <1>1, <3>1 DEF Moves
    <3>3. ~Fails(r)
      BY <1>1, <3>1 DEF Moves, Fails
    <3> QED
      BY <1>1, <3>1, <3>2, <3>3 DEF Moves, Asked
  <2>3. CASE d # c
    <3>1. client'[d] = client[d]
      BY <1>1, <2>1, <2>3
    <3> QED
      BY <1>1, <1>2, <1>3, <2>1, <3>1 DEF StepAsked, Asked, Fails
  <2> QED
    BY <2>2, <2>3
<1>5. 1 \in Clients /\ (c # 1 => client'[1] = client[1])
  BY <1>1, Members DEF TInv
<1>6. CASE c = 1
  <2>1. s.queue = <<>> /\ s.stage # "waiting"
    BY <1>1 DEF Moves
  <2>2. s.stage = "answered" => r.stage = "waiting" /\ r.queue # <<>> /\ Head(r.queue).verdict = "done"
    BY <1>1 DEF Moves
  <2>3. Undecided'
    BY <1>1, <1>2, <1>6, <2>1, <2>2 DEF Decisions, Undecided
  <2> QED
    BY <1>1, <1>4, <2>3 DEF Decisions, AllStepAsked
<1>7. CASE c # 1
  <2>1. Undecided'
    BY <1>1, <1>2, <1>5, <1>7 DEF Decisions, Undecided
  <2> QED
    BY <1>1, <1>4, <2>1 DEF Decisions, AllStepAsked
<1> QED
  BY <1>6, <1>7

(* Where the match is decided, all its players ask for the step ...           *)
LEMMA StepDecides ==
  ASSUME TInv, AllAsk, Decisions, Decided, mode.realtime \/ StepDue, UNCHANGED coordinatorVars
  PROVE  Decisions'
<1>1. UNCHANGED <<members, client, process, playing, mode, phase, at>>
  BY DEF Decided, coordinatorVars
<1>2. CASE mode.realtime
  BY <1>1, <1>2 DEF Decisions, AllStepAsked, StepAsked, Undecided
<1>3. CASE ~mode.realtime
  <2>1. PICK c \in Present : Asked(c, "step") /\ CanAnswer(c) /\ Ahead = {}
    BY <1>3 DEF StepDue
  <2>2. \A d \in Present : Asked(d, "step")
    BY <2>1 DEF CanAnswer, Asked, Rendezvous, Present
  <2>3. AllStepAsked'
    <3>1. ASSUME NEW d \in members, playing[d] = "in_game", process[d] = "running" PROVE Asked(d, "step")'
      BY <1>1, <2>2, <3>1 DEF Present, Asked
    <3> QED
      BY <1>1, <3>1 DEF AllStepAsked, StepAsked
  <2>4. phase \in {"update", "exited"}
    <3>1. c \in members /\ Sound(client[c]) /\ Asking(client[c], at[c], told[c], phase)
      BY SoundClients DEF TInv, AllAsk, Present
    <3>2. client[c].pending = "step"
      BY <2>1, <3>1, OnItsWay DEF Asked
    <3> QED
      BY <2>1, <3>1, <3>2 DEF Asking, Asked
  <2> QED
    BY <1>1, <2>3, <2>4 DEF Decisions, Undecided
<1> QED
  BY <1>2, <1>3

(* ... and it is over for whoever makes it.                                   *)
LEMMA AnswerDecides ==
  ASSUME TInv, AllAsk, Decisions, NEW c \in members, NEW verdict \in Verdicts, Answer(c, verdict),
         UNCHANGED coordinatorVars
  PROVE  Decisions'
<1> DEFINE r == client[c]
           s == client'[c]
           k == Head(r.wire)
<1>1. /\ c \in Clients /\ r.wire # <<>> /\ k = r.pending /\ k \in Kinds /\ r.queue = <<>>
      /\ client' = [client EXCEPT ![c] = s]
      /\ s.wire = <<>> /\ s.queue # <<>> /\ Head(s.queue).verdict = verdict
      /\ s.stage = r.stage /\ s.pending = r.pending /\ s.errors = r.errors
      /\ playing' = [playing EXCEPT ![c] = IF verdict = "done" THEN StatusAfter(c, k) ELSE playing[c]]
      /\ members' = members /\ process' = process
      /\ client = [d \in Clients |-> client[d]] /\ playing \in [Clients -> Statuses] /\ r \in ClientRecord
  <2> DEFINE response == [kind |-> k, status |-> playing'[c], verdict |-> verdict]
  <2>1. response.verdict = verdict
    OBVIOUS
  <2> HIDE DEF response
  <2>2. Head(s.queue) = response
    BY AnswerFields DEF TInv, CInv, response
  <2>3. r \in ClientRecord
    BY SoundClients DEF TInv, Sound
  <2> QED
    BY <2>1, <2>2, <2>3, AnswerFields DEF TInv, CInv, IInv, Surroundings
<1>2. UNCHANGED <<mode, phase, at>>
  BY DEF coordinatorVars
<1>3. over' => over /\ ~(k = "create" /\ verdict = "done")
  BY DEF Answer
<1>4. r.link = "open" /\ s.link = "open" /\ process[c] = "running"
  <2>1. s = Answered(r, [kind |-> k, status |-> IF verdict = "done" THEN StatusAfter(c, k) ELSE playing[c],
                         verdict |-> verdict])
    BY <1>1 DEF Answer
  <2> QED
    BY <1>1, <2>1 DEF Answer, Heard, Answered, PushResponse, ClientRecord
<1>5. StepAsked(c)'
  <2>1. SUFFICES ASSUME phase # "exited", ~mode.realtime, over, ~(k = "create" /\ verdict = "done"),
                        playing'[c] = "in_game", r.errors = {}
                 PROVE  Fails(s)
    BY <1>1, <1>2, <1>3 DEF StepAsked, Fails
  <2>2. Asking(r, at[c], told[c], phase) /\ StepAsked(c)
    BY DEF AllAsk, Decisions, AllStepAsked
  <2>3. k # "join"
    BY <1>1, <2>1, <2>2 DEF Asking, Decisions, Undecided
  <2>4. verdict = "done" => k \notin {"create", "leave"} /\ playing[c] # "in_game"
    BY <1>1, <2>1, <2>3 DEF StatusAfter
  <2>5. verdict = "done" => FALSE
    BY <1>1, <2>1, <2>3, <2>4 DEF StatusAfter
  <2>6. playing[c] = "in_game"
    BY <1>1, <2>1, <2>5
  <2>7. k = "step"
    BY <1>1, <1>4, <2>1, <2>2, <2>6 DEF StepAsked, Asked, Fails
  <2>8. verdict = "error"
    BY <2>5, <2>7 DEF Answer
  <2> QED
    BY <1>1, <1>4, <2>8 DEF Fails
<1>6. ASSUME NEW d \in members PROVE StepAsked(d)'
  <2>1. CASE d = c
    BY <1>5, <2>1
  <2>2. CASE d # c
    <3>1. client'[d] = client[d] /\ playing'[d] = playing[d] /\ StepAsked(d)
      BY <1>1, <2>2, SoundClients DEF TInv, Decisions, AllStepAsked
    <3> QED
      BY <1>1, <1>2, <1>3, <3>1 DEF StepAsked, Asked, Fails
  <2> QED
    BY <2>1, <2>2
<1>7. 1 \in Clients /\ (c # 1 => client'[1] = client[1])
  BY <1>1, Members DEF TInv
<1>8. Undecided'
  <2>1. CASE c = 1
    BY <1>1, <1>2, <1>3, <2>1 DEF Decisions, Undecided
  <2>2. CASE c # 1
    BY <1>2, <1>3, <1>7, <2>2 DEF Decisions, Undecided
  <2> QED
    BY <2>1, <2>2
<1> QED
  BY <1>1, <1>6, <1>8 DEF Decisions, AllStepAsked

LEMMA GamesDecide ==
  ASSUME TInv, AllAsk, Decisions, GameActs
  PROVE  Decisions'
<1>1. ASSUME NEW c \in members, NEW verdict \in Verdicts, Answer(c, verdict) PROVE Decisions'
  BY <1>1, AnswerDecides DEF GameActs
<1>2. CASE Decided
  BY <1>2, StepDecides DEF GameActs, Decided
<1>3. UNCHANGED <<mode, phase, at>>
  BY DEF GameActs, coordinatorVars
<1>4. ASSUME NEW c \in members, NEW left \in {"gone", "zombie"}, Crash(c, left) PROVE Decisions'
  <2>1. UNCHANGED <<members, client, playing, over>> /\ process \in [Clients -> {"running", "zombie", "gone"}]
    BY <1>4 DEF Crash, TInv, CInv, IInv, Surroundings
  <2>2. ASSUME NEW d \in Clients, process'[d] = "running" PROVE process[d] = "running"
    BY <1>4, <2>1, <2>2 DEF Crash
  <2>3. AllStepAsked'
    BY <1>3, <2>1, <2>2, SoundClients DEF TInv, Decisions, AllStepAsked, StepAsked, Asked, Fails
  <2>4. Undecided'
    BY <1>3, <2>1 DEF Decisions, Undecided
  <2> QED
    BY <2>3, <2>4 DEF Decisions
<1>5. ASSUME NEW c \in members, Close(c) PROVE Decisions'
  <2>1. /\ client' = [client EXCEPT ![c] = client'[c]] /\ UNCHANGED <<members, process, playing, over>>
        /\ client'[c].queue = client[c].queue /\ client'[c].errors # {}
        /\ client'[c].stage = client[c].stage /\ client'[c].pending = client[c].pending
        /\ client = [d \in Clients |-> client[d]] /\ 1 \in Clients /\ c \in Clients
    BY <1>5, CloseFields, Members DEF TInv, CInv, IInv, gameVars
  <2>2. ASSUME NEW d \in members PROVE StepAsked(d)'
    <3>1. CASE d = c
      BY <1>3, <2>1, <3>1 DEF StepAsked
    <3>2. CASE d # c
      <4>1. client'[d] = client[d] /\ StepAsked(d)
        BY <2>1, <3>2, SoundClients DEF TInv, Decisions, AllStepAsked
      <4> QED
        BY <1>3, <2>1, <4>1 DEF StepAsked, Asked, Fails
    <3> QED
      BY <3>1, <3>2
  <2>3. /\ client'[1].queue = client[1].queue /\ client'[1].stage = client[1].stage
        /\ client'[1].pending = client[1].pending
    BY <2>1
  <2>4. Undecided'
    BY <1>3, <2>1, <2>3 DEF Decisions, Undecided
  <2> QED
    BY <2>1, <2>2, <2>4 DEF Decisions, AllStepAsked
<1> QED
  BY <1>1, <1>2, <1>4, <1>5 DEF GameActs, GameStep

-------------------------------------------------------------------------------
(* Where all bots that have a game are told its end when it ends.             *)
Elsewhere == ~mode.ports \/ mode.threaded \/ mode.realtime

(* Where the step with an agent has been as it should, ...                    *)
Decisive(place, p) ==
    \/ p = "update" /\ (place = "ready" \/ (place = "done" /\ (mode.threaded \/ mode.realtime)))
    \/ p = "serial" /\ place = "done"
    \/ p = "verdict"
    \/ place \in {"acting", "layering"} /\ ~mode.realtime /\ p # "exited"

(* ... a bot that has not been told the end has its game still.               *)
StillOn(r, place, what, p, status) ==
    Decisive(place, p) /\ what = "started" /\ r.errors = {} /\ Elsewhere => status = "in_game"

AllStillOn == \A c \in members : c \in begun => StillOn(client[c], at[c], told[c], phase, playing[c])

EInv == TInv /\ AllAsk /\ Decisions /\ AllStillOn /\ EndToldElsewhere

(* The agent has seen the game going on.                                      *)
LEMMA SeenOn ==
  ASSUME TInv, NEW c \in members, phase # "exited", at[c] \in {"ready", "calling", "ending"}, phase \in Match,
         IsInGame(client[c]), client[c].pending = "none"
  PROVE  playing[c] = "in_game"
<1>1. client[c].stage = "free"
  BY SoundClients DEF TInv, CInv, Coordinated, Quiet, Resting
<1> QED
  BY <1>1, Current DEF IsInGame

LEMMA AgentStillOn ==
  ASSUME EInv, NEW c \in members, phase # "exited", AgentStep(c), c \in begun
  PROVE  StillOn(client'[c], at'[c], told'[c], phase', playing[c])
<1> DEFINE r == client[c]
           s == client'[c]
<1>1. /\ c \in Clients /\ Sound(r) /\ r \in ClientRecord /\ Placed(c) /\ Tells(r, at[c], told[c], playing[c], phase)
      /\ client = [d \in Clients |-> client[d]] /\ at \in [Clients -> Places] /\ told \in [Clients -> Tidings]
      /\ Asking(r, at[c], told[c], phase) /\ StillOn(r, at[c], told[c], phase, playing[c])
  BY SoundClients DEF EInv, TInv, CInv, IInv, Sound, Typed, Coordinated, AllTell, AllAsk, AllStillOn
<1>2. Alone(c) /\ NewlyAsked(c) /\ NewlyAt(c) /\ NewlyDone(c) /\ r.errors \subseteq s.errors
  BY <1>1, AgentAlone, AgentAims, AgentKeeps, CoordinatorOwes DEF EInv, TInv
<1>3. SUFFICES ASSUME Decisive(at'[c], phase'), told'[c] = "started", s.errors = {}, Elsewhere
               PROVE  playing[c] = "in_game"
  BY DEF StillOn
<1>4. phase' = phase
  BY <1>2, <1>3 DEF Alone, Decisive
<1>5. phase \in Match
  <2>1. Placed(c)'
    BY <1>1, AgentKeeps DEF EInv, TInv, Coordinated
  <2> QED
    BY <1>3, <1>4, <2>1 DEF Decisive, Placed, Match, Working
<1>6. told[c] = "started" /\ r.errors = {} /\ r.app = "normal" /\ (at[c] \in Working => phase \in {"update", "serial"})
  BY <1>1, <1>2, <1>3, <1>5 DEF Tells, NewlyDone, Sound, Owing, Placed, Match
<1>7. ~Decisive(at[c], phase) \/ playing[c] = "in_game"
  BY <1>1, <1>3, <1>6 DEF StillOn
<1>8. CASE StepAgent(c)
  BY <1>7, <1>8 DEF StepAgent, Decisive
<1>9. CASE Stepped(c) \/ Observed(c)
  <2>1. phase = "update"
    BY <1>1, <1>5, <1>9 DEF Stepped, Observed, Asking, Match
  <2>2. at'[c] \in {"observing", AfterStep}
    BY <1>1, <1>4, <1>5, <1>9 DEF Stepped, Observed, TakesObservation, GetObservation, Goes, Match
  <2> QED
    BY <1>3, <1>4, <2>1, <2>2 DEF Decisive, AfterStep
<1>10. CASE RealtimeEvents(c)
  <2>1. at'[c] = "acting" /\ at[c] = "events" /\ mode.realtime
    BY <1>1, <1>10 DEF RealtimeEvents, Goes, Asking
  <2> QED
    BY <1>3, <1>4, <1>6, <2>1 DEF Decisive, Working
<1>11. ASSUME RealtimeEnd(c) \/ CallOnStep(c) PROVE playing[c] = "in_game"
  <2>1. at[c] \in {"ending", "calling"} /\ (IsInGame(r) \/ End(c))
    BY <1>11 DEF RealtimeEnd, CallOnStep
  <2>2. ~End(c)
    BY <1>1, <1>3, <1>6 DEF End, OnGameEnd
  <2>3. r.stage = "free" => r.pending = "none"
    BY <1>1, <1>6, <2>1 DEF EInv, TInv, CInv, Coordinated, OwesJoin, Settled, MayOwe, Working
  <2>4. r.stage = "free"
    BY <1>1, <2>1 DEF EInv, TInv, CInv, Coordinated, Quiet, Resting
  <2> QED
    BY <1>5, <2>1, <2>2, <2>3, <2>4, SeenOn DEF EInv
<1>12. CASE SendActions(c) \/ ActionsSent(c)
  <2>1. at[c] \in {"acting", "layering"} /\ at'[c] \in {at[c], AfterActions(c)}
    BY <1>1, <1>12 DEF SendActions, ActionsSent, Goes
  <2>2. CASE ~mode.realtime
    BY <1>4, <1>5, <1>7, <2>1, <2>2 DEF Decisive, Match
  <2>3. CASE mode.realtime
    BY <1>3, <1>4, <1>6, <2>1, <2>3 DEF Decisive, AfterActions, Working
  <2> QED
    BY <2>2, <2>3
<1>13. CASE SerialStep(c)
  <2>1. phase = "serial" /\ ~mode.ports
    BY <1>1, <1>3, <1>13 DEF SerialStep, Tells, Elsewhere
  <2>2. at'[c] = "calling"
    BY <1>1, <1>6, <1>13, <2>1 DEF SerialStep, PollsLeave, Leaves, Goes
  <2> QED
    BY <1>3, <1>4, <2>1, <2>2 DEF Decisive
<1>14. CASE LeaveResponse(c)
  BY <1>1, <1>5, <1>6, <1>14 DEF LeaveResponse, Asking, Match
<1> QED
  BY <1>5, <1>8, <1>9, <1>10, <1>11, <1>12, <1>13, <1>14
  DEF AgentStep, RequestJoinGame, WaitJoinGame, Joined, FirstObservation, FirstObserved, AskToLeave, Drain, Match

LEMMA AgentEnds ==
  ASSUME EInv, NEW c \in members, phase # "exited", AgentStep(c)
  PROVE  AllStillOn' /\ EndToldElsewhere'
<1>1. /\ Alone(c) /\ phase # "stopped" /\ members \subseteq Clients /\ client = [d \in Clients |-> client[d]]
      /\ at \in [Clients -> Places] /\ told \in [Clients -> Tidings]
  BY AgentAlone, AgentAims, Members DEF EInv, TInv, CInv, IInv, Typed, NewlyDone
<1>2. UNCHANGED <<mode, members, playing, begun>> /\ phase' \in {phase, "exited"}
  BY <1>1 DEF Alone, gameVars
<1>3. ASSUME NEW d \in members, d \in begun PROVE StillOn(client'[d], at'[d], told'[d], phase', playing[d])
  <2>1. CASE d = c
    BY <1>3, <2>1, AgentStillOn
  <2>2. CASE d # c
    <3>1. client'[d] = client[d] /\ at'[d] = at[d] /\ told'[d] = told[d]
      BY <1>1, <2>2 DEF Alone
    <3>2. StillOn(client[d], at[d], told[d], phase, playing[d])
      BY <1>3 DEF EInv, AllStillOn
    <3> QED
      BY <1>2, <3>1, <3>2 DEF StillOn, Decisive
  <2> QED
    BY <2>1, <2>2
<1>4. ASSUME NEW d \in members
      PROVE  StillOn(client[d], at[d], told[d], phase, playing[d])'
               <=> StillOn(client'[d], at'[d], told'[d], phase', playing[d])
  BY <1>2 DEF StillOn, Decisive, Elsewhere
<1>5. phase' # "stopped"
  BY <1>1, <1>2
<1> QED
  BY <1>2, <1>3, <1>4, <1>5 DEF AllStillOn, EndToldElsewhere, GameEndTold

(* Update stops over ended games with all of them told.                       *)
LEMMA VerdictEnds ==
  ASSUME EInv, phase = "verdict", AllGamesEnded, NoErrors, Elsewhere, NEW c \in begun
  PROVE  told[c] = "ended"
<1>1. c \in members
  BY DEF EInv, TInv, Typed
<1>2. /\ Sound(client[c]) /\ Tells(client[c], at[c], told[c], playing[c], phase)
      /\ StillOn(client[c], at[c], told[c], phase, playing[c]) /\ client[c].stage = "free"
  BY <1>1, SoundClients DEF EInv, TInv, AllTell, AllStillOn, CInv, Coordinated, Quiet
<1>3. client[c].errors = {} /\ client[c].pending = "none" /\ ~IsInGame(client[c])
  BY <1>1 DEF NoErrors, AllGamesEnded, HasResponsePending
<1>4. client[c].app = "normal"
  BY <1>2, <1>3 DEF Sound, Owing
<1>5. playing[c] # "in_game"
  BY <1>1, <1>2, <1>3, <1>4, Current DEF EInv, IsInGame
<1> QED
  BY <1>2, <1>3, <1>5 DEF StillOn, Decisive, Tells, Match

LEMMA MainEnds ==
  ASSUME EInv, MainStep \/ LeaveGame \/ PlayAgain
  PROVE  AllStillOn' /\ EndToldElsewhere'
<1>1. /\ UNCHANGED <<mode, members, playing>> /\ phase # "exited" /\ members \subseteq Clients
      /\ client = [d \in Clients |-> client[d]] /\ at \in [Clients -> Places] /\ begun \subseteq members
  <2>1. UNCHANGED <<mode, members, playing>> /\ phase # "exited"
    BY DEF MainStep, CreateGame, GameCreated, AllAsked, AllJoined, OnGameStart,
           AllStepped, Verdict, AllAskedToLeave, Drained, LeaveGame, PlayAgain, Stays, gameVars
  <2> QED
    BY <2>1, Members DEF EInv, TInv, CInv, IInv, Typed
<1>2. \A d \in members : Placed(d)'
  BY <1>1, MainKeeps DEF EInv, TInv, Coordinated
<1>3. ASSUME phase' \notin Match PROVE AllStillOn'
  <2>1. ASSUME NEW d \in members PROVE ~Decisive(at'[d], phase')
    BY <1>2, <1>3, <2>1 DEF Decisive, Placed, Working, Match
  <2> QED
    BY <1>1, <2>1 DEF AllStillOn, StillOn, Decisive
<1>4. CASE CreateGame \/ GameCreated
  <2>1. phase' \in {"create", "join", "exited"}
    BY <1>4 DEF CreateGame, GameCreated
  <2> QED
    BY <1>3, <2>1 DEF Match, EndToldElsewhere, GameEndTold
<1>5. CASE AllAsked \/ AllAskedToLeave \/ LeaveGame \/ Drained \/ PlayAgain
  <2>1. phase' \in {"await", "drain", "leave", "left", "create"}
    BY <1>5 DEF AllAsked, AllAskedToLeave, LeaveGame, Drained, PlayAgain, Next
  <2> QED
    BY <1>3, <2>1 DEF Match, EndToldElsewhere, GameEndTold
<1>6. CASE AllJoined
  <2>1. phase' \in {"observe", "stopped"} /\ (phase' = "stopped" => ~NoErrors) /\ client' = client
    BY <1>6 DEF AllJoined, Next
  <2> QED
    BY <1>1, <1>3, <2>1 DEF Match, EndToldElsewhere, GameEndTold, NoErrors
<1>7. CASE OnGameStart
  <2>1. phase' = "update" /\ begun' = {c \in members : playing[c] = "in_game"}
    BY <1>7 DEF OnGameStart, Next
  <2> QED
    BY <1>1, <2>1 DEF AllStillOn, StillOn, EndToldElsewhere, GameEndTold
<1>8. CASE AllStepped
  <2>1. /\ phase \in {"update", "serial"} /\ AllDone /\ UNCHANGED <<client, told, begun>>
        /\ \A d \in members : at'[d] = "ready"
        /\ phase' = IF phase = "update" /\ ~mode.threaded /\ ~mode.realtime THEN "serial" ELSE "verdict"
    BY <1>1, <1>8 DEF AllStepped, Next, AllReady
  <2>2. ASSUME NEW d \in members, d \in begun
        PROVE  StillOn(client[d], at'[d], told[d], phase', playing[d])
    <3>1. StillOn(client[d], at[d], told[d], phase, playing[d])
      BY <2>2 DEF EInv, AllStillOn
    <3> QED
      BY <2>1, <3>1 DEF StillOn, Decisive, AllDone
  <2>3. AllStillOn'
    BY <1>1, <2>1, <2>2 DEF AllStillOn, StillOn, Decisive, Elsewhere
  <2> QED
    BY <2>1, <2>3 DEF EndToldElsewhere, GameEndTold
<1>9. CASE Verdict
  <2>1. /\ phase = "verdict" /\ phase' = IF ~NoErrors \/ AllGamesEnded THEN "stopped" ELSE "update"
        /\ UNCHANGED <<client, at, told, begun>>
    BY <1>9 DEF Verdict
  <2>2. AllStillOn'
    BY <1>1, <2>1 DEF EInv, AllStillOn, StillOn, Decisive, Elsewhere
  <2>3. EndToldElsewhere'
    BY <1>1, <2>1, VerdictEnds DEF EndToldElsewhere, GameEndTold, NoErrors, Elsewhere
  <2> QED
    BY <2>2, <2>3
<1> QED
  BY <1>4, <1>5, <1>6, <1>7, <1>8, <1>9 DEF MainStep


(* No game is over for an agent that has not yet seen to it.                  *)
LEMMA AnswerEnds ==
  ASSUME EInv, NEW c \in members, NEW verdict \in Verdicts, Answer(c, verdict), c \in begun,
         Decisive(at[c], phase), told[c] = "started", client[c].errors = {}, Elsewhere
  PROVE  playing'[c] = "in_game"
<1> DEFINE r == client[c]
           k == r.pending
<1>1. /\ c \in Clients /\ r.wire # <<>> /\ Head(r.wire) = k /\ r.queue = <<>>
      /\ playing' = [playing EXCEPT ![c] = IF verdict = "done" THEN StatusAfter(c, k) ELSE playing[c]]
      /\ playing \in [Clients -> Statuses] /\ Sound(r)
  <2>1. c \in Clients /\ Sound(r) /\ r.wire # <<>> /\ r.queue = <<>>
    BY AnswerFields, SoundClients DEF EInv, TInv, CInv
  <2>2. Head(r.wire) = k
    BY <2>1, OnItsWay
  <2> QED
    BY <2>1, <2>2 DEF EInv, TInv, CInv, IInv, Surroundings, Answer
<1>2. /\ Asking(r, at[c], told[c], phase) /\ StillOn(r, at[c], told[c], phase, playing[c]) /\ StepAsked(c)
      /\ Placed(c) /\ (Quiet(c) => r.stage = "free")
      /\ ~OwesJoin(c) /\ phase # "exited" => Settled(r, at[c], phase)
  BY <1>1 DEF EInv, AllAsk, AllStillOn, Decisions, AllStepAsked, TInv, CInv, Coordinated
<1>3. playing[c] = "in_game"
  BY <1>2 DEF StillOn
<1>4. phase \in Match /\ at[c] # "stepping"
  BY <1>2 DEF Decisive, Placed, Working, Match, Asking
<1>5. k \notin {"create", "join", "step", "leave"}
  BY <1>1, <1>2, <1>4 DEF Asking, Match
<1>6. ASSUME mode.realtime PROVE FALSE
  <2>1. r.stage = "free" /\ r.app = "normal" /\ phase # "exited" /\ ~OwesJoin(c)
    BY <1>1, <1>2, <1>4, <1>6 DEF Decisive, Quiet, Resting, Sound, Owing, OwesJoin, Match
  <2>2. k \in {"none", "leave"}
    BY <1>2, <2>1 DEF Settled, MayOwe
  <2> QED
    BY <1>1, <1>5, <2>2, OnItsWay
<1>7. ~over
  BY <1>1, <1>2, <1>3, <1>4, <1>5, <1>6 DEF StepAsked, Asked, Fails, Answer, Heard, Match
<1>8. StatusAfter(c, k) = "in_game"
  BY <1>3, <1>5, <1>7 DEF StatusAfter
<1> QED
  BY <1>1, <1>3, <1>8

(* A step of a wait or of a game, with which no bot is told anything.         *)
LEMMA OthersEnd ==
  ASSUME EInv, UNCHANGED <<coordinatorVars, members>>,
         \A d \in members : client[d].errors \subseteq client'[d].errors,
         \A d \in members : d \in begun /\ Decisive(at[d], phase) /\ told[d] = "started" /\ client[d].errors = {}
                               /\ Elsewhere => playing'[d] = "in_game"
  PROVE  AllStillOn' /\ EndToldElsewhere'
<1>1. UNCHANGED <<mode, phase, at, told, begun, members>>
  BY DEF coordinatorVars
<1>2. AllStillOn'
  BY <1>1 DEF AllStillOn, StillOn, Decisive, Elsewhere
<1>3. EndToldElsewhere'
  BY <1>1 DEF EInv, EndToldElsewhere, GameEndTold, NoErrors
<1> QED
  BY <1>2, <1>3

LEMMA WaitEnds ==
  ASSUME EInv, NEW c \in members, WaitStep(c), UNCHANGED coordinatorVars
  PROVE  AllStillOn' /\ EndToldElsewhere'
<1>1. /\ c \in Clients /\ client[c].errors \subseteq client'[c].errors
      /\ client' = [client EXCEPT ![c] = client'[c]] /\ UNCHANGED <<members, playing>>
      /\ members \subseteq Clients /\ client = [d \in Clients |-> client[d]]
  BY MovedOn, Members DEF EInv, TInv, CInv, IInv, Moves
<1>2. \A d \in members : client[d].errors \subseteq client'[d].errors
  BY <1>1
<1> QED
  BY <1>1, <1>2, OthersEnd DEF EInv, AllStillOn, StillOn

LEMMA GamesEnd ==
  ASSUME EInv, GameStep, UNCHANGED coordinatorVars
  PROVE  AllStillOn' /\ EndToldElsewhere'
<1>1. /\ members' = members /\ members \subseteq Clients /\ client = [d \in Clients |-> client[d]] /\ IInv
      /\ playing \in [Clients -> Statuses]
  BY Members DEF EInv, TInv, CInv, IInv, Surroundings, GameStep, Answer, Decided, Crash, Close
<1>2. ASSUME NEW d \in members PROVE client[d].errors \subseteq client'[d].errors
  <2>1. ASSUME NEW c \in members, NEW verdict \in Verdicts, Answer(c, verdict)
        PROVE  client[d].errors \subseteq client'[d].errors
    BY <1>1, <2>1, AnswerFields
  <2>2. ASSUME NEW c \in members, Close(c) PROVE client[d].errors \subseteq client'[d].errors
    BY <1>1, <2>2, CloseFields
  <2> QED
    BY <2>1, <2>2 DEF GameStep, Decided, Crash
<1>3. ASSUME NEW d \in members, d \in begun, Decisive(at[d], phase), told[d] = "started", client[d].errors = {},
             Elsewhere
      PROVE  playing'[d] = "in_game"
  <2>1. playing[d] = "in_game"
    BY <1>3 DEF EInv, AllStillOn, StillOn
  <2>2. ASSUME NEW c \in members, NEW verdict \in Verdicts, Answer(c, verdict) PROVE playing'[d] = "in_game"
    <3>1. CASE c = d
      BY <1>3, <2>2, <3>1, AnswerEnds
    <3>2. CASE c # d
      BY <1>1, <2>1, <2>2, <3>2 DEF Answer
    <3> QED
      BY <3>1, <3>2
  <2> QED
    BY <2>1, <2>2 DEF GameStep, Decided, Crash, Close, gameVars
<1> QED
  BY <1>1, <1>2, <1>3, OthersEnd

LEMMA EndsInit == Init => EInv
<1> SUFFICES ASSUME Init PROVE EInv
  OBVIOUS
<1>1. TInv /\ members \subseteq Clients
  BY TellsInit, Members DEF TInv
<1>2. /\ phase = "create" /\ ~over /\ begun = {} /\ \A d \in Clients : at[d] = "ready" /\ client[d] = Attached
      /\ 1 \in Clients
  BY ClientsAssumption DEF Init, ControlInit, Clients
<1>3. AllAsk
  BY <1>1, <1>2 DEF AllAsk, Asking, Attached, Match
<1>4. Decisions
  BY <1>2 DEF Decisions, AllStepAsked, StepAsked, Undecided
<1>5. AllStillOn /\ EndToldElsewhere
  BY <1>2 DEF AllStillOn, EndToldElsewhere, GameEndTold
<1> QED
  BY <1>1, <1>3, <1>4, <1>5 DEF EInv

LEMMA EndsStep == EInv /\ [Act]_vars => EInv'
<1> SUFFICES ASSUME EInv, [Act]_vars PROVE EInv'
  OBVIOUS
<1>1. TInv'
  BY TellsStep DEF EInv
<1> DEFINE Good == AllAsk' /\ Decisions' /\ AllStillOn' /\ EndToldElsewhere'
<1>2. ASSUME NEW c \in members, phase # "exited", AgentStep(c) PROVE Good
  BY <1>2, AgentAsks, AgentDecides, AgentEnds DEF EInv
<1>3. ASSUME NEW c \in members, WaitStep(c), UNCHANGED coordinatorVars PROVE Good
  BY <1>3, WaitAsks, WaitDecides, WaitEnds DEF EInv
<1>4. ASSUME MainStep \/ LeaveGame \/ PlayAgain PROVE Good
  BY <1>4, MainAsks, MainDecides, MainEnds DEF EInv
<1>5. ASSUME GameActs PROVE Good
  BY <1>5, GamesAsk, GamesDecide, GamesEnd DEF EInv, GameActs
<1>6. ASSUME UNCHANGED vars PROVE Good
  <2>1. UNCHANGED <<members, client, process, playing, over, mode, phase, at, told, begun>>
    BY <1>6 DEF vars, controlVars, gameVars, coordinatorVars
  <2>2. AllAsk'
    BY <2>1 DEF EInv, AllAsk, Asking
  <2>3. Decisions'
    BY <2>1 DEF EInv, Decisions, AllStepAsked, StepAsked, Undecided, Asked, Fails
  <2>4. AllStillOn' /\ EndToldElsewhere'
    BY <2>1 DEF EInv, AllStillOn, StillOn, Decisive, Elsewhere, EndToldElsewhere, GameEndTold, NoErrors
  <2> QED
    BY <2>2, <2>3, <2>4
<1>7. Good
  BY <1>2, <1>3, <1>4, <1>5, <1>6 DEF Act, Step, Finished
<1> QED
  BY <1>1, <1>7 DEF EInv

(* Every bot that had a game is told of its end when Update stops over ended  *)
(* games, but where agents that play each other are stepped one by one.       *)
THEOREM EndIsTold == Spec => []EndToldElsewhere
<1>1. EInv => EndToldElsewhere
  BY DEF EInv
<1> QED
  BY <1>1, EndsInit, EndsStep, PTL DEF Spec
-------------------------------------------------------------------------------
(* Where the agents are in a phase, ...                                       *)
Laid(place, p) ==
    /\ p = "join" => place \in {"ready", "done"}
    /\ p = "await" => place \in {"ready", "joining", "done"}
    /\ p = "verdict" => place = "ready"
    /\ place = "stepping" => ~mode.realtime

(* ... of which one at a time waits for its join.                             *)
AllLaid ==
    \A c \in members :
        /\ Laid(at[c], phase)
        /\ phase = "await" /\ at[c] = "joining" => Turn(c)

(* The program ends itself only over errors, or where nobody waits.           *)
ExitExplained == phase = "exited" => ~NoErrors \/ \A c \in members : client[c].stage # "waiting"

(* An agent stays where its phase lets it be.                                 *)
LEMMA AgentLaid ==
  ASSUME TInv, AllLaid, NEW c \in members, phase # "exited", AgentStep(c)
  PROVE  /\ Laid(at'[c], phase)
         /\ phase = "await" /\ at'[c] = "joining" => Turn(c)
         /\ phase = "await" => at[c] # "done"
<1>1. /\ c \in Clients /\ Placed(c) /\ Laid(at[c], phase) /\ at \in [Clients -> Places]
  BY SoundClients DEF TInv, CInv, Coordinated, Typed, AllLaid
<1> DEFINE Good == /\ Laid(at'[c], phase)
                   /\ phase = "await" /\ at'[c] = "joining" => Turn(c)
                   /\ phase = "await" => at[c] # "done"
<1>2. ASSUME RequestJoinGame(c) \/ FirstObservation(c) \/ FirstObserved(c) PROVE Good
  <2>1. phase \in {"join", "observe"} /\ at'[c] \in {at[c], "done", "observing"}
    BY <1>1, <1>2 DEF RequestJoinGame, FirstObservation, FirstObserved, GetObservation, TakesObservation, Goes
  <2>2. phase = "join" => at'[c] \in {at[c], "done"}
    BY <1>1, <1>2 DEF RequestJoinGame, FirstObservation, FirstObserved, Goes
  <2> QED
    BY <1>1, <2>1, <2>2 DEF Laid
<1>3. ASSUME WaitJoinGame(c) \/ Joined(c) PROVE Good
  <2>1. phase = "await" /\ at'[c] \in {"joining", "done"} /\ at[c] # "done" /\ (at'[c] = "joining" => Turn(c))
    BY <1>1, <1>3 DEF WaitJoinGame, Joined, Goes, Runs
  <2> QED
    BY <2>1 DEF Laid
<1>4. ASSUME phase \notin {"join", "await", "verdict"}, at'[c] = "stepping" => ~mode.realtime PROVE Good
  BY <1>4 DEF Laid
<1>5. ASSUME StepAgent(c) PROVE Good
  <2>1. phase = "update"
    BY <1>5 DEF StepAgent
  <2>2. at'[c] = "stepping" => ~mode.realtime
    BY <1>1, <1>5 DEF StepAgent, PollsLeave, GetObservation, Goes
  <2> QED
    BY <1>4, <2>1, <2>2
<1>6. ASSUME at[c] \in Working \/ phase \in {"update", "serial", "leave", "drain"}, at'[c] # "stepping" PROVE Good
  BY <1>1, <1>4, <1>6 DEF Placed, Laid
<1>7. ASSUME Stepped(c) \/ Observed(c) \/ RealtimeEvents(c) \/ RealtimeEnd(c) \/ CallOnStep(c) \/ SendActions(c)
               \/ ActionsSent(c)
      PROVE  Good
  <2>1. at[c] \in Working \/ phase = "update"
    BY <1>7 DEF Stepped, Observed, RealtimeEvents, RealtimeEnd, CallOnStep, SendActions, ActionsSent, Working
  <2>2. at'[c] # "stepping"
    BY <1>1, <1>7 DEF Stepped, Observed, GetObservation, TakesObservation, RealtimeEvents, RealtimeEnd, CallOnStep,
                      End, SendActions, ActionsSent, AfterStep, AfterActions, Goes
  <2> QED
    BY <1>6, <2>1, <2>2
<1>8. ASSUME SerialStep(c) \/ AskToLeave(c) \/ Drain(c) PROVE Good
  <2>1. phase \in {"serial", "leave", "drain"} /\ at'[c] # "stepping"
    BY <1>1, <1>8 DEF SerialStep, AskToLeave, Drain, PollsLeave, Goes
  <2> QED
    BY <1>6, <2>1
<1>9. ASSUME LeaveResponse(c) PROVE Good
  <2>1. phase \notin {"join", "await", "verdict"} /\ at'[c] # "stepping"
    BY <1>1, <1>9 DEF LeaveResponse, Goes, Placed
  <2> QED
    BY <1>4, <2>1
<1> QED
  BY <1>2, <1>3, <1>5, <1>7, <1>8, <1>9 DEF AgentStep

(* So the agents, the coordinator and the others keep these two; a program    *)
(* that ends itself has sent nothing it waits for, or has lost an observation. *)
LEMMA AgentFits ==
  ASSUME TInv, AllFly, AllLaid, ExitExplained, NEW c \in members, phase # "exited", AgentStep(c)
  PROVE  AllLaid' /\ ExitExplained'
<1>1. /\ Alone(c) /\ members \subseteq Clients /\ client = [d \in Clients |-> client[d]]
      /\ at \in [Clients -> Places]
  BY AgentAlone, Members DEF TInv, CInv, IInv, Typed
<1>2. /\ UNCHANGED <<mode, members>> /\ phase' \in {phase, "exited"}
      /\ \A d \in members \ {c} : client'[d] = client[d] /\ at'[d] = at[d]
  BY <1>1 DEF Alone
<1>3. /\ Laid(at'[c], phase)
      /\ phase = "await" /\ at'[c] = "joining" => Turn(c)
      /\ phase = "await" => at[c] # "done"
  BY AgentLaid
<1>4. ASSUME NEW d \in members PROVE Laid(at'[d], phase')
  <2>1. Laid(at'[d], phase)
    BY <1>2, <1>3 DEF AllLaid
  <2> QED
    BY <1>2, <2>1 DEF Laid
<1>5. ASSUME NEW d \in members, phase' = "await", at'[d] = "joining" PROVE \A e \in members : e < d => at'[e] = "done"
  <2>1. phase = "await"
    BY <1>2, <1>5
  <2>2. Turn(d)
    BY <1>2, <1>3, <1>5, <2>1 DEF AllLaid
  <2>3. \A e \in members : e < d => e # c
    BY <1>3, <2>1, <2>2 DEF Turn
  <2> QED
    BY <1>2, <2>2, <2>3 DEF Turn
<1>6. AllLaid'
  BY <1>2, <1>4, <1>5 DEF AllLaid, Turn, Laid
<1>7. ASSUME RequestJoinGame(c), phase' = "exited" PROVE ExitExplained'
  <2>1. phase = "join"
    BY <1>7 DEF RequestJoinGame
  <2>2. \A d \in members : client[d].stage = "free" /\ Sound(client[d])
    BY <2>1, SoundClients DEF AllLaid, Laid, TInv, CInv, Coordinated, Quiet, Resting
  <2>3. PICK reached \in BOOLEAN : client'[c] = SendRequest(client[c], "join", reached)
    BY <1>1, <1>7 DEF RequestJoinGame, Becomes, Reachable
  <2>4. client'[c].stage = "free"
    <3>1. "join" \in Kinds
      BY DEF Kinds, Requests
    <3> QED
      BY <2>2, <2>3, <3>1, SendRequestSound
  <2> QED
    BY <1>2, <2>2, <2>4 DEF ExitExplained
<1>8. ASSUME NEW then, TakesObservation(c, then), phase' = "exited" PROVE ExitExplained'
  <2>1. client[c].stage = "lost" /\ UNCHANGED client
    BY <1>8 DEF TakesObservation
  <2>2. client[c].errors # {}
    BY <1>1, <2>1 DEF AllFly, Flies
  <2> QED
    BY <1>2, <2>1, <2>2 DEF ExitExplained, NoErrors
<1>9. ASSUME phase' = phase PROVE ExitExplained'
  BY <1>9 DEF ExitExplained
<1>10. \/ phase' = phase \/ RequestJoinGame(c) \/ \E then : TakesObservation(c, then)
  BY DEF AgentStep, WaitJoinGame, Joined, FirstObservation, FirstObserved, StepAgent, Stepped, Observed,
         RealtimeEvents, RealtimeEnd, CallOnStep, SendActions, ActionsSent, SerialStep, LeaveResponse,
         AskToLeave, Drain
<1>11. ExitExplained'
  BY <1>2, <1>7, <1>8, <1>9, <1>10
<1> QED
  BY <1>6, <1>11

LEMMA MainFits ==
  ASSUME TInv, AllLaid, ExitExplained, MainStep \/ LeaveGame \/ PlayAgain
  PROVE  AllLaid' /\ ExitExplained'
<1>1. /\ UNCHANGED <<mode, members>> /\ phase # "exited" /\ members \subseteq Clients /\ 1 \in members
      /\ client = [d \in Clients |-> client[d]] /\ at \in [Clients -> Places]
      /\ \A d \in members : Laid(at[d], phase) /\ Sound(client[d])
  <2>1. UNCHANGED <<mode, members>> /\ phase # "exited"
    BY DEF MainStep, CreateGame, GameCreated, AllAsked, AllJoined, OnGameStart,
           AllStepped, Verdict, AllAskedToLeave, Drained, LeaveGame, PlayAgain, Stays
  <2> QED
    BY <2>1, Members, SoundClients DEF TInv, CInv, IInv, Typed, AllLaid
<1>2. ASSUME AllReady, phase' # "exited" PROVE AllLaid' /\ ExitExplained'
  <2>1. \A d \in members : at'[d] = "ready"
    BY <1>1, <1>2 DEF AllReady
  <2> QED
    BY <1>1, <1>2, <2>1 DEF AllLaid, Laid, ExitExplained
<1>3. ASSUME UNCHANGED at, phase' \notin {"join", "await", "verdict", "exited"} PROVE AllLaid' /\ ExitExplained'
  BY <1>1, <1>3 DEF AllLaid, Laid, ExitExplained
<1>4. ASSUME AllAsked \/ OnGameStart \/ AllStepped \/ AllAskedToLeave \/ PlayAgain PROVE AllReady /\ phase' # "exited"
  BY <1>4 DEF AllAsked, OnGameStart, AllStepped, AllAskedToLeave, PlayAgain, Next
<1>5. ASSUME Verdict \/ LeaveGame \/ Drained PROVE UNCHANGED at /\ phase' \notin {"join", "await", "verdict", "exited"}
  BY <1>5 DEF Verdict, LeaveGame, Drained
<1>6. CASE AllJoined
  BY <1>2, <1>3, <1>6 DEF AllJoined, Next
<1>7. ASSUME phase = "create", NEW d \in members, d # 1 PROVE client[d].stage = "free"
  BY <1>7, SoundClients DEF TInv, CInv, Coordinated, Quiet
<1>8. CASE CreateGame
  <2>1. PICK reached \in BOOLEAN :
            /\ Becomes(1, SendAndWait(client[1], "create", reached))
            /\ IF Accepts(client[1], reached)
               THEN Goes(1, "creating") /\ phase' = phase
               ELSE at' = at /\ phase' = "exited"
    BY <1>8 DEF CreateGame, Reachable
  <2>2. phase = "create" /\ phase' \in {"create", "exited"} /\ client[1].stage = "free"
    BY <1>1, <1>8, <2>1, SoundClients DEF CreateGame, TInv, CInv, Coordinated, Quiet, Resting
  <2>3. \A d \in members : at'[d] = at[d] \/ at'[d] = "creating"
    BY <1>1, <2>1 DEF Goes
  <2>4. AllLaid'
    BY <1>1, <2>2, <2>3 DEF AllLaid, Laid
  <2>5. ASSUME phase' = "exited" PROVE \A d \in members : client'[d].stage = "free"
    <3>1. ~Accepts(client[1], reached)
      BY <2>1, <2>2, <2>5
    <3>2. client'[1].stage = "free"
      BY <1>1, <2>1, <2>2, <3>1, SendRequestSound DEF SendAndWait, Becomes, Kinds, Requests
    <3> QED
      BY <1>1, <1>7, <2>1, <2>2, <3>2 DEF Becomes
  <2> QED
    BY <1>1, <2>4, <2>5 DEF ExitExplained
<1>9. CASE GameCreated
  <2>1. /\ phase = "create" /\ AllReady /\ phase' \in {"join", "exited"}
        /\ client' = [client EXCEPT ![1] = Returned(client[1])]
    BY <1>9 DEF GameCreated, Becomes
  <2>2. \A d \in members : at'[d] = "ready"
    BY <1>1, <2>1 DEF AllReady
  <2>3. AllLaid'
    BY <1>1, <2>1, <2>2 DEF AllLaid, Laid
  <2>4. client'[1].stage = "free"
    BY <1>1, <2>1 DEF Returned, Sound, ClientRecord
  <2>5. \A d \in members : client'[d].stage = "free"
    BY <1>1, <1>7, <2>1, <2>4
  <2> QED
    BY <1>1, <2>3, <2>5 DEF ExitExplained
<1> QED
  BY <1>2, <1>3, <1>4, <1>5, <1>6, <1>8, <1>9 DEF MainStep

LEMMA OthersFit ==
  ASSUME TInv, AllLaid, ExitExplained, UNCHANGED coordinatorVars,
         GameStep \/ (phase # "exited" /\ \E c \in members : WaitStep(c))
  PROVE  AllLaid' /\ ExitExplained'
<1>1. UNCHANGED <<mode, phase, at, members>>
  BY DEF coordinatorVars, GameStep, Answer, Decided, Crash, Close, WaitStep, Receive, TimeOut, GiveUp, Crashed, Ping,
         ReceivePing, Unreachable, GiveUpPing, Terminate
<1>2. AllLaid'
  BY <1>1 DEF AllLaid, Laid, Turn
<1>3. ASSUME GameStep, NEW d \in members PROVE client'[d].stage = client[d].stage /\ client[d].errors \subseteq client'[d].errors
  <2>1. IInv /\ members \subseteq Clients
    BY Members DEF TInv, CInv
  <2>2. client'[d].stage = client[d].stage
    BY <1>3, <2>1, GameFields DEF TInv
  <2>3. ASSUME NEW c \in members, NEW verdict \in Verdicts, Answer(c, verdict) PROVE client[d].errors \subseteq client'[d].errors
    BY <2>1, <2>3, AnswerFields DEF IInv
  <2>4. ASSUME NEW c \in members, Close(c) PROVE client[d].errors \subseteq client'[d].errors
    BY <2>1, <2>4, CloseFields DEF IInv
  <2>5. ASSUME UNCHANGED client PROVE client[d].errors \subseteq client'[d].errors
    BY <2>5
  <2> QED
    BY <1>3, <2>2, <2>3, <2>4, <2>5 DEF GameStep, Decided, Crash
<1>4. ExitExplained'
  BY <1>1, <1>3 DEF ExitExplained, NoErrors
<1> QED
  BY <1>2, <1>4
-------------------------------------------------------------------------------
(* While no game has failed: the games that are on, ...                       *)
AllWell == \A c \in members : process[c] = "running" /\ client[c].errors = {}
InGame == {c \in members : playing[c] = "in_game"}

(* ... whose request for k is on its way, or has come to nothing; ...         *)
Out(r, k) == r.pending = k /\ (r.wire # <<>> \/ Fails(r))

(* ... those that have yet to make the step of an update, and those that are  *)
(* gone from the match, or will be when they hear of it.                      *)
ToStep(c) == at[c] = "ready" \/ Out(client[c], "step")
Gone(c) == playing[c] # "in_game" \/ Out(client[c], "leave")

(* In an update either none has made the step, and all have to, or those have *)
(* to that have not made it.  So before it all have made the same steps, and  *)
(* a match begins with none made.                                             *)
Stepping ==
    \/ \A c \in InGame : ToStep(c) /\ c \in stepped
    \/ \A c \in InGame : ToStep(c) <=> c \notin stepped

Round ==
    AllWell /\ ~mode.realtime =>
        /\ phase = "update" => Stepping
        /\ phase \in {"join", "await"} => InGame \cap stepped = {}
        /\ phase \notin {"update", "join", "await", "exited"} =>
              InGame \subseteq stepped \/ InGame \cap stepped = {}

(* What a match leaves behind: no game that is on, but that of the agent who  *)
(* creates the next one.                                                      *)
Created(r) == r.stage = "answered" \/ (r.pending = "create" /\ r.queue # <<>> /\ Head(r.queue).verdict = "done")

Left ==
    AllWell =>
        /\ phase = "stopped" => InGame = {}
        /\ phase = "leave" /\ mode.ports => \A c \in members : at[c] = "done" => Gone(c)
        /\ phase \in {"drain", "left"} /\ mode.ports => \A c \in members : Gone(c)
        /\ phase = "create" => InGame \subseteq {1}
        /\ phase = "create" /\ at[1] = "creating" /\ Created(client[1]) => 1 \notin InGame

SInv == TInv /\ AllAsk /\ Decisions /\ AllFly /\ AllLaid /\ ExitExplained /\ Round /\ Left

(* What fails now will have failed.                                           *)
LEMMA WellBefore ==
  ASSUME CInv, Use \/ (\E c \in members : WaitStep(c)) \/ GameStep, AllWell'
  PROVE  AllWell
<1>1. IInv /\ members \subseteq Clients /\ client = [d \in Clients |-> client[d]]
      /\ process \in [Clients -> {"running", "zombie", "gone"}]
  BY Members DEF CInv, IInv, Surroundings
<1>2. ASSUME Use PROVE AllWell
  <2>1. UNCHANGED <<members, process>>
    BY <1>2 DEF Use, gameVars
  <2>2. \A c \in Clients : client[c].errors \subseteq client'[c].errors
    BY <1>2, CoordinatorOwes
  <2> QED
    BY <1>1, <2>1, <2>2 DEF AllWell
<1>3. ASSUME NEW c \in members, WaitStep(c) PROVE AllWell
  <2>1. /\ UNCHANGED members /\ client[c].errors \subseteq client'[c].errors
        /\ client' = [client EXCEPT ![c] = client'[c]]
    BY <1>1, <1>3, MovedOn DEF Moves
  <2>2. \A d \in members : process[d] = "running" /\ client[d].errors \subseteq client'[d].errors
    BY <1>1, <1>3, <2>1, RunsYet DEF AllWell
  <2> QED
    BY <2>1, <2>2 DEF AllWell
<1>4. ASSUME NEW c \in members, NEW verdict \in Verdicts, Answer(c, verdict) PROVE AllWell
  <2>1. UNCHANGED <<members, process>> /\ \A d \in members : client'[d].errors = client[d].errors
    BY <1>1, <1>4, AnswerFields
  <2> QED
    BY <2>1 DEF AllWell
<1>5. ASSUME NEW c \in members, Close(c) PROVE AllWell
  <2>1. members' = members /\ "ConnectionClosed" \in client'[c].errors
    BY <1>1, <1>5, CloseFields
  <2> QED
    BY <2>1 DEF AllWell
<1>6. ASSUME Decided PROVE AllWell
  BY <1>6 DEF Decided, AllWell
<1>7. ASSUME NEW c \in members, NEW left \in {"gone", "zombie"}, Crash(c, left) PROVE AllWell
  BY <1>1, <1>7 DEF Crash, AllWell
<1> QED
  BY <1>2, <1>3, <1>4, <1>5, <1>6, <1>7 DEF GameStep

(* A client of a game that has not failed.                                    *)
LEMMA Well ==
  ASSUME SInv, AllWell, NEW c \in members
  PROVE  /\ c \in Clients /\ Sound(client[c]) /\ client[c].errors = {} /\ client[c].app = "normal"
         /\ client[c].link = "open" /\ client[c].stage # "lost" /\ process[c] = "running"
         /\ client[c].pending # "none" => client[c].wire # <<>> \/ client[c].queue # <<>>
         /\ Asking(client[c], at[c], told[c], phase) /\ Laid(at[c], phase) /\ Placed(c)
         /\ Quiet(c) => client[c].stage = "free"
         /\ ~OwesJoin(c) /\ phase # "exited" => Settled(client[c], at[c], phase)
         /\ Tells(client[c], at[c], told[c], playing[c], phase)
<1>1. c \in Clients /\ Sound(client[c])
  BY SoundClients DEF SInv, TInv
<1>2. client[c].errors = {} /\ process[c] = "running"
  BY DEF AllWell
<1>3. client[c].app = "normal"
  BY <1>1, <1>2 DEF Sound, Owing
<1>4. Flies(client[c]) /\ Asking(client[c], at[c], told[c], phase) /\ Laid(at[c], phase)
      /\ Tells(client[c], at[c], told[c], playing[c], phase)
  BY <1>1 DEF SInv, AllFly, AllAsk, AllLaid, TInv, AllTell
<1>5. /\ Placed(c) /\ (Quiet(c) => client[c].stage = "free")
      /\ ~OwesJoin(c) /\ phase # "exited" => Settled(client[c], at[c], phase)
  BY <1>1 DEF SInv, TInv, CInv, Coordinated
<1> QED
  BY <1>1, <1>2, <1>3, <1>4, <1>5 DEF Flies

(* What is out stays so while the coordinator goes on, ...                    *)
LEMMA UseOut ==
  ASSUME SInv, AllWell, Use, NEW c \in members, client'[c].errors = {}, NEW k \in Kinds
  PROVE  /\ Out(client[c], k) => Out(client'[c], k)
         /\ Out(client'[c], k) => Out(client[c], k) \/ (client'[c].pending = k /\ client'[c].wire # <<>>)
<1>1. /\ Sound(client[c]) /\ client[c].link = "open"
      /\ client'[c].queue = client[c].queue /\ OwesThen(client[c], client'[c])
  BY Well, CoordinatorOwes DEF SInv, TInv
<1>2. CASE /\ client'[c].pending = client[c].pending /\ client'[c].wire = client[c].wire
           /\ client'[c].link = "open"
  BY <1>1, <1>2 DEF Out, Fails
<1>3. CASE client[c].pending = "none" /\ client'[c].wire # <<>>
  BY <1>3 DEF Out, Kinds, Requests
<1> QED
  BY <1>1, <1>2, <1>3 DEF OwesThen

(* ... and while its response is waited for.                                  *)
LEMMA WaitOut ==
  ASSUME SInv, AllWell, NEW c \in members, WaitStep(c), client'[c].errors = {}, NEW k \in Kinds
  PROVE  Out(client'[c], k) <=> Out(client[c], k)
<1>1. /\ Sound(client[c]) /\ client[c].link = "open" /\ IInv /\ c \in Clients
      /\ client[c].pending # "none" => client[c].wire # <<>> \/ client[c].queue # <<>>
  BY Well DEF SInv, TInv, CInv
<1>2. Moves(client[c], client'[c])
  BY <1>1, MovedOn
<1>3. client[c].stage \in Waits
  BY DEF WaitStep, Receive, TimeOut, GiveUp, Crashed, Ping, ReceivePing, Unreachable, GiveUpPing, Waits
<1>4. client[c].pending # "none"
  BY <1>1, <1>3 DEF Sound, Owing
<1>5. CASE client[c].queue # <<>>
  <2>1. client[c].wire = <<>> /\ Head(client[c].queue).verdict # "error" /\ client'[c].pending = "none"
    BY <1>1, <1>2, <1>5, FirstResponse DEF Moves
  <2> QED
    BY <2>1 DEF Out, Fails, Kinds, Requests
<1>6. CASE client[c].queue = <<>>
  <2>1. client'[c].wire = client[c].wire /\ client'[c].pending = client[c].pending /\ client[c].wire # <<>>
    BY <1>1, <1>2, <1>4, <1>6 DEF Moves
  <2> QED
    BY <2>1 DEF Out
<1> QED
  BY <1>5, <1>6
-------------------------------------------------------------------------------
(* The agents.                                                                *)

(* In an update, an agent whose game is on asks it to step.                   *)
LEMMA AsksToStep ==
  ASSUME SInv, AllWell, NEW c \in InGame, phase = "update", ~mode.realtime, at[c] = "ready", StepAgent(c),
         client'[c].errors = {}
  PROVE  Out(client'[c], "step")
<1> DEFINE r == client[c]
<1>1. /\ c \in members /\ c \in Clients /\ Sound(r) /\ r.app = "normal" /\ r.errors = {} /\ r.link = "open"
      /\ r.stage = "free" /\ playing[c] = "in_game" /\ r.pending \in {"none", "leave"}
      /\ Asking(r, at[c], told[c], phase) /\ Tells(r, at[c], told[c], playing[c], phase)
      /\ client = [d \in Clients |-> client[d]]
  <2>1. c \in members /\ playing[c] = "in_game"
    BY DEF InGame
  <2>2. r.stage = "free" /\ ~OwesJoin(c)
    BY <2>1, Well DEF Quiet, Resting, OwesJoin
  <2> QED
    BY <2>1, <2>2, Well DEF Settled, MayOwe, SInv, TInv, CInv, IInv
<1>2. r.pending = "none"
  BY <1>1 DEF Asking, Tells, Match
<1>3. IsInGame(r)
  BY <1>1, <1>2, Current DEF SInv, IsInGame
<1>4. ~Leaves(r) /\ PolledLeave(r) = r /\ ~IsFinishedGame(r)
  BY <1>1, <1>2, <1>3 DEF Leaves, PolledLeave, IsFinishedGame
<1>5. PICK reached \in BOOLEAN : client'[c] = WaitFor(SendRequest(r, "step", reached), "step")
  BY <1>1, <1>4 DEF StepAgent, PollsLeave, Becomes, Reachable
<1>6. Reconnect(r, reached) = r /\ SendRequest(r, "step", reached) = Send(r, "step")
  BY <1>1, <1>2 DEF Reconnect, SendRequest, HasResponsePending
<1>7. /\ Send(r, "step") \in ClientRecord /\ Send(r, "step").pending = "step" /\ Send(r, "step").wire = <<"step">>
  BY <1>1, <1>2, NothingOut, SendFields DEF Sound, Kinds, Requests
<1>8. client'[c].pending = "step" /\ client'[c].wire = <<"step">>
  BY <1>5, <1>6, <1>7 DEF WaitFor, ClientRecord
<1> QED
  BY <1>8 DEF Out

LEMMA AgentToStep ==
  ASSUME SInv, AllWell, AllWell', NEW c \in InGame, phase = "update", ~mode.realtime, AgentStep(c),
         phase' = "update"
  PROVE  ToStep(c)' <=> ToStep(c)
<1>1. /\ c \in members /\ members' = members /\ Use /\ Alone(c) /\ at \in [Clients -> Places] /\ c \in Clients
  BY AgentKeeps, AgentAlone, SoundClients DEF InGame, SInv, TInv, Typed, Alone
<1>2. client'[c].errors = {}
  BY <1>1 DEF AllWell
<1>3. CASE at[c] = "ready"
  <2>1. StepAgent(c)
    BY <1>1, <1>3 DEF AgentStep, RequestJoinGame, WaitJoinGame, Joined, FirstObservation, FirstObserved, Stepped,
         Observed, TakesObservation, RealtimeEvents, RealtimeEnd, CallOnStep, SendActions, ActionsSent, SerialStep,
         LeaveResponse, AskToLeave, Drain
  <2> QED
    BY <1>2, <1>3, <2>1, AsksToStep DEF ToStep
<1>4. CASE at[c] # "ready"
  <2>1. at'[c] \notin {"ready", "stepping"}
    BY <1>1, <1>4 DEF AgentStep, RequestJoinGame, WaitJoinGame, Joined, FirstObservation, FirstObserved, StepAgent,
         Stepped, Observed, GetObservation, TakesObservation, AfterStep, RealtimeEvents, RealtimeEnd, CallOnStep, End,
         SendActions, ActionsSent, AfterActions, SerialStep, LeaveResponse, AskToLeave, Drain, Goes
  <2>2. Asking(client[c], at[c], told[c], phase)'
    BY <1>1, AgentAsks DEF SInv, AllAsk
  <2>3. ~(client'[c].pending = "step" /\ client'[c].wire # <<>>)
    BY <2>1, <2>2 DEF Asking
  <2>4. Out(client'[c], "step") <=> Out(client[c], "step")
    BY <1>1, <1>2, <2>3, UseOut DEF Kinds, Requests
  <2> QED
    BY <1>4, <2>1, <2>4 DEF ToStep
<1> QED
  BY <1>3, <1>4

(* A program that leaves a match asks all agents to.                          *)
LEMMA AgentGone ==
  ASSUME SInv, AllWell, AllWell', NEW c \in members, phase = "leave", mode.ports, AgentStep(c)
  PROVE  Out(client'[c], "leave")
<1> DEFINE r == client[c]
<1>1. /\ c \in Clients /\ Sound(r) /\ r.link = "open" /\ Placed(c) /\ (Quiet(c) => r.stage = "free")
      /\ client = [d \in Clients |-> client[d]]
  BY Well DEF SInv, TInv, CInv, IInv
<1>2. AskToLeave(c)
  BY <1>1 DEF Placed, Working, AgentStep, RequestJoinGame, WaitJoinGame, Joined, FirstObservation, FirstObserved,
              StepAgent, Stepped, Observed, RealtimeEvents, RealtimeEnd, CallOnStep, SendActions, ActionsSent,
              SerialStep, LeaveResponse, Drain
<1>3. client'[c] = SendRequest(r, "leave", FALSE) /\ r.stage = "free" /\ members' = members
  BY <1>1, <1>2 DEF AskToLeave, RequestLeaveGame, Becomes, Quiet, Resting, Stays
<1>4. client'[c].errors = {}
  BY <1>3 DEF AllWell
<1>5. Reconnect(r, FALSE) = r
  BY <1>1 DEF Reconnect
<1>6. r.pending = "none"
  <2>1. SUFFICES ASSUME r.pending # "none" PROVE FALSE
    OBVIOUS
  <2>2. client'[c] = Error(r, "ResponseNotConsumed")
    BY <1>1, <1>3, <1>5, <2>1 DEF SendRequest, HasResponsePending
  <2> QED
    BY <1>1, <1>4, <2>2 DEF Error, Sound, ClientRecord
<1>7. client'[c] = Send(r, "leave")
  BY <1>1, <1>3, <1>5, <1>6 DEF SendRequest, HasResponsePending
<1>8. client'[c].pending = "leave" /\ client'[c].wire = <<"leave">>
  BY <1>1, <1>6, <1>7, NothingOut, SendFields DEF Sound, Kinds, Requests
<1> QED
  BY <1>8 DEF Out

(* An agent's step leaves its update as even as it was.                       *)
LEMMA AgentRounds ==
  ASSUME SInv, NEW c \in members, phase # "exited", AgentStep(c)
  PROVE  Round' /\ Left'
<1>1. /\ Use /\ Alone(c) /\ phase # "create" /\ members \subseteq Clients /\ client = [d \in Clients |-> client[d]]
      /\ at \in [Clients -> Places] /\ c \in Clients
  BY AgentKeeps, AgentAlone, NotCreating, Members DEF SInv, TInv, CInv, IInv, Typed
<1>2. /\ UNCHANGED <<mode, members, playing, stepped>> /\ InGame' = InGame /\ phase' \in {phase, "exited"}
      /\ \A d \in members \ {c} : client'[d] = client[d] /\ at'[d] = at[d]
  BY <1>1 DEF Alone, gameVars, InGame
<1>3. CASE phase' = "exited"
  BY <1>3 DEF Round, Left
<1>4. CASE phase' = phase
  <2>1. SUFFICES ASSUME AllWell' PROVE Round' /\ Left'
    BY DEF Round, Left
  <2>2. AllWell
    BY <1>1, <2>1, WellBefore DEF SInv, TInv
  <2>3. ASSUME phase = "update", ~mode.realtime PROVE Stepping'
    <3>1. \A d \in InGame : ToStep(d)' <=> ToStep(d)
      <4>1. TAKE d \in InGame
      <4>2. CASE d = c
        BY <1>4, <2>1, <2>2, <2>3, <4>2, AgentToStep
      <4>3. CASE d # c
        BY <1>2, <4>3 DEF ToStep, InGame
      <4> QED
        BY <4>2, <4>3
    <3>2. Stepping
      BY <2>2, <2>3 DEF SInv, Round
    <3> QED
      BY <1>2, <3>1, <3>2 DEF Stepping
  <2>4. Round'
    BY <1>2, <1>4, <2>2, <2>3 DEF SInv, Round
  <2>5. ASSUME NEW d \in members, mode.ports,
               phase \in {"drain", "left"} \/ (phase = "leave" /\ at'[d] = "done")
        PROVE  Gone(d)'
    <3>1. CASE d # c
      BY <1>2, <2>2, <2>5, <3>1 DEF SInv, Left, Gone
    <3>2. CASE d = c /\ phase = "leave"
      BY <2>1, <2>2, <2>5, <3>2, AgentGone DEF Gone
    <3>3. CASE d = c /\ phase \in {"drain", "left"}
      <4>1. Gone(c)
        BY <2>2, <2>5, <3>3 DEF SInv, Left
      <4>2. Out(client[c], "leave") => Out(client'[c], "leave")
        BY <1>1, <1>2, <2>1, <2>2, UseOut DEF AllWell, Kinds, Requests
      <4> QED
        BY <1>2, <3>3, <4>1, <4>2 DEF Gone
    <3> QED
      BY <2>5, <3>1, <3>2, <3>3
  <2>6. Left'
    BY <1>1, <1>2, <1>4, <2>2, <2>5 DEF SInv, Left
  <2> QED
    BY <2>4, <2>6
<1> QED
  BY <1>2, <1>3, <1>4
-------------------------------------------------------------------------------
(* The coordinator itself.                                                    *)

(* With a response to every request, what a client knows is what its game is. *)
LEMMA NoneInGame ==
  ASSUME SInv, AllWell, phase = "verdict", AllGamesEnded
  PROVE  InGame = {}
<1> SUFFICES ASSUME NEW c \in InGame PROVE FALSE
  OBVIOUS
<1>1. c \in members /\ playing[c] = "in_game"
  BY DEF InGame
<1>2. client[c].pending = "none" /\ ~IsInGame(client[c])
  BY <1>1 DEF AllGamesEnded, HasResponsePending
<1>3. client[c].app = "normal" /\ client[c].stage = "free"
  BY <1>1, Well DEF Quiet
<1> QED
  BY <1>1, <1>2, <1>3, Current DEF SInv, IsInGame

(* All agents done, no step is out.                                           *)
LEMMA NoneToStep ==
  ASSUME SInv, AllWell, phase \in {"update", "serial"}, NEW c \in members, at[c] = "done"
  PROVE  ~ToStep(c)
<1>1. client[c].stage = "free" /\ client[c].app = "normal" /\ ~OwesJoin(c) /\ Settled(client[c], at[c], phase)
  BY Well DEF Quiet, Resting, OwesJoin
<1>2. client[c].pending # "step"
  BY <1>1 DEF Settled, MayOwe
<1> QED
  BY <1>2 DEF ToStep, Out

(* A phase begins as the one before it ended.                                 *)
LEMMA MainRounds ==
  ASSUME SInv, MainStep \/ LeaveGame \/ PlayAgain
  PROVE  Round' /\ Left'
<1>1. /\ UNCHANGED <<mode, members, gameVars>> /\ Use /\ members \subseteq Clients /\ 1 \in members
      /\ client = [d \in Clients |-> client[d]] /\ at \in [Clients -> Places]
  <2>1. UNCHANGED <<mode, members, gameVars>>
    BY DEF MainStep, CreateGame, GameCreated, AllAsked, AllJoined, OnGameStart,
           AllStepped, Verdict, AllAskedToLeave, Drained, LeaveGame, PlayAgain, Stays
  <2> QED
    BY <2>1, MainKeeps, Members DEF SInv, TInv, CInv, IInv, Typed
<1>2. SUFFICES ASSUME AllWell', phase' # "exited" PROVE Round' /\ Left'
  BY DEF Round, Left
<1>3. AllWell
  BY <1>1, <1>2, WellBefore DEF SInv, TInv
<1>4. UNCHANGED <<playing, stepped>> /\ InGame' = InGame
  BY <1>1 DEF gameVars, InGame
<1>5. NoErrors
  BY <1>3 DEF AllWell, NoErrors
<1> DEFINE Same == InGame \subseteq stepped \/ InGame \cap stepped = {}
<1>6. /\ phase \notin {"update", "join", "await", "exited"} /\ ~mode.realtime => Same
      /\ phase \in {"join", "await"} /\ ~mode.realtime => InGame \cap stepped = {}
      /\ phase = "update" /\ ~mode.realtime => Stepping
  BY <1>3 DEF SInv, Round
<1>7. ASSUME phase' \notin {"update", "join", "await"}, ~mode.realtime => Same PROVE Round'
  BY <1>1, <1>4, <1>7 DEF Round
<1>8. ASSUME phase' \in {"join", "await"}, ~mode.realtime => InGame \cap stepped = {} PROVE Round'
  BY <1>1, <1>4, <1>8 DEF Round
<1>9. ASSUME phase' = "update", ~mode.realtime => Same, \A c \in members : at'[c] = "ready" PROVE Round'
  <2>1. \A c \in InGame : ToStep(c)'
    BY <1>9 DEF ToStep, InGame
  <2>2. ~mode.realtime => Stepping'
    BY <1>4, <1>9, <2>1 DEF Stepping
  <2> QED
    BY <1>1, <1>9, <2>2 DEF Round
<1>10. ASSUME phase' \notin {"stopped", "leave", "drain", "left", "create"} PROVE Left'
  BY <1>10 DEF Left
<1>11. CASE CreateGame
  <2>1. /\ phase = "create" /\ phase' = "create"
        /\ client'[1].stage = "waiting" /\ client'[1].queue = <<>>
    BY <1>2, <1>11, Creates DEF SInv, TInv, CreateGame
  <2>2. ~Created(client'[1])
    BY <2>1 DEF Created
  <2> QED
    BY <1>3, <1>4, <1>6, <1>7, <2>1, <2>2 DEF SInv, Left
<1>12. CASE GameCreated
  <2>1. phase = "create" /\ phase' = "join" /\ Created(client[1]) /\ at[1] = "creating"
    BY <1>2, <1>12 DEF GameCreated, Created
  <2>2. InGame = {}
    BY <1>3, <2>1 DEF SInv, Left
  <2> QED
    BY <1>8, <1>10, <2>1, <2>2
<1>13. CASE AllAsked
  <2>1. phase = "join" /\ phase' = "await"
    BY <1>13 DEF AllAsked, Next
  <2> QED
    BY <1>6, <1>8, <1>10, <2>1
<1>14. CASE AllJoined
  <2>1. phase = "await" /\ phase' = "observe"
    BY <1>5, <1>14 DEF AllJoined, Next
  <2> QED
    BY <1>6, <1>7, <1>10, <2>1
<1>15. CASE OnGameStart
  <2>1. phase = "observe" /\ phase' = "update" /\ \A c \in members : at'[c] = "ready"
    BY <1>1, <1>15 DEF OnGameStart, Next, AllReady
  <2> QED
    BY <1>6, <1>9, <1>10, <2>1
<1>16. CASE AllStepped
  <2>1. phase \in {"update", "serial"} /\ phase' \in {"serial", "verdict"} /\ AllDone
    BY <1>16 DEF AllStepped, Next
  <2>2. ASSUME phase = "update", ~mode.realtime PROVE Same
    <3>1. \A c \in InGame : ~ToStep(c)
      BY <1>3, <2>1, NoneToStep DEF AllDone, InGame
    <3> QED
      BY <1>6, <2>2, <3>1 DEF Stepping
  <2> QED
    BY <1>6, <1>7, <1>10, <2>1, <2>2
<1>17. CASE Verdict
  <2>1. /\ phase = "verdict" /\ UNCHANGED at /\ phase' = IF AllGamesEnded THEN "stopped" ELSE "update"
        /\ \A c \in members : at'[c] = "ready"
    BY <1>5, <1>17 DEF Verdict, SInv, AllLaid, Laid
  <2>2. CASE AllGamesEnded
    <3>1. InGame' = {} /\ phase' = "stopped"
      BY <1>3, <1>4, <2>1, <2>2, NoneInGame
    <3> QED
      BY <1>6, <1>7, <2>1, <3>1 DEF Left
  <2>3. CASE ~AllGamesEnded
    BY <1>6, <1>9, <1>10, <2>1, <2>3
  <2> QED
    BY <2>2, <2>3
<1>18. CASE LeaveGame
  <2>1. phase = "verdict" /\ phase' = "leave" /\ \A c \in members : at'[c] = "ready"
    BY <1>18 DEF LeaveGame, SInv, AllLaid, Laid
  <2>2. Left'
    BY <1>1, <2>1 DEF Left
  <2> QED
    BY <1>6, <1>7, <2>1, <2>2
<1>19. CASE AllAskedToLeave
  <2>1. phase = "leave" /\ phase' = "drain" /\ AllDone /\ UNCHANGED client
    BY <1>19 DEF AllAskedToLeave, Next
  <2>2. mode.ports => \A c \in members : Gone(c)
    BY <1>3, <2>1 DEF SInv, Left, AllDone
  <2>3. Left'
    BY <1>1, <1>4, <2>1, <2>2 DEF Left, Gone
  <2> QED
    BY <1>6, <1>7, <2>1, <2>3
<1>20. CASE Drained
  <2>1. phase = "drain" /\ phase' = "left" /\ UNCHANGED client
    BY <1>20 DEF Drained
  <2>2. Left'
    BY <1>1, <1>3, <1>4, <2>1 DEF SInv, Left, Gone
  <2> QED
    BY <1>6, <1>7, <2>1, <2>2
<1>21. CASE PlayAgain
  <2>1. /\ phase \in {"stopped", "left"} /\ phase' = "create" /\ AllReady /\ UNCHANGED client
        /\ phase = "left" => \A c \in members : ~Owes(c)
    BY <1>21 DEF PlayAgain
  <2>2. InGame \subseteq {1}
    <3>1. CASE phase = "stopped"
      BY <1>3, <3>1 DEF SInv, Left
    <3>2. CASE phase = "left" /\ mode.ports
      <4>1. ASSUME NEW c \in members PROVE playing[c] # "in_game"
        <5>1. client[c].pending = "none"
          BY <1>3, <2>1, <3>2, Well DEF Owes, HasResponsePending
        <5>2. Gone(c)
          BY <1>3, <3>2 DEF SInv, Left
        <5> QED
          BY <5>1, <5>2 DEF Gone, Out
      <4> QED
        BY <4>1 DEF InGame
    <3>3. CASE ~mode.ports
      <4>1. mode \in Modes /\ members = 1..mode.agents
        BY DEF SInv, TInv, CInv, Coordinated
      <4>2. mode.agents \in Nat /\ ~(mode.agents > 1)
        BY <3>3, <4>1, ModesAssumption, ClientsAssumption DEF Mode, Clients
      <4> QED
        BY <4>1, <4>2 DEF InGame
    <3> QED
      BY <2>1, <3>1, <3>2, <3>3
  <2>3. at'[1] = "ready"
    BY <1>1, <2>1 DEF AllReady
  <2>4. Left'
    BY <1>4, <2>1, <2>2, <2>3 DEF Left
  <2> QED
    BY <1>6, <1>7, <2>1, <2>4
<1> QED
  BY <1>11, <1>12, <1>13, <1>14, <1>15, <1>16, <1>17, <1>18, <1>19, <1>20, <1>21 DEF MainStep
-------------------------------------------------------------------------------
(* The waits and the games.                                                   *)

LEMMA WaitRounds ==
  ASSUME SInv, NEW c \in members, WaitStep(c), UNCHANGED coordinatorVars
  PROVE  Round' /\ Left'
<1>1. SUFFICES ASSUME AllWell' PROVE Round' /\ Left'
  BY DEF Round, Left
<1>2. AllWell /\ c \in Clients /\ Moves(client[c], client'[c]) /\ Sound(client[c])
      /\ client' = [client EXCEPT ![c] = client'[c]]
      /\ UNCHANGED <<mode, phase, at, members, playing, stepped>>
  BY <1>1, WellBefore, SoundClients, MovedOn DEF SInv, TInv, CInv, coordinatorVars
<1>3. InGame' = InGame /\ members \subseteq Clients /\ client = [d \in Clients |-> client[d]] /\ 1 \in members
  BY <1>2, Members DEF InGame, SInv, TInv, CInv, IInv
<1>4. ASSUME NEW d \in members, NEW k \in Kinds PROVE Out(client'[d], k) <=> Out(client[d], k)
  <2>1. CASE d = c
    BY <1>1, <1>2, <2>1, WaitOut DEF AllWell
  <2>2. CASE d # c
    BY <1>2, <1>3, <2>2
  <2> QED
    BY <2>1, <2>2
<1>5. \A d \in members : (ToStep(d)' <=> ToStep(d)) /\ (Gone(d)' <=> Gone(d))
  BY <1>2, <1>4 DEF ToStep, Gone, Kinds, Requests
<1>6. ASSUME phase = "create", at[1] = "creating", Created(client'[1]) PROVE Created(client[1])
  <2>1. CASE c # 1
    BY <1>2, <1>3, <1>6, <2>1
  <2>2. CASE c = 1
    BY <1>2, <1>6, <2>2 DEF Created, Moves, SInv, Decisions, Undecided
  <2> QED
    BY <2>1, <2>2
<1>7. Stepping => Stepping'
  BY <1>2, <1>3, <1>5 DEF Stepping, InGame
<1>8. Round'
  BY <1>2, <1>3, <1>7 DEF SInv, Round
<1>9. Left'
  BY <1>2, <1>3, <1>5, <1>6 DEF SInv, Left
<1> QED
  BY <1>8, <1>9

(* The step of an update, made by one of those that are to make it.           *)
LEMMA Steps ==
  ASSUME SInv, AllWell, NEW c \in members, Answer(c, "done"), UNCHANGED coordinatorVars, phase = "update",
         ~mode.realtime, client[c].pending = "step", playing[c] = "in_game", ~ToStep(c)',
         \A d \in members \ {c} : ToStep(d)' <=> ToStep(d)
  PROVE  Stepping'
<1>1. /\ c \in Clients /\ Head(client[c].wire) = "step" /\ client[c].wire # <<>> /\ members' = members
      /\ playing' = [playing EXCEPT ![c] = StatusAfter(c, "step")] /\ stepped' = Ahead \cup {c}
      /\ playing \in [Clients -> Statuses] /\ members \subseteq Clients /\ Rendezvous(c, "step")
  <2>1. "done" \in Verdicts /\ IInv
    BY DEF Verdicts, SInv, TInv, CInv
  <2>2. c \in Clients /\ Head(client[c].wire) = "step" /\ client[c].wire # <<>> /\ members' = members
    BY <2>1, AnswerFields
  <2> QED
    BY <2>1, <2>2, Members DEF SInv, TInv, CInv, IInv, Surroundings, Answer, CanAnswer
<1>2. Present = InGame /\ c \in InGame /\ InGame' \subseteq InGame /\ InGame' \ {c} = InGame \ {c}
  BY <1>1 DEF Present, InGame, AllWell
<1>3. c \notin Ahead /\ \A d \in InGame : Asked(d, "step") \/ d \in Ahead
  BY <1>1, <1>2 DEF Rendezvous
<1>4. ToStep(c)
  BY <1>1 DEF ToStep, Out
<1>5. ASSUME NEW d \in InGame, Asked(d, "step") PROVE ToStep(d)
  <2>1. Sound(client[d])
    BY <1>5, Well DEF InGame
  <2> QED
    BY <1>5, <2>1, OnItsWay DEF Asked, ToStep, Out
<1>6. CASE \A d \in InGame : ToStep(d) /\ d \in stepped
  <2>1. Ahead = {} /\ stepped' = {c}
    BY <1>1, <1>2, <1>6 DEF Ahead
  <2>2. \A d \in InGame' : ToStep(d)' <=> d \notin stepped'
    BY <1>2, <1>6, <2>1 DEF InGame
  <2> QED
    BY <2>2 DEF Stepping
<1>7. CASE \A d \in InGame : ToStep(d) <=> d \notin stepped
  <2>1. Ahead = stepped /\ stepped' = stepped \cup {c}
    BY <1>1, <1>2, <1>4, <1>7 DEF Ahead
  <2>2. \A d \in InGame' : ToStep(d)' <=> d \notin stepped'
    BY <1>2, <1>7, <2>1 DEF InGame
  <2> QED
    BY <2>2 DEF Stepping
<1> QED
  BY <1>6, <1>7 DEF SInv, Round, Stepping

(* Another answer makes no step, and no game begin but in a match that begins. *)
LEMMA AnswerRounds ==
  ASSUME SInv, AllWell, NEW c \in members, NEW verdict \in Verdicts, Answer(c, verdict), UNCHANGED coordinatorVars,
         phase # "exited"
  PROVE  Round' /\ Left'
<1> DEFINE r == client[c]
           s == client'[c]
           k == r.pending
<1>1. /\ c \in Clients /\ r.wire # <<>> /\ Head(r.wire) = k /\ k \in Kinds /\ r.queue = <<>>
      /\ client' = [client EXCEPT ![c] = s] /\ client = [d \in Clients |-> client[d]]
      /\ s.wire = <<>> /\ s.queue # <<>> /\ Head(s.queue).verdict = verdict
      /\ s.pending = k /\ s.link = "open" /\ s.stage = r.stage /\ s.errors = {} /\ Sound(r)
      /\ playing' = [playing EXCEPT ![c] = IF verdict = "done" THEN StatusAfter(c, k) ELSE playing[c]]
      /\ playing \in [Clients -> Statuses] /\ members \subseteq Clients
      /\ UNCHANGED <<members, process, mode, phase, at>>
  <2>1. IInv /\ members \subseteq Clients /\ playing \in [Clients -> Statuses] /\ Sound(r)
        /\ client = [d \in Clients |-> client[d]] /\ r.errors = {} /\ r.link = "open"
        /\ UNCHANGED <<mode, phase, at>>
    BY Well, Members DEF SInv, TInv, CInv, IInv, Surroundings, coordinatorVars
  <2> DEFINE first == Head(r.wire)
             response == [kind |-> first, status |-> playing'[c], verdict |-> verdict]
  <2>2. response.verdict = verdict
    OBVIOUS
  <2> HIDE DEF response
  <2>3. /\ c \in Clients /\ r.wire # <<>> /\ first = r.pending /\ first \in Kinds /\ r.queue = <<>>
        /\ client' = [client EXCEPT ![c] = s]
        /\ s.wire = <<>> /\ s.queue # <<>> /\ Head(s.queue) = response
        /\ s.stage = r.stage /\ s.pending = r.pending /\ s.errors = r.errors /\ s.link = r.link
        /\ playing' = [playing EXCEPT ![c] = IF verdict = "done" THEN StatusAfter(c, first) ELSE playing[c]]
        /\ members' = members /\ process' = process
    BY <2>1, AnswerFields DEF response
  <2> QED
    BY <2>1, <2>2, <2>3
<1>2. /\ verdict = "refused" => k \in {"create", "join"}
      /\ stepped' = CASE k = "step" /\ verdict = "done" /\ playing[c] = "in_game" -> Ahead \cup {c}
                      [] k = "join" /\ verdict = "done" -> stepped \ {c}
                      [] OTHER -> stepped
  BY <1>1 DEF Answer
<1>3. /\ Asking(r, at[c], told[c], phase) /\ Laid(at[c], phase) /\ r.errors = {}
  BY Well
<1>4. k = "step" => at[c] = "stepping" /\ phase = "update" /\ ~mode.realtime
  BY <1>1, <1>3 DEF Asking, Laid
<1>5. k = "join" => phase \in {"join", "await"}
  BY <1>3 DEF Asking
<1>6. k # "join" \/ verdict # "done" => InGame' \subseteq InGame
  BY <1>1 DEF InGame, StatusAfter
<1>7. InGame' \subseteq InGame \cup {c}
  BY <1>1 DEF InGame
<1>8. \A d \in members \ {c} : client'[d] = client[d] /\ (ToStep(d)' <=> ToStep(d)) /\ (Gone(d)' <=> Gone(d))
  BY <1>1 DEF ToStep, Gone
<1>9. \A l \in Kinds : (Out(r, l) <=> k = l) /\ (Out(s, l) <=> k = l /\ verdict = "error")
  BY <1>1 DEF Out, Fails
<1>10. Round'
  <2>1. SUFFICES ASSUME ~mode.realtime
                 PROVE  /\ phase = "update" => Stepping'
                        /\ phase \in {"join", "await"} => InGame' \cap stepped' = {}
                        /\ phase \notin {"update", "join", "await", "exited"} =>
                              InGame' \subseteq stepped' \/ InGame' \cap stepped' = {}
    BY <1>1 DEF Round
  <2>2. /\ phase = "update" => Stepping
        /\ phase \in {"join", "await"} => InGame \cap stepped = {}
        /\ phase \notin {"update", "join", "await", "exited"} =>
              InGame \subseteq stepped \/ InGame \cap stepped = {}
    BY <2>1 DEF SInv, Round
  <2>3. CASE k = "step" /\ verdict = "done" /\ playing[c] = "in_game"
    <3>1. ~ToStep(c)'
      BY <1>1, <1>4, <1>9, <2>3 DEF ToStep, Kinds, Requests
    <3> QED
      BY <1>4, <1>8, <2>1, <2>3, <3>1, Steps
  <2>4. CASE k = "join" /\ verdict = "done"
    <3>1. phase \in {"join", "await"} /\ stepped' = stepped \ {c}
      BY <1>2, <1>5, <2>4
    <3> QED
      BY <1>7, <2>2, <3>1
  <2>5. CASE ~(k = "step" /\ verdict = "done" /\ playing[c] = "in_game") /\ ~(k = "join" /\ verdict = "done")
    <3>1. stepped' = stepped /\ InGame' \subseteq InGame
      BY <1>2, <1>6, <2>5
    <3>2. ASSUME NEW d \in InGame' PROVE ToStep(d)' <=> ToStep(d)
      <4>1. CASE d = c
        <5>1. playing[c] = "in_game"
          BY <3>1, <3>2, <4>1 DEF InGame
        <5>2. k = "step" => verdict = "error"
          BY <1>2, <2>5, <5>1 DEF Verdicts
        <5> QED
          BY <1>1, <1>9, <4>1, <5>2 DEF ToStep, Kinds, Requests
      <4>2. CASE d # c
        BY <1>1, <1>8, <3>2, <4>2 DEF InGame
      <4> QED
        BY <4>1, <4>2
    <3>3. Stepping => Stepping'
      BY <3>1, <3>2 DEF Stepping
    <3> QED
      BY <2>2, <3>1, <3>3
  <2> QED
    BY <2>3, <2>4, <2>5
<1>11. Left'
  <2>1. ASSUME phase \notin {"join", "await"} PROVE InGame' \subseteq InGame
    BY <1>5, <1>6, <2>1
  <2>2. ASSUME NEW d \in members, Gone(d), phase \notin {"join", "await"} PROVE Gone(d)'
    <3>1. CASE d # c
      BY <1>8, <2>2, <3>1
    <3>2. CASE d = c /\ playing[c] # "in_game"
      <4>1. playing'[c] # "in_game"
        BY <1>1, <2>1, <2>2, <3>2 DEF InGame
      <4> QED
        BY <3>2, <4>1 DEF Gone
    <3>3. CASE d = c /\ Out(r, "leave")
      <4>1. k = "leave"
        BY <3>3 DEF Out
      <4>2. verdict = "done" => playing'[c] = "launched"
        <5>1. StatusAfter(c, k) = "launched"
          BY <4>1 DEF StatusAfter
        <5> QED
          BY <1>1, <3>3, <5>1
      <4>3. verdict # "done" => Out(s, "leave")
        BY <1>2, <1>9, <4>1 DEF Verdicts, Kinds, Requests
      <4> QED
        BY <3>3, <4>2, <4>3 DEF Gone
    <3> QED
      BY <2>2, <3>1, <3>2, <3>3 DEF Gone
  <2>3. ASSUME phase = "create", at[1] = "creating", Created(client'[1]), 1 \in InGame' PROVE FALSE
    <3>1. 1 \in InGame /\ ~Created(client[1])
      BY <2>1, <2>3 DEF SInv, Left
    <3>2. c = 1
      BY <1>1, <2>3, <3>1
    <3>3. k = "create" /\ verdict = "done"
      BY <1>1, <2>3, <3>1, <3>2 DEF Created
    <3> QED
      BY <1>1, <2>3, <3>2, <3>3 DEF StatusAfter, InGame
  <2> QED
    BY <1>1, <2>1, <2>2, <2>3 DEF SInv, Left
<1> QED
  BY <1>10, <1>11

LEMMA GamesRounds ==
  ASSUME SInv, GameStep, UNCHANGED coordinatorVars
  PROVE  Round' /\ Left'
<1>1. UNCHANGED <<mode, phase, at>>
  BY DEF coordinatorVars
<1>2. SUFFICES ASSUME AllWell', phase # "exited" PROVE Round' /\ Left'
  BY <1>1 DEF Round, Left
<1>3. AllWell /\ IInv /\ members \subseteq Clients
  BY <1>2, WellBefore, Members DEF SInv, TInv, CInv
<1>4. ASSUME NEW c \in members, Close(c) PROVE FALSE
  BY <1>2, <1>3, <1>4, CloseFields DEF AllWell
<1>5. ASSUME NEW c \in members, NEW left \in {"gone", "zombie"}, Crash(c, left) PROVE FALSE
  BY <1>2, <1>3, <1>5 DEF Crash, AllWell, IInv, Surroundings
<1>6. CASE Decided
  <2>1. UNCHANGED <<members, client, process, playing, stepped>>
    BY <1>6 DEF Decided
  <2>2. InGame' = InGame /\ \A c \in members : (ToStep(c)' <=> ToStep(c)) /\ (Gone(c)' <=> Gone(c))
    BY <1>1, <2>1 DEF InGame, ToStep, Gone
  <2>3. Stepping => Stepping'
    BY <2>1, <2>2 DEF Stepping, InGame
  <2> QED
    BY <1>1, <1>3, <2>1, <2>2, <2>3 DEF SInv, Round, Left
<1> QED
  BY <1>2, <1>3, <1>4, <1>5, <1>6, AnswerRounds DEF GameStep
-------------------------------------------------------------------------------
LEMMA StandsInit == Init => SInv
<1> SUFFICES ASSUME Init PROVE SInv
  OBVIOUS
<1>1. TInv /\ AllAsk /\ Decisions
  BY EndsInit DEF EInv
<1>2. AllFly
  BY FliesInit DEF Init
<1>3. /\ phase = "create" /\ \A d \in Clients : at[d] = "ready" /\ playing[d] = "launched"
      /\ members \subseteq Clients /\ stepped = {} /\ 1 \in Clients
  BY <1>1, Members, ClientsAssumption DEF Init, ControlInit, TInv, Clients
<1>4. AllLaid /\ ExitExplained
  BY <1>3 DEF AllLaid, Laid, ExitExplained
<1>5. InGame = {}
  BY <1>3 DEF InGame
<1>6. Round /\ Left
  BY <1>3, <1>5 DEF Round, Left
<1> QED
  BY <1>1, <1>2, <1>4, <1>6 DEF SInv

LEMMA StandsStep == SInv /\ [Act]_vars => SInv'
<1> SUFFICES ASSUME SInv, [Act]_vars PROVE SInv'
  OBVIOUS
<1>1. TInv'
  BY TellsStep DEF SInv
<1>2. AllFly'
  BY CoordinatedStep, FliesStep DEF SInv, TInv, CInv
<1> DEFINE Good == AllAsk' /\ Decisions' /\ AllLaid' /\ ExitExplained' /\ Round' /\ Left'
<1>3. ASSUME NEW c \in members, phase # "exited", AgentStep(c) PROVE Good
  BY <1>3, AgentAsks, AgentDecides, AgentFits, AgentRounds DEF SInv
<1>4. ASSUME NEW c \in members, phase # "exited", WaitStep(c), UNCHANGED coordinatorVars PROVE Good
  BY <1>4, WaitAsks, WaitDecides, OthersFit, WaitRounds DEF SInv
<1>5. ASSUME MainStep \/ LeaveGame \/ PlayAgain PROVE Good
  BY <1>5, MainAsks, MainDecides, MainFits, MainRounds DEF SInv
<1>6. ASSUME GameActs PROVE Good
  BY <1>6, GamesAsk, GamesDecide, OthersFit, GamesRounds DEF SInv, GameActs
<1>7. ASSUME UNCHANGED vars PROVE Good
  <2>1. UNCHANGED <<members, client, process, playing, over, stepped, mode, phase, at, told, begun>>
    BY <1>7 DEF vars, controlVars, gameVars, coordinatorVars
  <2>2. AllAsk' /\ AllLaid' /\ ExitExplained'
    BY <2>1 DEF SInv, AllAsk, Asking, AllLaid, Laid, Turn, ExitExplained, NoErrors
  <2>3. Decisions'
    BY <2>1 DEF SInv, Decisions, AllStepAsked, StepAsked, Undecided, Asked, Fails
  <2>4. Round' /\ Left'
    BY <2>1 DEF SInv, Round, Left, AllWell, InGame, Stepping, ToStep, Gone, Out, Fails, Created
  <2> QED
    BY <2>2, <2>3, <2>4
<1>8. Good
  BY <1>3, <1>4, <1>5, <1>6, <1>7 DEF Act, Step, Finished
<1> QED
  BY <1>1, <1>2, <1>8 DEF SInv

(* Nobody waits for a join some agent has not been asked for yet ...          *)
LEMMA JoinsMeet ==
  ASSUME SInv, Healthy, phase # "exited", NEW c \in members, client[c].stage = "waiting", Asked(c, "join"),
         \A d \in members : client[d].queue = <<>>
  PROVE  Rendezvous(c, "join")
<1>1. AllWell
  BY DEF Healthy, AllWell
<1>2. client[c].pending = "join" /\ at[c] \notin Resting /\ phase # "join"
  <2>1. client[c].pending = "join" /\ ~Quiet(c) /\ Laid(at[c], phase)
    BY <1>1, Well, OnItsWay DEF Asked
  <2> QED
    BY <2>1 DEF Quiet, Laid, Resting
<1>3. phase = "await" /\ at[c] = "joining"
  BY <1>1, <1>2, Well DEF Asking, Laid, Resting
<1>4. Turn(c)
  BY <1>3 DEF SInv, AllLaid
<1>5. ASSUME NEW d \in members PROVE Asked(d, "join") \/ playing[d] = "in_game"
  <2>1. Laid(at[d], phase) /\ d \in Clients /\ Sound(client[d])
    BY <1>1, Well
  <2>2. CASE at[d] = "done"
    BY <1>3, <2>2 DEF Healthy
  <2>3. CASE at[d] = "ready"
    <3>1. client[d].pending = "join"
      BY <1>3, <2>1, <2>3 DEF SInv, TInv, CInv, Coordinated, OwesJoin
    <3>2. client[d].link = "open" /\ client[d].wire # <<>>
      BY <1>1, <3>1, Well
    <3> QED
      BY <2>1, <3>1, <3>2, OnItsWay DEF Asked
  <2>4. CASE at[d] = "joining"
    <3>1. Turn(d)
      BY <1>3, <2>4 DEF SInv, AllLaid
    <3>2. ~(c < d) /\ ~(d < c)
      BY <1>3, <1>4, <2>4, <3>1 DEF Turn
    <3>3. c = d
      BY <1>1, <2>1, <3>2, Well DEF Clients, SInv
    <3> QED
      BY <3>3
  <2> QED
    BY <1>3, <2>1, <2>2, <2>3, <2>4 DEF Laid
<1> QED
  BY <1>5 DEF Rendezvous

(* ... nor for a step some agent is not going to ask for in this update.      *)
LEMMA StepsMeet ==
  ASSUME SInv, Healthy, phase # "exited", NEW c \in members, Asked(c, "step"), playing[c] = "in_game",
         \A d \in members : client[d].queue = <<>> /\ ~(Runs(d) /\ client[d].stage # "waiting")
  PROVE  Rendezvous(c, "step")
<1>1. AllWell
  BY DEF Healthy, AllWell
<1>2. client[c].pending = "step" /\ client[c].wire # <<>>
  BY <1>1, Well, OnItsWay DEF Asked
<1>3. phase = "update" /\ ~mode.realtime
  BY <1>1, <1>2, Well DEF Asking, Laid
<1>4. Present = InGame /\ c \in InGame /\ ToStep(c)
  BY <1>1, <1>2 DEF Present, InGame, AllWell, ToStep, Out
<1>5. ASSUME NEW d \in InGame, ToStep(d) PROVE Asked(d, "step")
  <2>1. d \in members /\ Sound(client[d]) /\ client[d].link = "open" /\ (Quiet(d) => client[d].stage = "free")
    BY <1>1, <1>5, Well DEF InGame
  <2>2. at[d] # "ready"
    BY <1>3, <2>1 DEF Quiet, Resting, Runs
  <2>3. client[d].pending = "step" /\ client[d].wire # <<>>
    BY <1>5, <2>1, <2>2 DEF ToStep, Out, Fails
  <2> QED
    BY <2>1, <2>3, OnItsWay DEF Asked
<1>6. CASE \A d \in InGame : ToStep(d) /\ d \in stepped
  <2>1. Ahead = {}
    BY <1>4, <1>6 DEF Ahead
  <2> QED
    BY <1>4, <1>5, <1>6, <2>1 DEF Rendezvous
<1>7. CASE \A d \in InGame : ToStep(d) <=> d \notin stepped
  <2>1. Ahead = stepped /\ c \notin stepped
    BY <1>4, <1>7 DEF Ahead
  <2> QED
    BY <1>4, <1>5, <1>7, <2>1 DEF Rendezvous
<1> QED
  BY <1>1, <1>3, <1>6, <1>7 DEF SInv, Round, Stepping

(* While no game has failed, there is something to go on with for whoever     *)
(* waits: a response, a game that can answer, or an agent that runs; the      *)
(* joins and the steps of a match, which the games make together, are asked   *)
(* for by all before any is waited for without end (StartGame, StepAgents).   *)
THEOREM NobodyStandsStill == Spec => []NoStandstill
<1>1. SInv => NoStandstill
  <2> SUFFICES ASSUME SInv, Healthy, NEW c \in members, client[c].stage = "waiting",
                      \A d \in members : client[d].queue = <<>> /\ ~(Runs(d) /\ client[d].stage # "waiting")
               PROVE  CanAnswer(c)
    BY DEF NoStandstill
  <2>1. AllWell /\ NoErrors
    BY DEF Healthy, AllWell, NoErrors
  <2>2. phase # "exited"
    BY <2>1 DEF SInv, ExitExplained
  <2>3. client[c].pending # "none"
    BY <2>1, Well DEF Sound, Owing, Waits
  <2>4. Heard(c) /\ Asked(c, client[c].pending) /\ Head(client[c].wire) = client[c].pending
    BY <2>1, <2>3, Well, OnItsWay DEF Heard, Asked
  <2>5. CASE client[c].pending = "join"
    BY <2>2, <2>4, <2>5, JoinsMeet DEF CanAnswer
  <2>6. CASE client[c].pending = "step" /\ playing[c] = "in_game"
    BY <2>2, <2>4, <2>6, StepsMeet DEF CanAnswer
  <2>7. CASE ~(client[c].pending = "join") /\ ~(client[c].pending = "step" /\ playing[c] = "in_game")
    BY <2>4, <2>7 DEF CanAnswer, Rendezvous
  <2> QED
    BY <2>5, <2>6, <2>7
<1> QED
  BY <1>1, StandsInit, StandsStep, PTL DEF Spec
=============================================================================
