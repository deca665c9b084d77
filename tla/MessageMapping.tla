--------------------------- MODULE MessageMapping ---------------------------
(***************************************************************************)
(* How a JDSSDM body is carried by the other formats the system speaks:    *)
(* Cursor-on-Target (bridges/cot.py), the flat schema of POST /api/inject  *)
(* (simulator/engine.py writes it, web/routers/monitor.py reads it) and    *)
(* the 20-digit symbol code of a body (datamodel/symbology.py).            *)
(*                                                                         *)
(* These are pure functions; a state is one input.  A body has one shape:  *)
(* "name" is its callsign, name, subject or note, "text" its description,  *)
(* text, label of the first graphic, unit, acknowledged message, urgent    *)
(* patients or room names;                                                 *)
(* NoValue is Python's None, Nowhere an absent location.  A type of CoT    *)
(* event is the sequence of its tokens, a symbol code that of its digits.  *)
(***************************************************************************)
EXTENDS Integers, Sequences, FiniteSets, SequencesExt

NoValue == -1
Nowhere == "nowhere"
Origin == "0,0"

Identities == [PENDING |-> 0, UNKNOWN |-> 1, ASSUMED_FRIEND |-> 2, FRIEND |-> 3,
               NEUTRAL |-> 4, SUSPECT |-> 5, HOSTILE |-> 6]

Body(type, at, name, text) ==
    [type |-> type, at |-> at, name |-> name, text |-> text,
     identity |-> NoValue, course |-> NoValue, speed |-> NoValue]
Tracked(body, identity, course, speed) ==
    [body EXCEPT !.identity = identity, !.course = course, !.speed = speed]
NoBody == Body("none", Nowhere, "", "")

Default(s, fallback) == IF s = "" THEN fallback ELSE s

-----------------------------------------------------------------------------
(* Cursor-on-Target.                                                       *)

Letters == [f |-> Identities.FRIEND, h |-> Identities.HOSTILE, n |-> Identities.NEUTRAL,
            u |-> Identities.UNKNOWN, p |-> Identities.PENDING]
IdentityOf(letter) ==
    IF letter \in DOMAIN Letters THEN Letters[letter] ELSE Identities.UNKNOWN
LetterOf(identity) ==
    IF \E l \in DOMAIN Letters : Letters[l] = identity
    THEN CHOOSE l \in DOMAIN Letters : Letters[l] = identity ELSE "u"

\* A track's attributes; ATAK's unknown course is 9999999, and text that is no
\* number is NotANumber.
NotANumber == -2
Deg(v) == IF v \in 0 .. 360 THEN v ELSE NoValue
Spd(v) == IF v \in 0 .. 999999 THEN v ELSE NoValue

\* The event's parts; stale is relative to the reporting time.
Event(type, uid, at, callsign, remarks, course, speed, stale) ==
    [type |-> type, uid |-> uid, at |-> at, callsign |-> callsign, remarks |-> remarks,
     course |-> course, speed |-> speed, stale |-> stale]
NoEvent == Event(<<>>, <<>>, Origin, "", "", NoValue, NoValue, NoValue)

\* Mutant of Movement: a track is written for every event.
Movement_Always(v, other) == IF v = NoValue THEN 0 ELSE v

\* A track is written when either is known; the other is then written as zero.
Movement(v, other) == IF v = NoValue /\ other # NoValue THEN 0 ELSE v

MessageToCot(originator, id, body, staleS) ==
    LET course == Movement(body.course, body.speed)
        speed == Movement(body.speed, body.course)
        uid == IF body.type = "Presence" THEN <<originator>> ELSE <<originator, id>>
        Ev(type, at, callsign, remarks) ==
            Event(type, uid, at, callsign, remarks, course, speed, staleS)
    IN  CASE body.type = "Presence" -> Ev(<<"a", "f", "G">>, body.at, body.name, "")
          [] body.type = "ContactSighting" ->
                Ev(<<"a", LetterOf(body.identity), "G">>, body.at, "", body.text)
          [] body.type = "CasevacRequest" ->
                Ev(<<"b", "r", "f", "h", "c">>, body.at, "", "urgent=" \o body.text)
          [] body.type = "Overlay" /\ body.at # Nowhere ->
                Ev(<<"u", "d", "p">>, body.at, body.name, body.text)
          [] body.type = "Chat" -> Ev(<<"b", "t", "f">>, Origin, "", body.text)
          [] body.type = "GenInfo" ->
                Ev(<<"b", "t", "f">>, IF body.at = Nowhere THEN Origin ELSE body.at, "",
                   IF body.name = "" THEN body.text ELSE body.name \o ": " \o body.text)
          [] OTHER -> NoEvent

CotToMessage(ev) ==
    LET Is(prefix) == IsPrefix(prefix, ev.type)
        label == Default(ev.remarks, ev.callsign)
    IN  CASE Is(<<"b", "t", "f">>) -> Body("Chat", Nowhere, "all", label)
          [] Is(<<"b", "r", "f", "h", "c">>) -> Body("CasevacRequest", ev.at, "", "1")
          [] Is(<<"u", "d">>) \/ Is(<<"b", "m", "p">>) ->
                Body("Overlay", ev.at, Default(ev.callsign, "ATAK marker"),
                     Default(label, "marker"))
          [] Is(<<"a", "f">>) ->
                Tracked(Body("Presence", ev.at, Default(ev.callsign, "ATAK"), ""),
                        NoValue, Deg(ev.course), Spd(ev.speed))
          [] Is(<<"a">>) /\ Len(ev.type) > 1 /\ ~ Is(<<"a", "f">>) ->
                Tracked(Body("ContactSighting", ev.at, "", Default(label, "CoT track")),
                        IdentityOf(ev.type[2]), Deg(ev.course), Spd(ev.speed))
          [] OTHER -> NoBody

CotIsStale(ev, now) == ev.stale # NoValue /\ ev.stale < now

CotDelete(uid) == Event(<<"t", "x", "d", "d">>, uid, Origin, "", "", NoValue, NoValue, 0)

-----------------------------------------------------------------------------
(* Symbol codes.                                                           *)

Version == <<1, 0>>
Entities == [dismounted_infantry |-> <<<<1, 0>>, <<1, 2, 1, 1, 0, 0>>>>,
             hostile_contact |-> <<<<1, 0>>, <<1, 1, 0, 0, 0, 0>>>>,
             control_point |-> <<<<2, 5>>, <<2, 1, 0, 3, 0, 0>>>>]
Statuses == {0, 1, 3, 4}
SymbolSets == {<<0, 0>>, <<0, 1>>, <<1, 0>>, <<1, 1>>, <<1, 5>>, <<2, 5>>}

Zeros == [i \in 1 .. 20 |-> 0]
Normalize(code) == SubSeq(code \o Zeros, 1, 20)

Sidc(entity, identity) ==
    Normalize(Version \o <<0, identity>> \o Entities[entity][1] \o <<0, 0, 0, 0>>
              \o Entities[entity][2])

WithIdentity(code, identity) == [Normalize(code) EXCEPT ![4] = identity]

\* ContactSighting keeps its code's affiliation and status those of its fields.
SyncSymbol(code, identity, status) ==
    Normalize([WithIdentity(code, identity) EXCEPT ![7] = status])

\* A character that is no digit is 10.
ValidSidc(code) ==
    /\ Len(code) = 20
    /\ \A i \in 1 .. 20 : code[i] \in 0 .. 9
    /\ SubSeq(code, 1, 2) = Version
    /\ code[3] \in 0 .. 2
    /\ code[4] \in 0 .. 6
    /\ SubSeq(code, 5, 6) \in SymbolSets
    /\ code[7] \in 0 .. 5

CompliantSidc(raw, identity, entity) ==
    IF ValidSidc(raw) THEN WithIdentity(raw, identity) ELSE Sidc(entity, identity)

-----------------------------------------------------------------------------
(* The inject schema: the engine of the external simulator flattens a body *)
(* with its unit's callsign; the endpoint builds a body from the fields.   *)

NoField == "none"

InjectPayload(callsign, body) ==
    [type |-> body.type, callsign |-> callsign, at |-> body.at,
     course |-> body.course, speed |-> body.speed, identity |-> body.identity,
     description |-> CASE body.type \in {"GenInfo", "Receipt", "Overlay"} -> body.name
                       [] body.type = "ContactSighting" -> body.text
                       [] OTHER -> NoField,
     text |-> IF body.type \in {"Chat", "GenInfo", "Chatrooms"} THEN body.text ELSE NoField,
     unit |-> IF body.type = "Identification" THEN body.text ELSE NoField,
     ack |-> IF body.type = "Receipt" THEN body.text ELSE NoField]

Given(s, fallback) == IF s \in {"", NoField} THEN fallback ELSE s

InjectBody(p) ==
    LET at == IF p.at = Nowhere THEN Origin ELSE p.at
        identity == IF p.identity \in 0 .. 6 THEN p.identity ELSE Identities.HOSTILE
    IN  CASE p.type = "Presence" ->
                Tracked(Body("Presence", at, p.callsign, ""), NoValue, p.course, p.speed)
          [] p.type = "ContactSighting" ->
                Tracked(Body("ContactSighting", at, "", Given(p.description, "contact")),
                        identity, p.course, p.speed)
          [] p.type = "Identification" ->
                Body("Identification", Nowhere, p.callsign, Given(p.unit, p.callsign))
          [] p.type = "CasevacRequest" -> Body("CasevacRequest", at, "", "1")
          [] p.type = "Chat" -> Body("Chat", Nowhere, "all", Given(p.text, "-"))
          [] p.type = "Overlay" ->
                Body("Overlay", at, Given(p.description, "overlay"), Given(p.callsign, "OBJ"))
          [] p.type = "GenInfo" ->
                Body("GenInfo", p.at, Given(p.description, ""), Given(p.text, "-"))
          [] p.type = "Receipt" ->
                Body("Receipt", Nowhere, Given(p.description, ""),
                     Given(p.ack, Given(p.text, "")))
          [] p.type = "Chatrooms" -> Body("Chatrooms", Nowhere, "", Given(p.text, ""))
          [] OTHER -> NoBody

-----------------------------------------------------------------------------
(* The bounded inputs, and what the functions are to satisfy on them.      *)

Places == {Origin, "50,4"}
Words == {"", "alpha"}
Courses == {NoValue, 0, 360}
Bodies ==
         {Tracked(Body("Presence", at, n, ""), NoValue, c, s) :
              at \in Places, n \in Words, c \in Courses, s \in {NoValue, 0, 7}}
    \cup {Tracked(Body("ContactSighting", at, "", t), i, c, s) :
              at \in Places, t \in Words, i \in 0 .. 6, c \in Courses, s \in {NoValue, 7}}
    \cup {Body("Overlay", at, n, t) : at \in Places \cup {Nowhere}, n \in Words, t \in Words}
    \cup {Body("GenInfo", at, n, t) : at \in Places \cup {Nowhere}, n \in Words, t \in Words}
    \cup {Body("CasevacRequest", at, "", t) : at \in Places, t \in {"1", "2"}}
    \cup {Body("Chat", Nowhere, "all", t) : t \in Words}
    \cup {Body(k, Nowhere, n, t) :
              k \in {"Receipt", "Chatrooms", "Identification", "Sketch"}, n \in Words, t \in Words}

CotTypes == {<<>>, <<"a">>, <<"a", "">>, <<"a", "f">>, <<"a", "f", "G", "U">>, <<"a", "h", "G">>,
             <<"a", "s">>, <<"b", "t", "f", "d">>, <<"b", "m", "p", "s">>, <<"u", "d", "f">>,
             <<"b", "m">>, <<"t", "x", "c">>}
Events ==
    {Event(type, <<"uid">>, at, n, t, c, s, stale) :
       type \in CotTypes, at \in Places, n \in Words, t \in Words,
       c \in {NoValue, NotANumber, 90, 361, 9999999}, s \in {NoValue, NotANumber, 7, 1000000},
       stale \in {NoValue, 5}}

Codes == {<<>>, <<1, 0>>, <<9, 9, 9, 9>>, Sidc("hostile_contact", 6),
          Sidc("control_point", 3), Append(Sidc("dismounted_infantry", 3), 7),
          [Sidc("hostile_contact", 6) EXCEPT ![4] = 9],
          [Sidc("hostile_contact", 6) EXCEPT ![12] = 10]}

Located == {"Presence", "ContactSighting", "CasevacRequest", "Overlay"}

\* cot.py "Mapping (both directions)": a body that goes out as CoT comes back
\* as the same kind at the same place, a contact with the affiliation its letter
\* has; a movement is neither lost nor made up unless half of it was unknown;
\* and a second passage changes nothing more, so that bridges in a row agree.
CotRoundTrip(body) ==
    LET ev == MessageToCot("n", "m", body, 300)
        back == CotToMessage(ev)
        befriended == body.type = "ContactSighting" /\ body.identity = Identities.FRIEND
    IN  ev # NoEvent =>
          /\ back.type = (CASE befriended -> "Presence"
                            [] body.type = "GenInfo" -> "Chat"
                            [] OTHER -> body.type)
          /\ body.type \in Located => back.at = body.at
          /\ back.type = "ContactSighting" /\ body.identity \in {0, 1, 4, 6} =>
                back.identity = body.identity
          /\ (body.course = NoValue) = (body.speed = NoValue) =>
                back.course = body.course /\ back.speed = body.speed
          /\ CotToMessage(MessageToCot("n", "m", back, 300)) = back
          /\ \A now \in {0, 300, 301} : CotIsStale(ev, now) <=> now > 300

\* Whatever an event from outside says, the body made of it has a course and a
\* speed the models accept, a deletion is no message, and a message that is then
\* sent on as CoT carries an affiliation as friendly as the event's and no more.
CotIngest(ev) ==
    LET body == CotToMessage(ev)
    IN  /\ body.course \in {NoValue} \cup 0 .. 360
        /\ body.speed >= NoValue
        /\ body.type = "Presence" <=> IsPrefix(<<"a", "f">>, ev.type)
        /\ CotToMessage(CotDelete(ev.uid)) = NoBody
        /\ body.type \in {"Presence", "ContactSighting"} =>
              LET onward == MessageToCot("n", "m", body, 300)
              IN  IsPrefix(<<"a", "f">>, onward.type) <=> IsPrefix(<<"a", "f">>, ev.type)

\* messages.py ContactSighting: "the reported affiliation/status and the rendered
\* symbol never disagree", whatever code it was given; monitor.py _compliant_sidc:
\* the code is a valid one with the affiliation of the identity.
SymbolInSync(code, identity, status) ==
    LET synced == SyncSymbol(code, identity, status)
        made == CompliantSidc(code, identity, "hostile_contact")
    IN  /\ Len(synced) = 20 /\ synced[4] = identity /\ synced[7] = status
        /\ \A i \in (1 .. 20) \ {4, 7} : synced[i] = IF i \in DOMAIN code THEN code[i] ELSE 0
        /\ ValidSidc(made) /\ made[4] = identity
        /\ ValidSidc(SyncSymbol(made, identity, status))

\* A body the simulator injects is rebuilt as the kind it was, at its place and
\* with its movement; a contact keeps its affiliation, a bulletin and an
\* acknowledgement their text; a sketch is the one kind that is refused; and
\* injecting what came back changes nothing more.
InjectKeeps(body) ==
    LET back == InjectBody(InjectPayload("unit", body))
    IN  /\ back = NoBody <=> body.type = "Sketch"
        /\ back # NoBody =>
             /\ back.type = body.type
             /\ body.at # Nowhere => back.at = body.at
             /\ back.course = body.course /\ back.speed = body.speed
             /\ body.type = "ContactSighting" => back.identity = body.identity
             /\ body.text # "" /\ body.type \notin {"Overlay", "CasevacRequest"} =>
                   back.text = body.text
             /\ InjectBody(InjectPayload("unit", back)) = back
=============================================================================
