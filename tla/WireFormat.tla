----------------------------- MODULE WireFormat -----------------------------
(***************************************************************************)
(* A message on the wire: the XML document of its data (datamodel/codec/   *)
(* xml_mip.py) and what the models make of it (datamodel/messages.py), the *)
(* pre-shared-key tag (security/provider.py) and the frame around them     *)
(* (iem/exchange.py).                                                      *)
(*                                                                         *)
(* Pure functions; a state is one input.  Data is a tree: text, null, a    *)
(* list, or an object as the sequence of its fields.  An element is its    *)
(* text and its children.  A byte is a triple: <<"byte", b, 0>>, or        *)
(* <<"tag", key, payload>> and <<"tail", key, payload>> for an HMAC's.     *)
(***************************************************************************)
EXTENDS Integers, Sequences, SequencesExt, FiniteSetsExt

Text(s) == [kind |-> "text", text |-> s, parts |-> <<>>]
Null == [kind |-> "null", text |-> "", parts |-> <<>>]
List(items) ==
    [kind |-> "list", text |-> "", parts |-> [i \in DOMAIN items |-> <<"item", items[i]>>]]
Object(fields) == [kind |-> "object", text |-> "", parts |-> fields]
Invalid == [kind |-> "invalid", text |-> "", parts |-> <<>>]

-----------------------------------------------------------------------------
(* The XML codec.  Empty text and no text are the same to a parser.        *)

RECURSIVE DictToElements(_)
DictToElements(data) ==
    [text |-> data.text,
     children |-> [i \in DOMAIN data.parts |->
                     <<data.parts[i][1], DictToElements(data.parts[i][2])>>]]

\* Mutant of ElementsToDict: a list needs two items to be taken for one.
RECURSIVE ElementsToDict_OneItemNoList(_)
ElementsToDict_OneItemNoList(element) ==
    LET kids == [i \in DOMAIN element.children |->
                   <<element.children[i][1], ElementsToDict_OneItemNoList(element.children[i][2])>>]
    IN  IF kids = <<>>
        THEN IF element.text = "" THEN Null ELSE Text(element.text)
        ELSE IF Len(kids) > 1 /\ \A i \in DOMAIN kids : kids[i][1] = "item"
             THEN [Null EXCEPT !.kind = "list", !.parts = kids]
             ELSE Object(kids)

RECURSIVE ElementsToDict(_)
ElementsToDict(element) ==
    LET kids == [i \in DOMAIN element.children |->
                   <<element.children[i][1], ElementsToDict(element.children[i][2])>>]
    IN  IF kids = <<>>
        THEN IF element.text = "" THEN Null ELSE Text(element.text)
        ELSE IF \A i \in DOMAIN kids : kids[i][1] = "item"
             THEN [Null EXCEPT !.kind = "list", !.parts = kids]
             ELSE Object(kids)

\* The models: which fields take null for an empty text or list, which are
\* optional, and which hold a list; any other field is a text or an object.
\* "room_name" and "chat_text" are the name of a room and the text of a Chat.
CoercedText == {"subject", "text", "note", "room_name"}
CoercedList == {"rooms", "members"}
Optional == {"location", "strength", "battery_pct", "course_deg"}
Lists == {"graphics", "points"} \cup CoercedList

RECURSIVE Validate(_, _)
Validate(field, data) ==
    LET parts == [i \in DOMAIN data.parts |->
                    <<data.parts[i][1], Validate(data.parts[i][1], data.parts[i][2])>>]
    IN  CASE data.kind = "null" /\ field \in CoercedText -> Text("")
          [] data.kind = "null" /\ field \in CoercedList -> List(<<>>)
          [] data.kind = "null" /\ field \notin CoercedText \cup CoercedList \cup Optional ->
                Invalid
          [] (data.kind = "list") # (field \in Lists) /\ data.kind # "null" -> Invalid
          [] \E i \in DOMAIN parts : parts[i][2] = Invalid -> Invalid
          [] OTHER -> [data EXCEPT !.parts = parts]

XmlDecoded(data) == Validate("body", ElementsToDict(DictToElements(data)))

-----------------------------------------------------------------------------
(* Security and framing.                                                   *)

Byte(b) == <<"byte", b, 0>>
Tag(key, payload) == << <<"tag", key, payload>>, <<"tail", key, payload>> >>
TagLen == 2

Protect(key, payload) == payload \o Tag(key, payload)

\* The last bytes have to be the tag of the rest under this key; what is
\* shorter than a tag is refused.
Refused == << <<"refused", 0, 0>> >>
Verify(key, wire) ==
    LET payload == SubSeq(wire, 1, Len(wire) - TagLen)
    IN  IF Len(wire) >= TagLen /\ IsSuffix(Tag(key, payload), wire) THEN payload ELSE Refused

Magic == Byte("JDSS")
FrameVersion == Byte(1)
NoFrame == [codec |-> "none", security |-> "none", payload |-> <<>>]
NameLength == [x \in {"xml", "json", "psk", "null", "__ctl__"} |->
                 CASE x \in {"xml", "psk"} -> 3 [] x \in {"json", "null"} -> 4 [] OTHER -> 7]
NameBytes(n) == [i \in 1 .. NameLength[n] |-> <<"name", n, i>>]

\* A length of two names and of the payload; the payload's stands for 4 bytes.
FrameToBytes(codec, security, payload) ==
    <<Magic, FrameVersion, Byte(NameLength[codec])>> \o NameBytes(codec)
        \o <<Byte(NameLength[security])>> \o NameBytes(security)
        \o <<Byte(Len(payload))>> \o payload

\* An index past the end raises; a slice past the end is only shorter.
FrameFromBytes(raw) ==
    LET At(i) == IF i \in DOMAIN raw THEN raw[i][2] ELSE -1
        Cut(from, n) == SubSeq(raw, from, Min({from + n - 1, Len(raw)}))
        clen == At(3)
        slen == At(4 + clen)
        at == 5 + clen + slen
        Name(from, n) ==
            IF \E x \in DOMAIN NameLength : Cut(from, n) = NameBytes(x)
            THEN CHOOSE x \in DOMAIN NameLength : Cut(from, n) = NameBytes(x) ELSE "other"
    IN  IF \/ Len(raw) < 3 \/ raw[1] # Magic \/ raw[2] # FrameVersion
           \/ 4 + clen > Len(raw) \/ at > Len(raw)
        THEN NoFrame
        ELSE [codec |-> Name(4, clen), security |-> Name(5 + clen, slen),
              payload |-> Cut(at + 1, At(at))]

-----------------------------------------------------------------------------
(* The bounded inputs, and what the functions are to satisfy on them.      *)

Strings == {Text(""), Text("alpha")}
Place == Object(<< <<"lat", Text("50.8")>>, <<"lon", Text("4.3")>> >>)
ListsOf(S) == {List(items) : items \in {<<>>} \cup {<<a>> : a \in S} \cup {<<a, b>> : a, b \in S}}
Rooms == {Object(<< <<"room_id", Text("r")>>, <<"room_name", n>>, <<"members", m>> >>) :
            n \in Strings, m \in ListsOf({Text("n1")})}
Graphics == {Object(<< <<"location", Place>>, <<"label", l>> >>) : l \in Strings}
Data ==
         {Object(<< <<"type", Text("ContactSighting")>>, <<"location", Place>>,
                    <<"description", d>>, <<"strength", n>> >>) :
              d \in Strings, n \in {Null, Text("4")}}
    \cup {Object(<< <<"type", Text("Presence")>>, <<"location", Place>>,
                    <<"callsign", Text("alpha")>>, <<"battery_pct", n>> >>) :
              n \in {Null, Text("4")}}
    \cup {Object(<< <<"type", Text("Identification")>>, <<"callsign", Text("alpha")>>,
                    <<"unit", u>>, <<"nation", n>> >>) : u \in Strings, n \in Strings}
    \cup {Object(<< <<"type", Text("Sketch")>>, <<"title", t>>, <<"points", g>> >>) :
              t \in Strings, g \in ListsOf(Graphics)}
    \cup {Object(<< <<"type", Text("CasevacRequest")>>, <<"location", Place>>,
                    <<"special_equipment", e>> >>) : e \in Strings}
    \cup {Object(<< <<"type", Text("Chat")>>, <<"chat_text", t>>, <<"recipient", Text("all")>> >>) :
              t \in Strings}
    \cup {Object(<< <<"type", Text("GenInfo")>>, <<"subject", s>>, <<"text", t>>,
                    <<"location", l>> >>) : s \in Strings, t \in Strings, l \in {Null, Place}}
    \cup {Object(<< <<"type", Text("Receipt")>>, <<"ack_message_id", Text("m")>>,
                    <<"note", n>> >>) : n \in Strings}
    \cup {Object(<< <<"type", Text("Chatrooms")>>, <<"rooms", r>> >>) : r \in ListsOf(Rooms)}
    \cup {Object(<< <<"type", Text("Overlay")>>, <<"name", Text("o")>>, <<"graphics", g>> >>) :
              g \in ListsOf(Graphics)}

\* Text or lists the models do not coerce from null are empty somewhere.
RECURSIVE HasHole(_, _)
HasHole(field, data) ==
    \/ data \in {Text(""), List(<<>>)} /\ field \notin CoercedText \cup CoercedList \cup Optional
    \/ \E i \in DOMAIN data.parts : HasHole(data.parts[i][1], data.parts[i][2])

\* messages.py: "an empty XML element decodes to None".  A message comes back
\* from its document as it was or not at all, never as another; and it comes
\* back unless a field that is not coerced is empty.
XmlRoundTrip(data) ==
    XmlDecoded(data) = IF HasHole("body", data) THEN Invalid ELSE data

\* xml_mip.py _elements_to_dict: "Inverse of _dict_to_elements": whatever a node
\* may publish, its receivers decode.
XmlInverse(data) == XmlDecoded(data) = data

Payloads == {<<>>, <<Byte("a")>>, <<Byte("a"), Byte("b")>>}
PskKeys == {"coalition", "rogue"}
Codecs == {"xml", "json", "__ctl__"}

\* However a frame is cut short in transit, whoever reads it either gets exactly
\* what was protected or nothing; with another key, nothing; and without
\* protection at worst the head of the payload.
FrameIntegrity(codec, payload, cut) ==
    \A key \in PskKeys :
        LET whole == FrameToBytes(codec, "psk", Protect("coalition", payload))
            bare == FrameToBytes(codec, "null", payload)
            got == FrameFromBytes(SubSeq(whole, 1, Len(whole) - cut))
            open == FrameFromBytes(SubSeq(bare, 1, Len(bare) - cut))
        IN  /\ got # NoFrame =>
                 /\ got.codec = codec /\ got.security = "psk"
                 /\ Verify(key, got.payload) =
                       IF cut = 0 /\ key = "coalition" THEN payload ELSE Refused
            /\ open # NoFrame => IsPrefix(open.payload, payload)
            /\ cut = 0 => got # NoFrame /\ open.payload = payload
=============================================================================
