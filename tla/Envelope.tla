------------------------------ MODULE Envelope ------------------------------
(***************************************************************************)
(* From a request on the wire to the signed answer: RootHandler            *)
(* (http_route.go), ParseMsgInRaw (msg_ops.go), ProcessMsgInOut and Sign   *)
(* (farmer.go), and the length prefix of the text that is signed           *)
(* (varintBufNum, utils.go).                                               *)
(*                                                                         *)
(* A body is whether it is a JSON object, whether it is longer than 32 KB, *)
(* its method, and its id: the length of a string, or NoString for none    *)
(* and for an id of another type.                                          *)
(***************************************************************************)
EXTENDS Naturals, Sequences

NoString == [string |-> FALSE, length |-> 0]
Str(n) == [string |-> TRUE, length |-> n]

Known == {"FIND_NODE", "PING", "PROBE", "OFFER", "PUBLISH", "CONSIGN",
          "RETRIEVE", "MIRROR", "AUDIT"}

\* KB*32, the limit of RootHandler.
MaxBody == 32768

\* MaxBytesReader cuts a long body off, its error is dropped, and the rest is
\* not JSON.
ReadAll(body) ==
  [json |-> body.json /\ ~body.long, method |-> body.method, id |-> body.id]

\* The type of the parsed message, or "nil".
MsgInStruct(body) == IF body.json /\ body.method \in Known THEN body.method ELSE "nil"

\* An OFFER is something the farmer sends: here it is unknown.
Handled(body) == MsgInStruct(body) \in Known \ {"OFFER"}

\* The id of an answer: text of the request, or a fresh uuid of 32 digits.
Own(id) == [own |-> TRUE, length |-> id.length]
Empty == [own |-> FALSE, length |-> 0]
Fresh == [own |-> FALSE, length |-> 32]

\* GetId of a message that was parsed.  mapstructure leaves the field empty
\* unless the map has a string for it.
GetId(body) == IF body.id.string THEN Own(body.id) ELSE Empty

\* Mistake: the id is looked up in the message that was parsed, and of an
\* unknown method there is none.
IdOfUnknownStruct(body) == IF MsgInStruct(body) # "nil" THEN GetId(body) ELSE Fresh

\* Of an unknown message, which an OFFER is too, the id is looked up in the map;
\* without a string there a uuid is made.  The map is nil without JSON.
IdOfUnknown(body) == IF body.json /\ body.id.string THEN Own(body.id) ELSE Fresh

\* The id that a message has after Sign, which makes one if it is empty.
Sign(id) == IF id.length = 0 THEN Fresh ELSE id

\* The nonce is the time in nanoseconds, 19 digits.
Digits == 19

\* The answer: what handled it, its id, and how long the signed text is.
ProcessMsgInOut(raw) ==
  LET body == ReadAll(raw)
      id == Sign(IF Handled(body) THEN GetId(body) ELSE IdOfUnknown(body))
  IN [by     |-> IF Handled(body) THEN body.method ELSE "unknown message",
      id     |-> id,
      signed |-> id.length + Digits]

\* An answer that is not a message.
Plain(by) == [by |-> by, id |-> Fresh, signed |-> 0]

\* A GET is greeted and another method gets nothing.
RootHandler(r) ==
  CASE r.method = "GET"  -> Plain("Hello!")
    [] r.method = "POST" -> ProcessMsgInOut(r.body)
    [] OTHER             -> Plain("nobody")

\* The first route that matches the path; the shards are module Shards.
ServeHTTP(r) ==
  CASE r.path = "/"       -> RootHandler(r)
    [] r.path = "/shards" -> Plain("ShardHandler")
    [] OTHER              -> Plain("NotFound")
-----------------------------------------------------------------------------
\* Mistake: one byte is used as long as the length fits into it.
varintOneByte(n) ==
  IF n < 256 THEN <<n>> ELSE <<253, n % 256, n \div 256>>

\* The prefix of a text of n bytes, the lowest byte first.  From 2^32 bytes on
\* the code indexes one byte past its buffer.
varintBufNum(n) ==
  IF n < 253 THEN <<n>>
  ELSE IF n < 65536 THEN <<253, n % 256, n \div 256>>
  ELSE <<254, n % 256, (n \div 256) % 256, (n \div 65536) % 256, n \div 16777216>>

\* A reader of Bitcoin's format takes n out of the prefix, and all of it.
ReadsAs(bytes, n) ==
  \/ bytes[1] < 253 /\ Len(bytes) = 1 /\ n = bytes[1]
  \/ bytes[1] = 253 /\ Len(bytes) = 3 /\ n = bytes[2] + 256 * bytes[3]
  \/ /\ bytes[1] = 254 /\ Len(bytes) = 5
     /\ n = bytes[2] + 256 * (bytes[3] + 256 * (bytes[4] + 256 * bytes[5]))
=============================================================================
