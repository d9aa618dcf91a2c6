----------------------------- MODULE Deliveries -----------------------------
(***************************************************************************)
(* Signed deliveries of the API (webhook events, action requests) and the   *)
(* signed responses to actions: SignatureProvider                           *)
(* (common/crypto/signature-provider.ts), decode-payload.ts,                *)
(* Webhooks.constructEvent, Actions.constructAction and signResponse.       *)
(*                                                                         *)
(* A body is a text: its content and the way it is spelled.  "canonical" is *)
(* the spelling of JSON.stringify, "spaced" any other of the same JSON, and *)
(* "bom" one that starts with a byte order mark.  HMAC-SHA256 and the       *)
(* comparison of signatures are external: a Mac is equal to another if it   *)
(* was made with the same secret over the same timestamp and text.          *)
(***************************************************************************)
EXTENDS Integers, Events

Text(content, spelling) == [content |-> content, spelling |-> spelling]
Spelling == {"canonical", "spaced", "bom"}

(* What a framework hands over: the string or the bytes of the body, or the *)
(* object it parsed from it.                                                *)
Form == {"string", "bytes", "object"}
Payload(form, text) == [form |-> form, text |-> text]

DecodePayloadToString(payload) ==
    IF payload.form = "object" THEN Text(payload.text.content, "canonical") ELSE payload.text

Mac(secret, timestamp, text) == [secret |-> secret, timestamp |-> timestamp, text |-> text]

ComputeSignature(timestamp, payload, secret) ==
    Mac(secret, timestamp, DecodePayloadToString(payload))

(* The header `t=<timestamp>, v1=<hash>`, whole or cut after its timestamp  *)
(* or before the value of v1.                                               *)
HeaderShape == {"whole", "no v1", "empty v1"}

GetTimestampAndSignatureHash(header) ==
    IF header.shape = "no v1" THEN "Signature or timestamp missing"
    ELSE IF header.shape = "empty v1" THEN "No signature hash found" ELSE "found"

(* Mutant: seconds for milliseconds. *)
TooOldInSeconds(timestamp, now, tolerance) == timestamp < now - tolerance \div 1000

(* Both sides in milliseconds, the boundary not too old. *)
TooOld(timestamp, now, tolerance) == timestamp < now - tolerance

(* Mutant: a stale delivery is let through. *)
VerifyHeaderUndated(payload, header, secret, now, tolerance) ==
    IF header.mac # ComputeSignature(header.timestamp, payload, secret) THEN "mismatch"
    ELSE "verified"

VerifyHeader(payload, header, secret, now, tolerance) ==
    LET found == GetTimestampAndSignatureHash(header)
    IN IF found # "found" THEN found
       ELSE IF TooOld(header.timestamp, now, tolerance)
       THEN "Timestamp outside the tolerance zone"
       ELSE IF header.mac # ComputeSignature(header.timestamp, payload, secret)
       THEN "Signature hash does not match"
       ELSE "verified"

(* The default tolerances, in milliseconds. *)
WEBHOOK_TOLERANCE == 180000
ACTION_TOLERANCE == 30000

(* JSON.parse of the text that was verified, which has no place for a BOM.  *)
ParseVerifiedPayload(payload) ==
    IF payload.form # "object" /\ DecodePayloadToString(payload).spelling = "bom"
    THEN [error |-> "SyntaxError"]
    ELSE [error |-> "none", content |-> payload.text.content]

(* deserializeAction has no default: of an object with neither name it      *)
(* makes undefined.                                                         *)
Undefined == [type |-> "undefined", form |-> "app"]
ActionObject == {"user_registration_action_context", "authentication_action_context"}
DeserializeAction(action, data) ==
    IF action \in ActionObject THEN Deserialize(action, data)
    ELSE Undefined

(* Parsed after verification only. *)
Verified(payload, header, secret, now, tolerance) ==
    LET result == VerifyHeader(payload, header, secret, now, tolerance)
    IN IF result # "verified" THEN [error |-> result] ELSE ParseVerifiedPayload(payload)

ConstructEvent(payload, header, secret, now) ==
    LET parsed == Verified(payload, header, secret, now, WEBHOOK_TOLERANCE)
    IN IF parsed.error # "none" THEN parsed
       ELSE [error |-> "none",
             data |-> DeserializeEvent(parsed.content.event, parsed.content.data)]

ConstructAction(payload, header, secret, now) ==
    LET parsed == Verified(payload, header, secret, now, ACTION_TOLERANCE)
    IN IF parsed.error # "none" THEN parsed
       ELSE [error |-> "none",
             data |-> DeserializeAction(parsed.content.event, parsed.content.data)]

SerializeType(type) ==
    CASE type = "authentication" -> "authentication_action_response"
      [] type = "user_registration" -> "user_registration_action_response"

(* signResponse: a message goes with a Deny only, and the signature is over *)
(* the payload as it is sent.                                               *)
SignResponse(data, now, secret) ==
    LET payload == [timestamp |-> now, verdict |-> data.verdict,
                    error_message |-> IF data.verdict = "Deny" THEN data.errorMessage ELSE ""]
    IN [object |-> SerializeType(data.type), payload |-> payload,
        signature |-> ComputeSignature(now, Payload("object", Text(payload, "canonical")), secret)]

-----------------------------------------------------------------------------
(* One delivery d: what the API signed (d.sent, with d.signedWith, at time  *)
(* d.timestamp) and what the application calls the SDK with d.age later.    *)

(* Every declared event, both actions and whatever is newer than the SDK,   *)
(* as the API sends them.                                                   *)
Content(event, type) == [event |-> event, data |-> [type |-> type, form |-> "wire"]]
WebhookContents == {Content(e.event, e.type) : e \in Declared \cup UnknownEvents}
ActionContents == {Content(a, a) : a \in ActionObject} \cup {Content("later", "Record")}
Contents(kind) == IF kind = "webhook" THEN WebhookContents ELSE ActionContents

IsText(text) == text = Text(text.content, text.spelling) /\ text.spelling \in Spelling

IsDelivery(d) ==
    /\ d.kind \in {"webhook", "action"} /\ d.sent.content \in Contents(d.kind)
    /\ IsText(d.sent) /\ IsText(d.received)
    /\ d.form \in Form /\ d.shape \in HeaderShape
    /\ d.timestamp \in Int /\ d.age \in Int

HeaderOf(d) ==
    [shape |-> d.shape, timestamp |-> d.timestamp,
     mac |-> Mac(d.signedWith, d.timestamp, d.sent)]

Received(d) == Payload(d.form, d.received)

Receive(d) ==
    IF d.kind = "webhook"
    THEN ConstructEvent(Received(d), HeaderOf(d), d.secret, d.timestamp + d.age)
    ELSE ConstructAction(Received(d), HeaderOf(d), d.secret, d.timestamp + d.age)

Tolerance(d) == IF d.kind = "webhook" THEN WEBHOOK_TOLERANCE ELSE ACTION_TOLERANCE

(* What the application is given, and what it is told is no JSON, was       *)
(* signed with its secret, is what the API sent, and is not too old.        *)
IsAuthentic(d) ==
    Receive(d).error \in {"none", "SyntaxError"} =>
        /\ d.secret = d.signedWith
        /\ d.received.content = d.sent.content
        /\ d.age <= Tolerance(d)

Genuine(d) ==
    /\ d.secret = d.signedWith /\ d.received = d.sent /\ d.shape = "whole"
    /\ d.age <= Tolerance(d)
    /\ d.form = "object" => d.sent.spelling = "canonical"

(* A genuine delivery is accepted up to the last millisecond, whichever way *)
(* the framework hands the body over; only a body that is no JSON is not.   *)
IsAccepted(d) ==
    Genuine(d) =>
        Receive(d).error = IF d.sent.spelling = "bom" THEN "SyntaxError" ELSE "none"

(* What is accepted reaches the application in the form its name declares;  *)
(* an event newer than the SDK comes as the API sent it, a newer action not *)
(* at all.                                                                  *)
IsDeclared(d) ==
    Receive(d).error = "none" =>
        LET data == d.sent.content.data
        IN Receive(d).data =
            IF data.type # "Record" THEN [data EXCEPT !.form = "app"]
            ELSE IF d.kind = "webhook" THEN data ELSE Undefined

(* The API, verifying as the SDK does, accepts a response it gets back in   *)
(* time, and is told why exactly when the application denies with a reason. *)
ResponseIsAccepted(data, now, secret) ==
    LET response == SignResponse(data, now, secret)
        header == [shape |-> "whole", timestamp |-> now, mac |-> response.signature]
    IN /\ VerifyHeader(Payload("string", Text(response.payload, "canonical")), header,
                       secret, now, ACTION_TOLERANCE) = "verified"
       /\ response.payload.error_message # "" <=>
             data.verdict = "Deny" /\ data.errorMessage # ""
=============================================================================
