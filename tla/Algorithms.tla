----------------------------- MODULE Algorithms -----------------------------
(***************************************************************************)
(* The SDK's pure calculations, each on inputs of its own: flags and their  *)
(* changes (FlagEvaluation), signed deliveries and the events in them       *)
(* (Deliveries, Events), the envelope of the vault (Envelope, Leb128) and   *)
(* the delays of retries and polls (Delays).                                *)
(*                                                                         *)
(* There is no program here: a step chooses the input of one calculation,   *)
(* the next one forgets it, and an invariant compares what is calculated    *)
(* with what its callers rely on.                                           *)
(***************************************************************************)
EXTENDS FlagEvaluation, Deliveries, Envelope, Delays

CONSTANTS
    Entries,        \* flag entries, Missing among them
    Contexts,       \* [userId, organizationId]
    DeliveryInputs, \* deliveries, see Deliveries
    ResponseInputs, \* [type, verdict, errorMessage]
    Numbers,        \* of UInt32
    Surroundings,   \* sequences of Byte
    SealInputs,     \* [text, keyLength, size, sealedFor, openedFor]
    Attempts,       \* the retryAttempt a sleep is for, 2 at the first retry
    Failures,       \* [answered, header, jitter]
    PollInputs      \* [option, consecutiveErrors, jitter]

ASSUME AlgorithmsAssumption ==
    /\ \A e \in Entries : IsEntry(e)
    /\ \A d \in DeliveryInputs : IsDelivery(d)
    /\ Numbers \subseteq UInt32
    /\ Surroundings \subseteq Seq(Byte)
    /\ \A s \in SealInputs : IsSealInput(s)
    /\ Attempts \subseteq Nat \ {0, 1}
    /\ \A f \in Failures : IsFailure(f)
    /\ \A p \in PollInputs :
          p.option \in Int /\ p.consecutiveErrors \in Nat /\ p.jitter \in PollJitter

VARIABLE input      \* of the calculation at hand

None == [of |-> "nothing"]
Init == input = None

CompareEntries ==
    /\ input = None
    /\ \E a, b \in Entries : input' = [of |-> "flag", previous |-> a, current |-> b]

TakeDelivery ==
    /\ input = None
    /\ \E d \in DeliveryInputs : input' = [of |-> "delivery", delivery |-> d]

Respond ==
    /\ input = None
    /\ \E r \in ResponseInputs : input' = [of |-> "response", response |-> r]

EncodeNumber ==
    /\ input = None
    /\ \E n \in Numbers, before, after \in Surroundings :
          input' = [of |-> "number", number |-> n, before |-> before, after |-> after]

Seal ==
    /\ input = None
    /\ \E s \in SealInputs : input' = [of |-> "seal", seal |-> s]

FailAttempt ==
    /\ input = None
    /\ \E n \in Attempts, f \in Failures :
          input' = [of |-> "sleep", attempt |-> n, failure |-> f]

EndPoll ==
    /\ input = None
    /\ \E p \in PollInputs : input' = [of |-> "poll", poll |-> p]

Forget == input # None /\ input' = None

Next ==
    \/ CompareEntries \/ TakeDelivery \/ Respond \/ EncodeNumber \/ Seal
    \/ FailAttempt \/ EndPoll \/ Forget

Spec == Init /\ [][Next]_input

-----------------------------------------------------------------------------
(* A flag that is worth something else to some user of some organization    *)
(* than before the poll is reported by a 'change' event.                    *)
ChangesAreReported ==
    input.of = "flag" =>
        \A context \in Contexts, defaultValue \in BOOLEAN :
            UnchangedMeansAlike(input.previous, input.current, context, defaultValue)

(* constructEvent and constructAction give the application, and parse, only *)
(* what was signed with its secret, as it was sent, and in time.            *)
AcceptedIsAuthentic == input.of = "delivery" => IsAuthentic(input.delivery)

(* A genuine delivery is accepted up to the last millisecond of the         *)
(* tolerance, and a signed response in the same way by who gets it.         *)
GenuineIsAccepted ==
    /\ input.of = "delivery" => IsAccepted(input.delivery)
    /\ input.of = "response" => ResponseIsAccepted(input.response, 1000000, "mine")

(* What is accepted has the form the declarations promise for its name;     *)
(* deserializeEvent's default branch takes no event that is declared.       *)
DeliveredAsDeclared == input.of = "delivery" => IsDeclared(input.delivery)

(* decodeUInt32 undoes encodeUInt32 for every width, wherever it stands.    *)
NumbersRoundTrip ==
    input.of = "number" => RoundTrips(input.number, input.before, input.after)

(* decrypt opens exactly what encrypt sealed, whole and for the same        *)
(* associated data, whatever the length of the wrapped key, and returns the *)
(* text that was sealed exactly when the conversion to bytes and back loses *)
(* nothing of it.                                                           *)
EnvelopeOpens ==
    input.of = "seal" =>
        OpensAsSealed(input.seal.text, input.seal.keyLength, input.seal.size,
                      input.seal.sealedFor, input.seal.openedFor)

(* sleep() waits as long as the server asks, a minute at the most, and      *)
(* between half a second and twelve where it asks for nothing legible.      *)
RetryAfterIsHonoured ==
    input.of = "sleep" => HonoursRetryAfter(input.attempt, input.failure)

(* scheduleNextPoll keeps the polls 4.5 seconds apart through every outage, *)
(* and never stops for longer than is configured, for every interval        *)
(* setTimeout can count; for every other one it does not pause at all.      *)
(* runtime-client.spec.ts:210 "clamps pollingIntervalMs to minimum of 5000" *)
(* is true of the option, not of the delay.                                 *)
PollsAreSpaced ==
    input.of = "poll" =>
        IsSpaced(input.poll.option, input.poll.consecutiveErrors, input.poll.jitter)
=============================================================================
