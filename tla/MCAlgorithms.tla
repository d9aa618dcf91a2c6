---------------------------- MODULE MCAlgorithms ----------------------------
EXTENDS Algorithms
CONSTANTS u1, u2, o1    \* users, an organization

MCEntries == {Missing} \cup FlagPollEntry({u1, u2}, {o1}, 2)
MCContexts == [userId : {NoId, u1, u2}, organizationId : {NoId, o1}]

\* Ages at both ends of the tolerance, and a clock of the API that is ahead.
Ages(kind) ==
    LET tolerance == IF kind = "webhook" THEN WEBHOOK_TOLERANCE ELSE ACTION_TOLERANCE
    IN {-5000, 0, tolerance - 1, tolerance, tolerance + 1}

(* What is received is what was sent, respelled, or some other content.     *)
Other(kind) == CHOOSE c \in Contents(kind) : TRUE
MCDeliveryInputs ==
    UNION {UNION {
        [kind : {kind}, sent : {Text(c, s) : s \in Spelling},
         received : {Text(r, s) : r \in {c, Other(kind)}, s \in Spelling},
         signedWith : {"mine"}, secret : {"mine", "other"}, timestamp : {1000000},
         age : Ages(kind), form : Form, shape : HeaderShape]
        : c \in Contents(kind)} : kind \in {"webhook", "action"}}

MCResponseInputs ==
    [type : {"authentication", "user_registration"}, verdict : {"Allow", "Deny"},
     errorMessage : {"", "reason"}]

(* The smallest and the largest number of every width, and what is next.    *)
MCNumbers ==
    {0 .. n - 1 : n \in 0 .. 32} \cup {{n} : n \in 0 .. 31} \cup {{0, n} : n \in 0 .. 31}
Continuing == [bits |-> {0, 6}, more |-> TRUE]
Ending == [bits |-> {1}, more |-> FALSE]
MCSurroundings == {<<>>, <<Ending>>, <<Continuing>>, <<Continuing, Ending>>}

(* Wrapped keys on both sides of the lengths that need one byte, two bytes  *)
(* and three bytes; short envelopes cut anywhere, long ones at their ends.  *)
Letters(n) == [i \in 1 .. n |-> "a"]
EnvelopeSize(text, keyLength) == Len(Encrypt(text, keyLength, <<>>).buffer)
Sizes(text, keyLength) ==
    LET size == EnvelopeSize(text, keyLength)
    IN IF keyLength <= 128 THEN 0 .. size ELSE {28, 29, 30, 31, size - 1, size}
Seals(text, keyLength, sizes, associatedData) ==
    [text : {text}, keyLength : {keyLength}, size : sizes,
     sealedFor : associatedData, openedFor : associatedData]

(* Marks in front, further on and alone; lone surrogates and what they      *)
(* become; each as the text and as the associated data.                     *)
Texts ==
    {<<>>, <<"a">>, <<BOM>>, <<BOM, BOM, "a">>, <<"a", BOM>>, <<LONE>>, <<REPLACEMENT>>,
     <<"a", LONE, "a">>, <<"a", REPLACEMENT, "a">>, <<BOM, LONE>>}
MCSealInputs ==
    UNION {Seals(Letters(n), k, Sizes(Letters(n), k), {<<>>, <<"a">>})
              : n \in {0, 1, 16}, k \in {0, 1, 127, 128, 16383, 16384}}
    \cup UNION {Seals(t, 1, {EnvelopeSize(t, 1) - 1, EnvelopeSize(t, 1)}, Texts) : t \in Texts}

Header(form, values) == [form : {form}, value : values]
MCHeaders ==
    {NoHeader} \cup Header("seconds", {0, 1, 59, 60, 61, 3600})
    \cup Header("date", {-1000, 0, 1, 59999, 60000, 60001, 86400000})
    \cup Header("garbage", {0})
FailureOf(headers, jitters) ==
    [answered : {TRUE}, header : headers, jitter : jitters]
    \cup [answered : {FALSE}, header : {NoHeader}, jitter : jitters]
MCAttempts == 2 .. 8
MCFailures == FailureOf(MCHeaders, {500, 1000, 1499})

(* With a TIMEOUT_MAX of 150000: intervals it can always count, can count   *)
(* with some random factors, and can never count.                           *)
MCPollInputs ==
    [option : {Null, 0, 5000, 30000, 120000, 136487, 136488, 150000, 150001, 166666, 166667,
               200000},
     consecutiveErrors : 0 .. 8, jitter : {900, 1000, 1099}]
=============================================================================
