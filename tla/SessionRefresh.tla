--------------------------- MODULE SessionRefresh ---------------------------
(***************************************************************************)
(* CookieSession (user-management/session.ts): refresh() and authenticate() *)
(* running concurrently on one instance, each a sequence of awaits between  *)
(* which the sealed session and the cookie password may change under it.    *)
(*                                                                         *)
(* The API is external: it exchanges a refresh token it knows for the same  *)
(* token or a new one, may lose its answer, and may refuse.                 *)
(***************************************************************************)
EXTENDS ApiErrors, FiniteSets

CONSTANTS
    Op,             \* calls of refresh() and authenticate() on the instance
    Password,       \* cookie passwords
    Weak,           \* those iron refuses to seal with (shorter than 32)
    MaxToken,       \* refresh tokens the API issues (bound)
    Refusal         \* failures of an exchange, a subset of Failure

ASSUME SessionAssumption ==
    /\ Weak \subseteq Password /\ Password # Weak
    /\ NoValue \notin Password
    /\ MaxToken \in Nat \ {0}
    /\ Refusal \subseteq Failure

Token == 1 .. MaxToken
NoToken == 0

(* A sealed session: the refresh token inside, and the password that opens  *)
(* it.  NoSession is the empty string of a request without a cookie.        *)
Sealed == [token : Token, password : Password]
NoSession == [token |-> NoToken, password |-> NoValue]

Kind == {"refresh", "authenticate"}
Step == {"idle", "jose", "unsealed", "waiting", "sealing", "done"}
Reason == TerminalReason \cup RetryableReason
          \cup {"success", "thrown", "invalid_session_cookie",
                "no_session_cookie_provided", "invalid_jwt"}

VARIABLES
    sessionData,    \* this.sessionData
    cookiePassword, \* this.cookiePassword
    pc,             \* where each call is suspended
    kind,
    option,         \* options.cookiePassword
    session,        \* the token unsealed by the call, NoToken for {}
    password,       \* the local `cookiePassword` of refresh()
    issued,         \* the token the API answered with
    result,
    valid,          \* refresh tokens the API accepts
    last,           \* last token the API issued
    rotates,        \* whether the API retires a token it exchanges
    jose,           \* the memoised import of the module jose
    overlapped,     \* two refreshes were under way at once
    lost            \* an exchange was made that the instance did not keep

instance == <<sessionData, cookiePassword>>
api == <<valid, last, rotates>>
locals == <<kind, option, session, password, issued>>
vars == <<instance, pc, locals, result, api, jose, overlapped, lost>>

-----------------------------------------------------------------------------

(* loadSealedSession: the cookie was sealed with the password, is absent,   *)
(* or was sealed with another one.                                          *)
Init ==
    /\ cookiePassword \in Password \ Weak
    /\ sessionData \in {NoSession} \cup [token : {1}, password : Password \ Weak]
    /\ pc = [o \in Op |-> "idle"]
    /\ kind = [o \in Op |-> "authenticate"]
    /\ option = [o \in Op |-> NoValue]
    /\ session = [o \in Op |-> NoToken]
    /\ password = [o \in Op |-> NoValue]
    /\ issued = [o \in Op |-> NoToken]
    /\ result = [o \in Op |-> NoValue]
    /\ valid = {1} /\ last = 1 /\ rotates \in BOOLEAN
    /\ jose = "unloaded"
    /\ overlapped = FALSE /\ lost = FALSE

Refreshing(o) == kind[o] = "refresh" /\ pc[o] \notin {"idle", "done"}

(* The call ends with a result. *)
Return(o, reason) ==
    /\ pc' = [pc EXCEPT ![o] = "done"]
    /\ result' = [result EXCEPT ![o] = reason]

(* refresh(options) is called; it first awaits getJose(). *)
Refresh(o) ==
    /\ pc[o] = "idle"
    /\ pc' = [pc EXCEPT ![o] = "jose"]
    /\ kind' = [kind EXCEPT ![o] = "refresh"]
    /\ \E p \in Password \cup {NoValue} : option' = [option EXCEPT ![o] = p]
    /\ overlapped' = (overlapped \/ \E q \in Op : Refreshing(q))
    /\ UNCHANGED <<instance, session, password, issued, result, api, lost, jose>>

(* getJose: the first call that awaits it imports the module, and its       *)
(* promise, rejected or not, is what every later call awaits.               *)
NeedsJose(o) ==
    \/ pc[o] = "jose"
    \/ pc[o] = "unsealed" /\ kind[o] = "authenticate" /\ session[o] # NoToken

GetJose ==
    /\ jose = "unloaded" /\ \E o \in Op : NeedsJose(o)
    /\ jose' \in {"loaded", "rejected"}
    /\ UNCHANGED <<instance, pc, locals, result, api, overlapped, lost>>

(* refresh() without it rejects before it has read anything. *)
RefreshWithoutJose(o) ==
    /\ pc[o] = "jose" /\ jose = "rejected"
    /\ Return(o, "thrown")
    /\ UNCHANGED <<instance, locals, api, overlapped, lost, jose>>

(* unsealData({}) of a seal another password made: no token. *)
Unseal == IF sessionData.password = cookiePassword THEN sessionData.token ELSE NoToken

(* refresh() reads both fields of the instance and unseals. *)
RefreshUnseal(o) ==
    /\ pc[o] = "jose" /\ jose = "loaded"
    /\ session' = [session EXCEPT ![o] = Unseal]
    /\ pc' = [pc EXCEPT ![o] = "unsealed"]
    /\ UNCHANGED <<instance, kind, option, password, issued, result, api, overlapped, lost, jose>>

(* authenticate() does so in the call, and gives up without a cookie. *)
Authenticate(o) ==
    /\ pc[o] = "idle"
    /\ IF sessionData = NoSession
       THEN Return(o, "no_session_cookie_provided") /\ UNCHANGED session
       ELSE /\ session' = [session EXCEPT ![o] = Unseal]
            /\ pc' = [pc EXCEPT ![o] = "unsealed"]
            /\ UNCHANGED result
    /\ UNCHANGED <<instance, kind, option, password, issued, api, overlapped, lost, jose>>

(* isValidJwt: the access token is verified, is not, or the keys cannot be  *)
(* fetched; without jose it rejects.                                        *)
AuthenticateVerify(o) ==
    /\ pc[o] = "unsealed" /\ kind[o] = "authenticate"
    /\ NeedsJose(o) => jose # "unloaded"
    /\ \E verdict \in {"success", "invalid_jwt", "thrown"} :
          /\ jose = "rejected" => verdict = "thrown"
          /\ Return(o, IF session[o] = NoToken THEN "invalid_session_cookie" ELSE verdict)
    /\ UNCHANGED <<instance, locals, api, overlapped, lost, jose>>

(* Mutant: the instance takes the new password before the exchange. *)
RefreshSendEarlyPassword(o) ==
    /\ pc[o] = "unsealed" /\ kind[o] = "refresh"
    /\ IF session[o] = NoToken
       THEN Return(o, "invalid_session_cookie") /\ UNCHANGED <<password, cookiePassword>>
       ELSE /\ password' = [password EXCEPT ![o] =
                  IF option[o] # NoValue THEN option[o] ELSE cookiePassword]
            /\ cookiePassword' = password'[o]
            /\ pc' = [pc EXCEPT ![o] = "waiting"]
            /\ UNCHANGED result
    /\ UNCHANGED <<sessionData, kind, option, session, issued, api, overlapped, lost, jose>>

(* refresh() after unsealData: the password of the new seal is read only    *)
(* now, and the exchange is sent.                                           *)
RefreshSend(o) ==
    /\ pc[o] = "unsealed" /\ kind[o] = "refresh"
    /\ IF session[o] = NoToken
       THEN Return(o, "invalid_session_cookie") /\ UNCHANGED password
       ELSE /\ password' = [password EXCEPT ![o] =
                  IF option[o] # NoValue THEN option[o] ELSE cookiePassword]
            /\ pc' = [pc EXCEPT ![o] = "waiting"]
            /\ UNCHANGED result
    /\ UNCHANGED <<instance, kind, option, session, issued, api, overlapped, lost, jose>>

-----------------------------------------------------------------------------
(* POST /user_management/authenticate, from the API (external) to the       *)
(* catch block of refresh().                                                *)

(* The API exchanges the token: for the same one, or a new one.             *)
Exchange(o) ==
    /\ session[o] \in valid
    /\ \/ issued' = [issued EXCEPT ![o] = session[o]] /\ UNCHANGED api
       \/ /\ last < MaxToken
          /\ last' = last + 1
          /\ issued' = [issued EXCEPT ![o] = last']
          /\ valid' = (IF rotates THEN valid \ {session[o]} ELSE valid) \cup {last'}
          /\ UNCHANGED rotates

Exchanged(o) ==
    /\ pc[o] = "waiting"
    /\ Exchange(o)
    /\ pc' = [pc EXCEPT ![o] = "sealing"]
    /\ UNCHANGED <<instance, kind, option, session, password, result, overlapped, lost, jose>>

(* The exchange was made and its answer never came, or came without JSON:   *)
(* a TypeError of the transport, or of deserializing `null`.                *)
AnswerLost(o) ==
    /\ pc[o] = "waiting"
    /\ Exchange(o)
    /\ \E f \in {TimedOut, Unreachable} : Return(o, RefreshReason(HandleHttpError(f)))
    /\ lost' = TRUE
    /\ UNCHANGED <<instance, kind, option, session, password, overlapped, jose>>

(* The API refuses a token it does not know. *)
InvalidGrant ==
    Answered(400, [null |-> FALSE, code |-> NoValue, error |-> "invalid_grant",
                   error_description |-> TRUE, errors |-> FALSE])

Refused(o) ==
    /\ pc[o] = "waiting"
    /\ \E f \in Refusal \cup {InvalidGrant} :
          /\ f = InvalidGrant => session[o] \notin valid
          /\ Return(o, RefreshReason(HandleHttpError(f)))
    /\ UNCHANGED <<instance, locals, api, overlapped, lost, jose>>

(* sealData rejects a weak password; the exchange is made already. *)
SealFails(o) ==
    /\ pc[o] = "sealing" /\ password[o] \in Weak
    /\ Return(o, "thrown")
    /\ lost' = TRUE
    /\ UNCHANGED <<instance, locals, api, overlapped, jose>>

(* Mutant: the new password is not kept. *)
RefreshCommitOldPassword(o) ==
    /\ pc[o] = "sealing" /\ password[o] \notin Weak
    /\ sessionData' = [token |-> issued[o], password |-> password[o]]
    /\ Return(o, "success")
    /\ UNCHANGED <<cookiePassword, locals, api, overlapped, lost, jose>>

(* Mutant: the session that was read is sealed again. *)
RefreshCommitOldToken(o) ==
    /\ pc[o] = "sealing" /\ password[o] \notin Weak
    /\ cookiePassword' = IF option[o] # NoValue THEN option[o] ELSE cookiePassword
    /\ sessionData' = [token |-> session[o], password |-> password[o]]
    /\ Return(o, "success")
    /\ UNCHANGED <<locals, api, overlapped, lost, jose>>

(* Mutant: the refresh token of the answer is dropped. *)
RefreshCommitNoToken(o) ==
    /\ pc[o] = "sealing" /\ password[o] \notin Weak
    /\ cookiePassword' = IF option[o] # NoValue THEN option[o] ELSE cookiePassword
    /\ sessionData' = [token |-> NoToken, password |-> password[o]]
    /\ Return(o, "success")
    /\ UNCHANGED <<locals, api, overlapped, lost, jose>>

(* The seal is made; refresh() updates both fields and returns. *)
RefreshCommit(o) ==
    /\ pc[o] = "sealing" /\ password[o] \notin Weak
    /\ cookiePassword' = IF option[o] # NoValue THEN option[o] ELSE cookiePassword
    /\ sessionData' = [token |-> issued[o], password |-> password[o]]
    /\ Return(o, "success")
    /\ UNCHANGED <<locals, api, overlapped, lost, jose>>

(* The session ends at the API (logout elsewhere). *)
Revoke ==
    /\ valid # {}
    /\ valid' = {}
    /\ UNCHANGED <<instance, pc, locals, result, last, rotates, overlapped, lost, jose>>

Done == (\A o \in Op : pc[o] = "done") /\ UNCHANGED vars

Next ==
    \/ \E o \in Op :
          \/ Refresh(o) \/ RefreshWithoutJose(o) \/ RefreshUnseal(o) \/ RefreshSend(o)
          \/ Exchanged(o) \/ AnswerLost(o) \/ Refused(o) \/ SealFails(o) \/ RefreshCommit(o)
          \/ Authenticate(o) \/ AuthenticateVerify(o)
    \/ GetJose \/ Revoke
    \/ Done

Spec == Init /\ [][Next]_vars

-----------------------------------------------------------------------------

(* The state is well typed, a finished refresh has a reason it knows, and   *)
(* no token is exchanged by a call that has no jose to seal the answer with *)
(* (sealSessionDataFromAuthenticationResponse awaits it again).             *)
TypeOK ==
    /\ sessionData \in Sealed \cup {NoSession}
    /\ cookiePassword \in Password \ Weak
    /\ pc \in [Op -> Step] /\ kind \in [Op -> Kind]
    /\ option \in [Op -> Password \cup {NoValue}]
    /\ session \in [Op -> Token \cup {NoToken}]
    /\ password \in [Op -> Password \cup {NoValue}]
    /\ issued \in [Op -> Token \cup {NoToken}]
    /\ result \in [Op -> Reason \cup {NoValue}]
    /\ valid \subseteq Token /\ last \in Token /\ rotates \in BOOLEAN
    /\ jose \in {"unloaded", "loaded", "rejected"}
    /\ \A o \in Op : pc[o] \in {"waiting", "sealing"} => jose = "loaded"
    /\ overlapped \in BOOLEAN /\ lost \in BOOLEAN

Refreshed == \E o \in Op : kind[o] = "refresh" /\ result[o] = "success"
Opens == sessionData.password = cookiePassword

(* After a refresh the instance opens its own session, whether or not the   *)
(* password was changed, unless a password was changed by one of two        *)
(* refreshes that overlapped.                                               *)
RefreshedOpens ==
    Refreshed /\ (~overlapped \/ \A o \in Op : option[o] = NoValue) => Opens

(* "Update the password if a new one was provided" (session.ts:153) keeps   *)
(* the password that of the session, also when refreshes overlap.           *)
PasswordFollowsSession == Refreshed => Opens

(* A call that does not succeed leaves the instance as it was, so that the  *)
(* caller can keep the session and retry: whatever failed, the API, the     *)
(* network or the sealing of the answer.                                    *)
FailureKeepsSession ==
    [][\A o \in Op : pc'[o] # pc[o] /\ result'[o] # "success" => UNCHANGED instance]_vars

(* The instance holds a token the API accepts, and so an invalid_grant      *)
(* means that the session is over, as long as the API lets retired tokens   *)
(* live, or no two refreshes overlapped and no answer was lost.             *)
HoldsLiveToken ==
    /\ sessionData # NoSession /\ valid # {}
    /\ rotates => ~overlapped /\ ~lost /\ \A o \in Op : pc[o] # "sealing"
    => sessionData.token \in valid

(* "Terminal authentication failures -- the session is over."               *)
(* (session.ts:190): a refresh that was told invalid_grant leaves an        *)
(* instance whose session the API no longer accepts, also when another      *)
(* refresh has exchanged the token it read, and stored the new one.         *)
TerminalMeansOver ==
    \A o \in Op : result[o] = "invalid_grant" => sessionData.token \notin valid
=============================================================================
