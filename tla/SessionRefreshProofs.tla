------------------------ MODULE SessionRefreshProofs ------------------------
(***************************************************************************)
(* One session under any number of concurrent calls, for any passwords and  *)
(* tokens and whatever the API refuses: a call that fails changes nothing,  *)
(* a refreshed session opens, and the instance holds a token that is live   *)
(* as long as that is in its power.                                         *)
(***************************************************************************)
EXTENDS SessionRefresh, TLAPS

(* What a call knows at each of its awaits.                                 *)
NothingKnown(o) ==
    pc[o] = "idle" => kind[o] = "authenticate" /\ option[o] = NoValue
NoResultYet(o) == pc[o] # "done" => result[o] = NoValue
IsRefresh(o) == pc[o] \in {"jose", "waiting", "sealing"} => kind[o] = "refresh"
HasJose(o) ==
    kind[o] = "refresh" /\ pc[o] \in {"unsealed", "waiting", "sealing"} => jose = "loaded"
HasPassword(o) ==
    pc[o] \in {"waiting", "sealing"} =>
        password[o] \in Password /\ (option[o] # NoValue => password[o] = option[o])
HasIssued(o) == pc[o] = "sealing" => issued[o] \in 1 .. last
CallInv(o) ==
    NothingKnown(o) /\ NoResultYet(o) /\ IsRefresh(o) /\ HasJose(o) /\ HasPassword(o)
    /\ HasIssued(o)

ValidIsIssued == valid \subseteq 1 .. last

SessionInv == TypeOK /\ ValidIsIssued /\ \A o \in Op : CallInv(o)

-----------------------------------------------------------------------------

(* Whatever was thrown, refresh() does not make a success of it. *)
LEMMA ReasonOfFailure ==
    ASSUME NEW e
    PROVE RefreshReason(e) \in TerminalReason \cup RetryableReason \cup {"thrown"}
<1>1. ClassifyTerminalRefreshError(e) \in TerminalReason \cup {NoValue}
    BY DEF ClassifyTerminalRefreshError, TerminalReason
<1>2. ClassifyRetryableRefreshError(e) \in RetryableReason \cup {NoValue}
    BY DEF ClassifyRetryableRefreshError, RetryableReason
<1>. QED
    BY <1>1, <1>2 DEF RefreshReason

LEMMA FailureIsNoSuccess ==
    ASSUME NEW e
    PROVE RefreshReason(e) \in Reason \ {"success"}
BY ReasonOfFailure DEF Reason, TerminalReason, RetryableReason

(* A call that returns is done with its result, and the others go on. *)
LEMMA ReturnEnds ==
    ASSUME TypeOK, NEW o \in Op, NEW reason \in Reason, Return(o, reason)
    PROVE /\ pc' \in [Op -> Step] /\ result' \in [Op -> Reason \cup {NoValue}]
          /\ pc'[o] = "done" /\ result'[o] = reason
          /\ \A q \in Op \ {o} : pc'[q] = pc[q] /\ result'[q] = result[q]
BY DEF TypeOK, Return, Step

(* Only the API's own token, or the next one, comes out of an exchange. *)
LEMMA ExchangeIssues ==
    ASSUME TypeOK, ValidIsIssued, NEW o \in Op, Exchange(o)
    PROVE /\ issued' \in [Op -> Token \cup {NoToken}]
          /\ issued'[o] \in 1 .. last' /\ issued'[o] \in valid'
          /\ \A q \in Op \ {o} : issued'[q] = issued[q]
          /\ valid' \subseteq Token /\ valid' \subseteq 1 .. last'
          /\ last' \in Token /\ last <= last'
          /\ rotates' = rotates
          /\ ~rotates => valid \cup {issued'[o]} = valid'
<1>1. /\ valid \subseteq Token /\ last \in Token /\ issued \in [Op -> Token \cup {NoToken}]
      /\ valid \subseteq 1 .. last /\ session[o] \in valid /\ MaxToken \in Nat \ {0}
    BY SessionAssumption DEF TypeOK, ValidIsIssued, Exchange
<1>2. CASE issued' = [issued EXCEPT ![o] = session[o]] /\ UNCHANGED api
    <2>1. valid' = valid /\ last' = last /\ rotates' = rotates /\ issued'[o] = session[o]
        BY <1>1, <1>2 DEF api
    <2>2. valid \cup {issued'[o]} = valid'
        BY <1>1, <2>1
    <2>3. issued' \in [Op -> Token \cup {NoToken}] /\ \A q \in Op \ {o} : issued'[q] = issued[q]
        BY <1>1, <1>2
    <2>4. valid' \subseteq 1 .. last' /\ issued'[o] \in 1 .. last'
        BY <1>1, <2>1
    <2>5. valid' \subseteq Token /\ last' \in Token /\ last <= last' /\ rotates' = rotates
          /\ issued'[o] \in valid'
        BY <1>1, <2>1 DEF Token
    <2>. QED
        BY <2>2, <2>3, <2>4, <2>5
<1>3. CASE /\ last < MaxToken
           /\ last' = last + 1
           /\ issued' = [issued EXCEPT ![o] = last']
           /\ valid' = (IF rotates THEN valid \ {session[o]} ELSE valid) \cup {last'}
           /\ UNCHANGED rotates
    <2>1. last' \in Token /\ last' \in 1 .. last' /\ last <= last' /\ 1 .. last \subseteq 1 .. last'
        BY <1>1, <1>3 DEF Token
    <2>2. issued' \in [Op -> Token \cup {NoToken}] /\ issued'[o] = last'
          /\ \A q \in Op \ {o} : issued'[q] = issued[q]
        BY <1>1, <1>3, <2>1
    <2>3. valid' \subseteq valid \cup {last'} /\ last' \in valid' /\ (~rotates => valid' = valid \cup {last'})
        BY <1>3
    <2>. QED
        BY <1>1, <1>3, <2>1, <2>2, <2>3
<1>. QED
    BY <1>1, <1>2, <1>3 DEF Exchange

(* A call that takes no step knows what it knew. *)
Stays(q) ==
    /\ pc'[q] = pc[q] /\ kind'[q] = kind[q] /\ option'[q] = option[q]
    /\ password'[q] = password[q] /\ issued'[q] = issued[q] /\ result'[q] = result[q]

LEMMA CallKeepsInv ==
    ASSUME TypeOK, NEW q \in Op, CallInv(q), Stays(q), last' \in Token, last <= last',
           jose = "loaded" => jose' = "loaded"
    PROVE CallInv(q)'
<1>1. last \in Nat /\ last' \in Nat /\ 1 .. last \subseteq 1 .. last'
    BY DEF TypeOK, Token
<1>. QED
    BY <1>1 DEF CallInv, Stays, NothingKnown, NoResultYet, IsRefresh, HasJose, HasPassword,
        HasIssued

LEMMA SessionInit == Init => SessionInv
<1>. SUFFICES ASSUME Init PROVE SessionInv
    OBVIOUS
<1>. USE SessionAssumption, NoValueAssumption
<1>1. 1 \in Token /\ last = 1 /\ valid = {1} /\ valid \subseteq 1 .. last
    BY DEF Init, Token
<1>2. /\ sessionData \in Sealed \cup {NoSession} /\ cookiePassword \in Password \ Weak
      /\ jose = "unloaded"
    BY <1>1 DEF Init, Sealed
<1>3. /\ pc \in [Op -> Step] /\ kind \in [Op -> Kind]
      /\ option \in [Op -> Password \cup {NoValue}]
      /\ session \in [Op -> Token \cup {NoToken}]
      /\ password \in [Op -> Password \cup {NoValue}]
      /\ issued \in [Op -> Token \cup {NoToken}]
      /\ result \in [Op -> Reason \cup {NoValue}]
    BY DEF Init, Step, Kind
<1>4. \A o \in Op : pc[o] = "idle" /\ kind[o] = "authenticate" /\ option[o] = NoValue
                    /\ result[o] = NoValue
    BY DEF Init
<1>5. rotates \in BOOLEAN /\ overlapped \in BOOLEAN /\ lost \in BOOLEAN
    BY DEF Init
<1>. QED
    BY <1>1, <1>2, <1>3, <1>4, <1>5 DEF SessionInv, TypeOK, ValidIsIssued, CallInv,
        NothingKnown, NoResultYet, IsRefresh, HasJose, HasPassword, HasIssued

(* A call that returns with nothing else changed, but what was lost. *)
LEMMA ReturnKeepsInv ==
    ASSUME SessionInv, NEW o \in Op, pc[o] # "idle", NEW reason \in Reason, Return(o, reason),
           UNCHANGED <<instance, locals, api, overlapped, jose>>, lost' \in BOOLEAN
    PROVE SessionInv'
<1>1. TypeOK /\ \A q \in Op : CallInv(q)
    BY DEF SessionInv
<1>2. /\ pc' \in [Op -> Step] /\ result' \in [Op -> Reason \cup {NoValue}]
      /\ pc'[o] = "done" /\ result'[o] = reason
      /\ \A q \in Op \ {o} : pc'[q] = pc[q] /\ result'[q] = result[q]
    BY <1>1, ReturnEnds
<1>3. TypeOK' /\ ValidIsIssued'
    BY <1>1, <1>2 DEF SessionInv, TypeOK, ValidIsIssued, instance, locals, api
<1>4. CallInv(o)'
    BY <1>2 DEF CallInv, NothingKnown, NoResultYet, IsRefresh, HasJose, HasPassword, HasIssued
<1>5. ASSUME NEW q \in Op \ {o} PROVE CallInv(q)'
    <2>1. Stays(q) /\ last' = last /\ jose' = jose /\ last \in Token /\ last <= last
        BY <1>1, <1>2 DEF Stays, locals, api, TypeOK, Token
    <2>. QED
        BY <1>1, <2>1, CallKeepsInv
<1>. QED
    BY <1>3, <1>4, <1>5 DEF SessionInv

(* A step of one call, which leaves the others where they are. *)
LEMMA StepKeepsInv ==
    ASSUME SessionInv, NEW o \in Op, TypeOK', ValidIsIssued', CallInv(o)',
           \A q \in Op \ {o} : Stays(q), last <= last', jose' = jose
    PROVE SessionInv'
<1>1. ASSUME NEW q \in Op \ {o} PROVE CallInv(q)'
    BY CallKeepsInv DEF SessionInv, TypeOK
<1>. QED
    BY <1>1 DEF SessionInv

LEMMA SessionNext == SessionInv /\ [Next]_vars => SessionInv'
<1>. SUFFICES ASSUME SessionInv, [Next]_vars PROVE SessionInv'
    OBVIOUS
<1>. USE SessionAssumption
<1>a. TypeOK /\ ValidIsIssued /\ (\A o \in Op : CallInv(o)) /\ last <= last
    BY DEF SessionInv, TypeOK, Token
<1>. DEFINE Others(o) == \A q \in Op \ {o} : Stays(q)
<1>1. ASSUME NEW o \in Op, Refresh(o) PROVE SessionInv'
    <2>1. TypeOK' /\ ValidIsIssued'
        BY <1>a, <1>1 DEF Refresh, TypeOK, Kind, Step, ValidIsIssued, instance, api
    <2>2. pc'[o] = "jose" /\ kind'[o] = "refresh" /\ result'[o] = result[o] /\ pc[o] = "idle"
        BY <1>a, <1>1 DEF Refresh, TypeOK
    <2>3. CallInv(o)'
        BY <1>a, <2>2 DEF CallInv, NothingKnown, NoResultYet, IsRefresh, HasJose, HasPassword,
            HasIssued
    <2>4. Others(o)
        BY <1>a, <1>1 DEF Refresh, Stays, TypeOK
    <2>. QED
        BY <1>a, <1>1, <2>1, <2>3, <2>4, StepKeepsInv DEF Refresh, api
<1>2. ASSUME NEW o \in Op, RefreshWithoutJose(o) PROVE SessionInv'
    BY <1>a, <1>2, ReturnKeepsInv DEF RefreshWithoutJose, Reason, TypeOK
<1>3. ASSUME NEW o \in Op, RefreshUnseal(o) PROVE SessionInv'
    <2>1. Unseal \in Token \cup {NoToken}
        BY <1>a DEF Unseal, TypeOK, Sealed, NoSession
    <2>2. TypeOK' /\ ValidIsIssued'
        BY <1>a, <1>3, <2>1 DEF RefreshUnseal, TypeOK, Step, ValidIsIssued, instance, api
    <2>3. pc'[o] = "unsealed" /\ result' = result /\ pc[o] = "jose" /\ jose' = "loaded"
        BY <1>a, <1>3 DEF RefreshUnseal, TypeOK
    <2>4. CallInv(o)'
        BY <1>a, <2>3 DEF CallInv, NothingKnown, NoResultYet, IsRefresh, HasJose, HasPassword,
            HasIssued
    <2>5. Others(o)
        BY <1>a, <1>3 DEF RefreshUnseal, Stays, TypeOK
    <2>. QED
        BY <1>a, <1>3, <2>2, <2>4, <2>5, StepKeepsInv DEF RefreshUnseal, api
<1>4. ASSUME NEW o \in Op, RefreshSend(o) PROVE SessionInv'
    <2>1. CASE session[o] = NoToken
        BY <1>a, <1>4, <2>1, ReturnKeepsInv DEF RefreshSend, Reason, TypeOK, locals
    <2>2. CASE session[o] # NoToken
        <3>. DEFINE p == IF option[o] # NoValue THEN option[o] ELSE cookiePassword
        <3>1. /\ pc[o] = "unsealed" /\ kind[o] = "refresh" /\ jose = "loaded"
              /\ password' = [password EXCEPT ![o] = p] /\ pc' = [pc EXCEPT ![o] = "waiting"]
              /\ UNCHANGED <<instance, kind, option, session, issued, result, api, overlapped,
                             lost, jose>>
            BY <1>a, <1>4, <2>2 DEF RefreshSend, CallInv, HasJose
        <3>2. p \in Password /\ (option[o] # NoValue => p = option[o])
            BY <1>a DEF TypeOK
        <3>. HIDE DEF p
        <3>3. TypeOK' /\ ValidIsIssued'
            BY <1>a, <3>1, <3>2 DEF TypeOK, Step, ValidIsIssued, instance, api
        <3>4. pc'[o] = "waiting" /\ password'[o] = p
            BY <1>a, <3>1 DEF TypeOK
        <3>5. CallInv(o)'
            BY <1>a, <3>1, <3>2, <3>4 DEF CallInv, NothingKnown, NoResultYet, IsRefresh, HasJose,
                HasPassword, HasIssued
        <3>6. Others(o)
            BY <1>a, <3>1 DEF Stays, TypeOK
        <3>. QED
            BY <1>a, <3>1, <3>3, <3>5, <3>6, StepKeepsInv DEF api
    <2>. QED
        BY <2>1, <2>2
<1>5. ASSUME NEW o \in Op, Exchanged(o) PROVE SessionInv'
    <2>1. /\ pc[o] = "waiting" /\ pc' = [pc EXCEPT ![o] = "sealing"]
          /\ UNCHANGED <<instance, kind, option, session, password, result, overlapped, lost, jose>>
        BY <1>5 DEF Exchanged
    <2>2. /\ issued' \in [Op -> Token \cup {NoToken}] /\ issued'[o] \in 1 .. last'
          /\ \A q \in Op \ {o} : issued'[q] = issued[q]
          /\ valid' \subseteq Token /\ valid' \subseteq 1 .. last'
          /\ last' \in Token /\ last <= last' /\ rotates' = rotates
        BY <1>a, <1>5, ExchangeIssues DEF Exchanged
    <2>3. jose = "loaded"
        BY <1>a, <2>1 DEF TypeOK
    <2>4. TypeOK' /\ ValidIsIssued'
        BY <1>a, <2>1, <2>2, <2>3 DEF TypeOK, Step, ValidIsIssued, instance
    <2>5. pc'[o] = "sealing"
        BY <1>a, <2>1 DEF TypeOK
    <2>6. CallInv(o)'
        BY <1>a, <2>1, <2>2, <2>3, <2>5 DEF CallInv, NothingKnown, NoResultYet, IsRefresh,
            HasJose, HasPassword, HasIssued
    <2>7. Others(o)
        BY <1>a, <2>1, <2>2 DEF Stays, TypeOK
    <2>. QED
        BY <1>a, <2>1, <2>2, <2>4, <2>6, <2>7, StepKeepsInv
<1>6. ASSUME NEW o \in Op, AnswerLost(o) PROVE SessionInv'
    <2>1. PICK f \in {TimedOut, Unreachable} : Return(o, RefreshReason(HandleHttpError(f)))
        BY <1>6 DEF AnswerLost
    <2>2. /\ issued' \in [Op -> Token \cup {NoToken}]
          /\ \A q \in Op \ {o} : issued'[q] = issued[q]
          /\ valid' \subseteq Token /\ valid' \subseteq 1 .. last'
          /\ last' \in Token /\ last <= last' /\ rotates' = rotates
        BY <1>a, <1>6, ExchangeIssues DEF AnswerLost
    <2>3. /\ pc' \in [Op -> Step] /\ result' \in [Op -> Reason \cup {NoValue}]
          /\ pc'[o] = "done"
          /\ \A q \in Op \ {o} : pc'[q] = pc[q] /\ result'[q] = result[q]
        BY <1>a, <2>1, ReturnEnds, FailureIsNoSuccess
    <2>4. TypeOK' /\ ValidIsIssued'
        BY <1>a, <1>6, <2>2, <2>3 DEF AnswerLost, TypeOK, ValidIsIssued, instance
    <2>5. CallInv(o)'
        BY <2>3 DEF CallInv, NothingKnown, NoResultYet, IsRefresh, HasJose, HasPassword,
            HasIssued
    <2>6. Others(o)
        BY <1>a, <1>6, <2>2, <2>3 DEF AnswerLost, Stays
    <2>. QED
        BY <1>a, <1>6, <2>2, <2>4, <2>5, <2>6, StepKeepsInv DEF AnswerLost
<1>7. ASSUME NEW o \in Op, Refused(o) PROVE SessionInv'
    BY <1>a, <1>7, ReturnKeepsInv, FailureIsNoSuccess DEF Refused, TypeOK
<1>8. ASSUME NEW o \in Op, SealFails(o) PROVE SessionInv'
    BY <1>a, <1>8, ReturnKeepsInv DEF SealFails, Reason, TypeOK
<1>9. ASSUME NEW o \in Op, RefreshCommit(o) PROVE SessionInv'
    <2>1. /\ pc[o] = "sealing" /\ issued[o] \in Token /\ password[o] \in Password \ Weak
          /\ option[o] # NoValue => password[o] = option[o]
        BY <1>a, <1>9 DEF RefreshCommit, CallInv, HasPassword, HasIssued, TypeOK, Token
    <2>2. sessionData' \in Sealed /\ cookiePassword' \in Password \ Weak
        BY <1>a, <1>9, <2>1 DEF RefreshCommit, Sealed, TypeOK
    <2>3. /\ pc' \in [Op -> Step] /\ result' \in [Op -> Reason \cup {NoValue}]
          /\ pc'[o] = "done"
          /\ \A q \in Op \ {o} : pc'[q] = pc[q] /\ result'[q] = result[q]
        BY <1>a, <1>9, ReturnEnds DEF RefreshCommit, Reason
    <2>4. TypeOK' /\ ValidIsIssued'
        BY <1>a, <1>9, <2>2, <2>3 DEF RefreshCommit, TypeOK, ValidIsIssued, locals, api
    <2>5. CallInv(o)'
        BY <2>3 DEF CallInv, NothingKnown, NoResultYet, IsRefresh, HasJose, HasPassword,
            HasIssued
    <2>6. Others(o)
        BY <1>9, <2>3 DEF RefreshCommit, Stays, locals
    <2>. QED
        BY <1>a, <1>9, <2>4, <2>5, <2>6, StepKeepsInv DEF RefreshCommit, api
<1>10. ASSUME NEW o \in Op, Authenticate(o) PROVE SessionInv'
    <2>1. pc[o] = "idle" /\ kind[o] = "authenticate" /\ option[o] = NoValue /\ result[o] = NoValue
        BY <1>a, <1>10 DEF Authenticate, CallInv, NothingKnown, NoResultYet
    <2>2. /\ pc' \in [Op -> Step] /\ result' \in [Op -> Reason \cup {NoValue}]
          /\ session' \in [Op -> Token \cup {NoToken}]
          /\ pc'[o] = "done" \/ (pc'[o] = "unsealed" /\ result' = result)
          /\ \A q \in Op \ {o} : pc'[q] = pc[q] /\ result'[q] = result[q]
        <3>1. CASE sessionData = NoSession
            <4>1. Return(o, "no_session_cookie_provided") /\ session' = session
                BY <1>10, <3>1 DEF Authenticate
            <4>2. "no_session_cookie_provided" \in Reason
                BY DEF Reason
            <4>3. session' \in [Op -> Token \cup {NoToken}]
                BY <1>a, <4>1 DEF TypeOK
            <4>4. /\ pc' \in [Op -> Step] /\ result' \in [Op -> Reason \cup {NoValue}]
                  /\ pc'[o] = "done"
                  /\ \A q \in Op \ {o} : pc'[q] = pc[q] /\ result'[q] = result[q]
                BY <1>a, <4>1, <4>2, ReturnEnds
            <4>. QED
                BY <4>3, <4>4
        <3>2. CASE sessionData # NoSession
            <4>1. Unseal \in Token \cup {NoToken}
                BY <1>a DEF Unseal, TypeOK, Sealed, NoSession
            <4>2. /\ session' = [session EXCEPT ![o] = Unseal]
                  /\ pc' = [pc EXCEPT ![o] = "unsealed"] /\ result' = result
                BY <1>10, <3>2 DEF Authenticate
            <4>3. /\ pc' \in [Op -> Step] /\ pc'[o] = "unsealed"
                  /\ \A q \in Op \ {o} : pc'[q] = pc[q]
                BY <1>a, <4>2 DEF TypeOK, Step
            <4>4. session' \in [Op -> Token \cup {NoToken}] /\ result \in [Op -> Reason \cup {NoValue}]
                BY <1>a, <4>1, <4>2 DEF TypeOK
            <4>. QED
                BY <4>2, <4>3, <4>4
        <3>. QED
            BY <3>1, <3>2
    <2>3. TypeOK' /\ ValidIsIssued'
        BY <1>a, <1>10, <2>2 DEF Authenticate, TypeOK, ValidIsIssued, instance, api
    <2>4. CallInv(o)'
        BY <1>10, <2>1, <2>2 DEF Authenticate, CallInv, NothingKnown, NoResultYet, IsRefresh,
            HasJose, HasPassword, HasIssued
    <2>5. Others(o)
        BY <1>10, <2>2 DEF Authenticate, Stays
    <2>. QED
        BY <1>a, <1>10, <2>3, <2>4, <2>5, StepKeepsInv DEF Authenticate, api
<1>11. ASSUME NEW o \in Op, AuthenticateVerify(o) PROVE SessionInv'
    <2>1. PICK verdict \in {"success", "invalid_jwt", "thrown"} :
              Return(o, IF session[o] = NoToken THEN "invalid_session_cookie" ELSE verdict)
        BY <1>11 DEF AuthenticateVerify
    <2>. QED
        BY <1>a, <1>11, <2>1, ReturnKeepsInv DEF AuthenticateVerify, Reason, TypeOK
<1>12. CASE GetJose
    <2>1. TypeOK' /\ ValidIsIssued'
        BY <1>a, <1>12 DEF GetJose, TypeOK, ValidIsIssued, instance, locals, api
    <2>2. ASSUME NEW q \in Op PROVE CallInv(q)'
        BY <1>a, <1>12, CallKeepsInv DEF GetJose, Stays, locals, api, TypeOK
    <2>. QED
        BY <2>1, <2>2 DEF SessionInv
<1>13. CASE Revoke
    <2>1. TypeOK' /\ ValidIsIssued'
        BY <1>a, <1>13 DEF Revoke, TypeOK, ValidIsIssued, instance, locals
    <2>2. ASSUME NEW q \in Op PROVE CallInv(q)'
        BY <1>a, <1>13, CallKeepsInv DEF Revoke, Stays, locals, TypeOK
    <2>. QED
        BY <2>1, <2>2 DEF SessionInv
<1>14. CASE UNCHANGED vars
    <2>1. TypeOK' /\ ValidIsIssued'
        BY <1>a, <1>14 DEF vars, TypeOK, ValidIsIssued, instance, locals, api
    <2>2. ASSUME NEW q \in Op PROVE CallInv(q)'
        BY <1>a, <1>14, CallKeepsInv DEF vars, Stays, locals, api, TypeOK
    <2>. QED
        BY <2>1, <2>2 DEF SessionInv
<1>. QED
    BY <1>1, <1>2, <1>3, <1>4, <1>5, <1>6, <1>7, <1>8, <1>9, <1>10, <1>11, <1>12, <1>13, <1>14
    DEF Next, Done

(* The state stays well typed, and no token is exchanged by a call without  *)
(* jose (TypeOK).                                                           *)
THEOREM SessionTypeCorrect == Spec => []TypeOK
<1>. QED
    BY SessionInit, SessionNext, PTL DEF Spec, SessionInv

-----------------------------------------------------------------------------

(* Only the commit of a refresh changes the instance, and nothing else      *)
(* makes a refresh successful.                                              *)
SameInstance == UNCHANGED instance
NoNewRefresh ==
    \A o \in Op : kind'[o] = "refresh" /\ result'[o] = "success"
                    => kind[o] = "refresh" /\ result[o] = "success"

LEMMA FailureReturns ==
    ASSUME TypeOK, NEW o \in Op, NEW reason \in Reason \ {"success"}, Return(o, reason),
           kind' = kind
    PROVE NoNewRefresh
<1>1. result'[o] = reason /\ \A q \in Op \ {o} : result'[q] = result[q]
    BY DEF Return, TypeOK
<1>. QED
    BY <1>1 DEF NoNewRefresh

LEMMA OnlyCommitChanges ==
    ASSUME SessionInv, [Next]_vars, \A o \in Op : ~RefreshCommit(o)
    PROVE SameInstance /\ NoNewRefresh
<1>. TypeOK /\ \A o \in Op : CallInv(o)
    BY DEF SessionInv
<1>1. SameInstance
    BY DEF SameInstance, Next, Refresh, RefreshWithoutJose, RefreshUnseal, RefreshSend, Exchanged,
        AnswerLost, Refused, SealFails, Authenticate, AuthenticateVerify, GetJose, Revoke,
        Done, vars
<1>2. ASSUME NEW o \in Op, Refresh(o) PROVE NoNewRefresh
    <2>1. result' = result /\ pc[o] = "idle" /\ \A q \in Op \ {o} : kind'[q] = kind[q]
        BY <1>2 DEF Refresh, TypeOK
    <2>2. NoValue # "success"
        BY NoValueAssumption
    <2>3. result[o] # "success"
        BY <2>1, <2>2 DEF CallInv, NoResultYet
    <2>. QED
        BY <2>1, <2>3 DEF NoNewRefresh
<1>3. ASSUME NEW o \in Op, RefreshWithoutJose(o) \/ SealFails(o) PROVE NoNewRefresh
    BY <1>3, FailureReturns DEF RefreshWithoutJose, SealFails, Reason, locals
<1>4. ASSUME NEW o \in Op, RefreshSend(o) PROVE NoNewRefresh
    <2>1. CASE Return(o, "invalid_session_cookie")
        BY <1>4, <2>1, FailureReturns DEF RefreshSend, Reason
    <2>2. CASE UNCHANGED result
        BY <1>4, <2>2 DEF RefreshSend, NoNewRefresh
    <2>. QED
        BY <1>4, <2>1, <2>2 DEF RefreshSend
<1>5. ASSUME NEW o \in Op, AnswerLost(o) \/ Refused(o) PROVE NoNewRefresh
    <2>1. kind' = kind /\ \E f : Return(o, RefreshReason(HandleHttpError(f)))
        BY <1>5 DEF AnswerLost, Refused, locals
    <2>. QED
        BY <2>1, FailureIsNoSuccess, FailureReturns
<1>6. ASSUME NEW o \in Op, Authenticate(o) PROVE NoNewRefresh
    <2>1. CASE Return(o, "no_session_cookie_provided")
        BY <1>6, <2>1, FailureReturns DEF Authenticate, Reason
    <2>2. CASE UNCHANGED result
        BY <1>6, <2>2 DEF Authenticate, NoNewRefresh
    <2>. QED
        BY <1>6, <2>1, <2>2 DEF Authenticate
<1>7. ASSUME NEW o \in Op, AuthenticateVerify(o) PROVE NoNewRefresh
    <2>1. kind' = kind /\ kind[o] = "authenticate" /\ \A q \in Op \ {o} : result'[q] = result[q]
        BY <1>7 DEF AuthenticateVerify, Return, locals, TypeOK
    <2>. QED
        BY <2>1 DEF NoNewRefresh
<1>8. ASSUME NEW o \in Op, RefreshUnseal(o) \/ Exchanged(o) PROVE NoNewRefresh
    BY <1>8 DEF RefreshUnseal, Exchanged, NoNewRefresh
<1>9. CASE GetJose \/ Revoke
    BY <1>1, <1>9 DEF GetJose, Revoke, locals, NoNewRefresh
<1>10. CASE UNCHANGED vars
    BY <1>1, <1>10 DEF vars, locals, NoNewRefresh
<1>. QED
    BY <1>1, <1>2, <1>3, <1>4, <1>5, <1>6, <1>7, <1>8, <1>9, <1>10 DEF Next, Done

(* A call that does not succeed leaves the instance as it was, so that the  *)
(* caller can keep the session and retry (FailureKeepsSession).             *)
THEOREM FailedCallsKeepSession == Spec => FailureKeepsSession
<1>1. SessionInv /\ [Next]_vars =>
         [\A o \in Op : pc'[o] # pc[o] /\ result'[o] # "success" => UNCHANGED instance]_vars
    <2>. SUFFICES ASSUME SessionInv, [Next]_vars, NEW o \in Op,
                         pc'[o] # pc[o], result'[o] # "success"
                  PROVE SameInstance
        BY DEF SameInstance
    <2>1. ASSUME NEW q \in Op, RefreshCommit(q) PROVE FALSE
        <3>1. /\ result'[q] = "success"
              /\ \A p \in Op \ {q} : pc'[p] = pc[p]
            BY <2>1, ReturnEnds DEF RefreshCommit, Reason, SessionInv
        <3>. QED
            BY <3>1
    <2>. QED
        BY <2>1, OnlyCommitChanges
<1>. QED
    BY <1>1, SessionInit, SessionNext, PTL DEF Spec, FailureKeepsSession

-----------------------------------------------------------------------------

(* Two refreshes under way at once have been seen. *)
OverlapSeen ==
    ~overlapped => \A p, q \in Op : Refreshing(p) /\ Refreshing(q) => p = q

(* Under the premise of RefreshedOpens, the password a call seals with is   *)
(* still that of the instance.                                              *)
Calm == ~overlapped \/ \A o \in Op : option[o] = NoValue
PasswordIsCurrent ==
    Calm => \A o \in Op :
        pc[o] \in {"waiting", "sealing"} /\ option[o] = NoValue => password[o] = cookiePassword
OpensInv == SessionInv /\ OverlapSeen /\ PasswordIsCurrent /\ RefreshedOpens

LEMMA OverlapInit == Init => OverlapSeen
BY DEF Init, OverlapSeen, Refreshing

(* A call that was not refreshing is so only by being called. *)
LEMMA RefreshingContinues ==
    ASSUME SessionInv, [Next]_vars, \A o \in Op : ~Refresh(o)
    PROVE /\ overlapped' = overlapped /\ option' = option
          /\ \A q \in Op : Refreshing(q)' => Refreshing(q)
<1>. TypeOK /\ \A o \in Op : CallInv(o)
    BY DEF SessionInv
<1>1. overlapped' = overlapped /\ kind' = kind /\ option' = option
    BY DEF Next, RefreshWithoutJose, RefreshUnseal, RefreshSend, Exchanged, AnswerLost, Refused,
        SealFails, RefreshCommit, Authenticate, AuthenticateVerify, GetJose, Revoke, Done,
        vars, locals
<1>2. \A q \in Op : \/ pc'[q] = pc[q] \/ pc'[q] = "done"
                    \/ pc[q] \in {"jose", "unsealed", "waiting"}
                    \/ kind[q] = "authenticate"
    <2>1. ASSUME NEW o \in Op, RefreshWithoutJose(o) \/ Refused(o) \/ SealFails(o)
                              \/ RefreshCommit(o) \/ AuthenticateVerify(o) \/ AnswerLost(o)
          PROVE \A q \in Op : pc'[q] = pc[q] \/ pc'[q] = "done"
        BY <2>1 DEF RefreshWithoutJose, Refused, SealFails, RefreshCommit, AuthenticateVerify,
            AnswerLost, Return, TypeOK
    <2>2. ASSUME NEW o \in Op, RefreshUnseal(o) \/ RefreshSend(o) \/ Exchanged(o)
          PROVE \A q \in Op : pc'[q] = pc[q] \/ pc[q] \in {"jose", "unsealed", "waiting"}
        BY <2>2 DEF RefreshUnseal, RefreshSend, Exchanged, Return, TypeOK
    <2>3. ASSUME NEW o \in Op, Authenticate(o)
          PROVE \A q \in Op : pc'[q] = pc[q] \/ kind[q] = "authenticate"
        BY <2>3 DEF Authenticate, Return, TypeOK, CallInv, NothingKnown
    <2>4. CASE pc' = pc
        BY <2>4
    <2>. QED
        BY <2>1, <2>2, <2>3, <2>4 DEF Next, GetJose, Revoke, Done, vars
<1>. QED
    BY <1>1, <1>2 DEF Refreshing

LEMMA OverlapNext == SessionInv /\ OverlapSeen /\ [Next]_vars => OverlapSeen'
<1>. SUFFICES ASSUME SessionInv, OverlapSeen, [Next]_vars PROVE OverlapSeen'
    OBVIOUS
<1>1. ASSUME NEW o \in Op, Refresh(o) PROVE OverlapSeen'
    <2>1. \A q \in Op \ {o} : Refreshing(q)' => Refreshing(q)
        BY <1>1 DEF Refresh, Refreshing, SessionInv, TypeOK
    <2>2. overlapped' = (overlapped \/ \E q \in Op : Refreshing(q))
        BY <1>1 DEF Refresh
    <2>. QED
        BY <2>1, <2>2 DEF OverlapSeen
<1>2. CASE \A o \in Op : ~Refresh(o)
    BY <1>2, RefreshingContinues DEF OverlapSeen
<1>. QED
    BY <1>1, <1>2

(* What is calm after a step was calm before it. *)
LEMMA CalmBefore ==
    ASSUME SessionInv, [Next]_vars, Calm' PROVE Calm
<1>1. ASSUME NEW o \in Op, Refresh(o) PROVE Calm
    <2>1. option[o] = NoValue /\ \A q \in Op \ {o} : option'[q] = option[q]
        BY <1>1 DEF Refresh, SessionInv, CallInv, NothingKnown, TypeOK
    <2>2. overlapped => overlapped'
        BY <1>1 DEF Refresh
    <2>. QED
        BY <2>1, <2>2 DEF Calm
<1>2. CASE \A o \in Op : ~Refresh(o)
    BY <1>2, RefreshingContinues DEF Calm
<1>. QED
    BY <1>1, <1>2

(* After a refresh the instance opens its own session, unless a password    *)
(* was changed by one of two refreshes that overlapped (RefreshedOpens).    *)
THEOREM RefreshedSessionOpens == Spec => []RefreshedOpens
<1>1. Init => OpensInv
    <2>. SUFFICES ASSUME Init PROVE PasswordIsCurrent /\ RefreshedOpens
        BY SessionInit, OverlapInit DEF OpensInv
    <2>. QED
        BY DEF Init, PasswordIsCurrent, RefreshedOpens, Refreshed
<1>2. OpensInv /\ [Next]_vars => OpensInv'
    <2>. SUFFICES ASSUME OpensInv, [Next]_vars, Calm'
                  PROVE PasswordIsCurrent' /\ RefreshedOpens'
        BY SessionNext, OverlapNext DEF OpensInv, PasswordIsCurrent, RefreshedOpens, Calm
    <2>0. /\ SessionInv /\ TypeOK /\ OverlapSeen /\ Calm /\ \A o \in Op : CallInv(o)
          /\ Refreshed => Opens
          /\ \A o \in Op : pc[o] \in {"waiting", "sealing"} /\ option[o] = NoValue
                            => password[o] = cookiePassword
        BY CalmBefore DEF OpensInv, SessionInv, PasswordIsCurrent, RefreshedOpens, Calm
    <2>1. ASSUME NEW o \in Op, RefreshCommit(o) PROVE PasswordIsCurrent' /\ RefreshedOpens'
        <3>1. /\ pc[o] = "sealing" /\ kind[o] = "refresh"
              /\ option[o] # NoValue => password[o] = option[o]
            BY <2>0, <2>1 DEF RefreshCommit, CallInv, IsRefresh, HasPassword
        <3>2. Opens'
            BY <2>0, <2>1, <3>1 DEF RefreshCommit, Opens
        <3>3. ASSUME NEW q \in Op, pc'[q] \in {"waiting", "sealing"}, option'[q] = NoValue
              PROVE password'[q] = cookiePassword'
            <4>1. q # o /\ pc[q] = pc'[q] /\ option' = option /\ password' = password
                BY <2>0, <2>1, <3>3 DEF RefreshCommit, Return, locals, TypeOK
            <4>2. overlapped
                BY <2>0, <3>1, <3>3, <4>1 DEF OverlapSeen, Refreshing, CallInv, IsRefresh
            <4>3. option[o] = NoValue
                BY <2>0, <4>2 DEF Calm
            <4>. QED
                BY <2>0, <2>1, <3>3, <4>1, <4>3 DEF RefreshCommit
        <3>. QED
            BY <3>2, <3>3 DEF PasswordIsCurrent, RefreshedOpens
    <2>2. ASSUME \A o \in Op : ~RefreshCommit(o) PROVE PasswordIsCurrent' /\ RefreshedOpens'
        <3>1. SameInstance /\ NoNewRefresh
            BY <2>0, <2>2, OnlyCommitChanges
        <3>2. RefreshedOpens'
            BY <2>0, <3>1 DEF RefreshedOpens, Refreshed, SameInstance, NoNewRefresh, Opens, instance
        <3>3. ASSUME NEW q \in Op, pc'[q] \in {"waiting", "sealing"}, option'[q] = NoValue
              PROVE password'[q] = cookiePassword'
            <4>1. cookiePassword' = cookiePassword
                BY <3>1 DEF SameInstance, instance
            <4>2. CASE RefreshSend(q)
                BY <2>0, <3>3, <4>1, <4>2 DEF RefreshSend, TypeOK, Return
            <4>3. CASE /\ pc[q] \in {"waiting", "sealing"}
                       /\ password'[q] = password[q] /\ option'[q] = option[q]
                BY <2>0, <3>3, <4>1, <4>3
            <4>4. ASSUME ~RefreshSend(q)
                  PROVE /\ pc[q] \in {"waiting", "sealing"}
                        /\ password'[q] = password[q] /\ option'[q] = option[q]
                <5>1. ASSUME NEW o \in Op, o # q, Refresh(o) \/ RefreshUnseal(o) \/ RefreshSend(o)
                                        \/ Exchanged(o) \/ Authenticate(o)
                      PROVE /\ pc[q] = pc'[q] /\ password'[q] = password[q]
                            /\ option'[q] = option[q]
                    BY <2>0, <5>1 DEF Refresh, RefreshUnseal, RefreshSend, Exchanged, Authenticate,
                        Return, TypeOK
                <5>2. Exchanged(q) => pc[q] = "waiting" /\ UNCHANGED <<password, option>>
                    BY DEF Exchanged
                <5>3. ~Refresh(q) /\ ~RefreshUnseal(q) /\ ~Authenticate(q)
                    BY <2>0, <3>3 DEF Refresh, RefreshUnseal, Authenticate, Return, TypeOK
                <5>4. ASSUME NEW o \in Op, RefreshWithoutJose(o) \/ Refused(o) \/ SealFails(o)
                                        \/ AuthenticateVerify(o) \/ AnswerLost(o)
                      PROVE /\ pc[q] = pc'[q] /\ password'[q] = password[q]
                            /\ option'[q] = option[q]
                    BY <2>0, <3>3, <5>4 DEF RefreshWithoutJose, Refused, SealFails, AnswerLost,
                        AuthenticateVerify, Return, locals, TypeOK
                <5>5. GetJose \/ Revoke \/ UNCHANGED vars => UNCHANGED <<pc, password, option>>
                    BY DEF GetJose, Revoke, vars, locals
                <5>. QED
                    BY <2>2, <3>3, <4>4, <5>1, <5>2, <5>3, <5>4, <5>5 DEF Next, Done
            <4>. QED
                BY <4>2, <4>3, <4>4
        <3>. QED
            BY <3>2, <3>3 DEF PasswordIsCurrent
    <2>. QED
        BY <2>1, <2>2
<1>. QED
    BY <1>1, <1>2, PTL DEF Spec, OpensInv

-----------------------------------------------------------------------------

(* An API that keeps retired tokens accepts all it issued, until the        *)
(* session is revoked; one that retires them accepts that of the instance,  *)
(* or of the refresh about to commit.                                       *)
SessionIsIssued == sessionData # NoSession => sessionData.token \in 1 .. last
AllKept == ~rotates /\ valid # {} => valid = 1 .. last
Quiet == rotates /\ valid # {} /\ ~overlapped /\ ~lost
QuietHoldsLive ==
    Quiet =>
      /\ \A o \in Op : pc[o] = "sealing" => issued[o] \in valid
      /\ sessionData # NoSession /\ (\A o \in Op : pc[o] # "sealing")
            => sessionData.token \in valid
LiveInv == SessionInv /\ OverlapSeen /\ SessionIsIssued /\ AllKept /\ QuietHoldsLive

(* A step that neither begins nor ends a sealing, and makes no exchange. *)
LEMMA UneventfulKeepsLive ==
    ASSUME LiveInv, UNCHANGED <<sessionData, issued, valid, last, rotates>>,
           \A o \in Op : pc'[o] = "sealing" <=> pc[o] = "sealing",
           overlapped => overlapped', lost' = lost
    PROVE SessionIsIssued' /\ AllKept' /\ QuietHoldsLive'
BY DEF LiveInv, SessionIsIssued, AllKept, QuietHoldsLive, Quiet

(* What an exchange does to an API that keeps its tokens. *)
LEMMA ExchangeKeepsAll ==
    ASSUME SessionInv, AllKept, NEW o \in Op, Exchange(o)
    PROVE AllKept'
<1>. last \in Nat
    BY DEF SessionInv, TypeOK, Token
<1>1. rotates' = rotates /\ valid # {}
    BY DEF Exchange, api
<1>2. CASE UNCHANGED api
    BY <1>2 DEF AllKept, api
<1>3. CASE ~rotates /\ last' = last + 1 /\ valid' = valid \cup {last'}
    <2>1. valid = 1 .. last
        BY <1>1, <1>3 DEF AllKept
    <2>2. valid' = 1 .. last'
        BY <1>3, <2>1
    <2>. QED
        BY <2>2 DEF AllKept
<1>4. CASE rotates
    BY <1>1, <1>4 DEF AllKept
<1>. QED
    BY <1>2, <1>3, <1>4 DEF Exchange

(* The instance holds a token the API accepts, as long as the API lets      *)
(* retired tokens live, or no two refreshes overlapped and no answer was    *)
(* lost (HoldsLiveToken).                                                   *)
THEOREM LiveTokenIsHeld == Spec => []HoldsLiveToken
<1>1. Init => LiveInv
    <2>. SUFFICES ASSUME Init PROVE SessionIsIssued /\ AllKept /\ QuietHoldsLive
        BY SessionInit, OverlapInit DEF LiveInv
    <2>1. sessionData # NoSession => sessionData.token = 1
        BY DEF Init
    <2>. QED
        BY <2>1 DEF Init, SessionIsIssued, AllKept, QuietHoldsLive
<1>2. LiveInv /\ [Next]_vars => LiveInv'
    <2>. SUFFICES ASSUME LiveInv, [Next]_vars
                  PROVE SessionIsIssued' /\ AllKept' /\ QuietHoldsLive'
        BY SessionNext, OverlapNext DEF LiveInv
    <2>0. /\ SessionInv /\ TypeOK /\ ValidIsIssued /\ OverlapSeen /\ \A o \in Op : CallInv(o)
          /\ OverlapSeen'
        BY OverlapNext DEF LiveInv, SessionInv
    <2>1. ASSUME NEW o \in Op, Exchanged(o) PROVE SessionIsIssued' /\ AllKept' /\ QuietHoldsLive'
        <3>1. /\ issued'[o] \in valid' /\ last <= last' /\ last' \in Token /\ last \in Token
              /\ AllKept'
            BY <2>0, <2>1, ExchangeIssues, ExchangeKeepsAll DEF Exchanged, LiveInv, TypeOK
        <3>2. SessionIsIssued'
            BY <2>1, <3>1 DEF Exchanged, LiveInv, SessionIsIssued, instance, Token
        <3>3. pc'[o] = "sealing" /\ kind'[o] = "refresh" /\ kind' = kind
            BY <2>0, <2>1 DEF Exchanged, TypeOK, CallInv, IsRefresh
        <3>4. ASSUME NEW q \in Op, pc'[q] = "sealing", ~overlapped' PROVE issued'[q] \in valid'
            <4>1. kind'[q] = "refresh"
                BY <2>0, <2>1, <3>3, <3>4 DEF Exchanged, CallInv, IsRefresh, TypeOK
            <4>2. q = o
                BY <2>0, <3>3, <3>4, <4>1 DEF OverlapSeen, Refreshing
            <4>. QED
                BY <3>1, <4>2
        <3>. QED
            BY <3>1, <3>2, <3>3, <3>4 DEF QuietHoldsLive, Quiet
    <2>2. ASSUME NEW o \in Op, AnswerLost(o) PROVE SessionIsIssued' /\ AllKept' /\ QuietHoldsLive'
        <3>1. last <= last' /\ last' \in Token /\ last \in Token /\ AllKept'
            BY <2>0, <2>2, ExchangeIssues, ExchangeKeepsAll DEF AnswerLost, LiveInv, TypeOK
        <3>2. SessionIsIssued'
            BY <2>2, <3>1 DEF AnswerLost, LiveInv, SessionIsIssued, instance, Token
        <3>. QED
            BY <2>2, <3>1, <3>2 DEF AnswerLost, QuietHoldsLive, Quiet
    <2>3. ASSUME NEW o \in Op, RefreshCommit(o) PROVE SessionIsIssued' /\ AllKept' /\ QuietHoldsLive'
        <3>1. /\ pc[o] = "sealing" /\ kind[o] = "refresh" /\ issued[o] \in 1 .. last
              /\ sessionData'.token = issued[o] /\ UNCHANGED <<issued, kind, api, overlapped, lost>>
            BY <2>0, <2>3 DEF RefreshCommit, CallInv, IsRefresh, HasIssued, locals
        <3>2. \A q \in Op : pc'[q] = "sealing" => pc[q] = "sealing" /\ q # o
            BY <2>0, <2>3 DEF RefreshCommit, Return, TypeOK
        <3>3. Quiet' => \A q \in Op : pc'[q] # "sealing"
            BY <2>0, <3>1, <3>2 DEF Quiet, OverlapSeen, Refreshing, CallInv, IsRefresh, api
        <3>4. Quiet' => issued[o] \in valid'
            BY <3>1 DEF LiveInv, QuietHoldsLive, Quiet, api
        <3>. QED
            BY <3>1, <3>3, <3>4 DEF LiveInv, SessionIsIssued, AllKept, QuietHoldsLive, api
    <2>4. ASSUME NEW o \in Op, SealFails(o) PROVE SessionIsIssued' /\ AllKept' /\ QuietHoldsLive'
        BY <2>4 DEF SealFails, LiveInv, SessionIsIssued, AllKept, QuietHoldsLive, Quiet, instance, api
    <2>5. CASE Revoke
        BY <2>5 DEF Revoke, LiveInv, SessionIsIssued, AllKept, QuietHoldsLive, Quiet, instance
    <2>6. ASSUME NEW o \in Op, \/ RefreshWithoutJose(o) \/ Refused(o) \/ AuthenticateVerify(o)
          PROVE SessionIsIssued' /\ AllKept' /\ QuietHoldsLive'
        <3>1. \A q \in Op : pc'[q] = "sealing" <=> pc[q] = "sealing"
            BY <2>0, <2>6 DEF RefreshWithoutJose, Refused, AuthenticateVerify, Return, TypeOK
        <3>2. UNCHANGED <<instance, locals, api, overlapped, lost>>
            BY <2>6 DEF RefreshWithoutJose, Refused, AuthenticateVerify
        <3>. QED
            BY <3>1, <3>2, UneventfulKeepsLive DEF instance, locals, api
    <2>7. ASSUME NEW o \in Op, \/ Refresh(o) \/ RefreshUnseal(o) \/ RefreshSend(o) \/ Authenticate(o)
          PROVE SessionIsIssued' /\ AllKept' /\ QuietHoldsLive'
        <3>1. \A q \in Op : pc'[q] = "sealing" <=> pc[q] = "sealing"
            BY <2>0, <2>7 DEF Refresh, RefreshUnseal, RefreshSend, Authenticate, Return, TypeOK
        <3>2. /\ UNCHANGED <<instance, issued, api, lost>>
              /\ overlapped => overlapped'
            <4>1. CASE Refresh(o)
                BY <4>1 DEF Refresh
            <4>2. CASE RefreshUnseal(o)
                BY <4>2 DEF RefreshUnseal
            <4>3. CASE RefreshSend(o)
                BY <4>3 DEF RefreshSend
            <4>4. CASE Authenticate(o)
                BY <4>4 DEF Authenticate
            <4>. QED
                BY <2>7, <4>1, <4>2, <4>3, <4>4
        <3>. QED
            BY <3>1, <3>2, UneventfulKeepsLive DEF instance, api
    <2>8. CASE GetJose \/ UNCHANGED vars
        BY <2>8, UneventfulKeepsLive DEF GetJose, vars, instance, locals, api
    <2>. QED
        BY <2>1, <2>2, <2>3, <2>4, <2>5, <2>6, <2>7, <2>8 DEF Next, Done
<1>3. LiveInv => HoldsLiveToken
    BY DEF LiveInv, SessionIsIssued, AllKept, QuietHoldsLive, Quiet, HoldsLiveToken
<1>. QED
    BY <1>1, <1>2, <1>3, PTL DEF Spec
=============================================================================
