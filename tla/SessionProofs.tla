--------------------------- MODULE SessionProofs ---------------------------
(***************************************************************************)
(* What holds of the signed-in state for any number of tabs, calls and     *)
(* refresh tokens, and any number of faults, moves and logouts.            *)
(***************************************************************************)
EXTENDS Session, TLAPS

-----------------------------------------------------------------------------
(* Types                                                                   *)

CallState == [pc : {"idle", "ensure", "sent", "renew", "resent"}, tok : Access]

LEMMA Constants ==
  /\ \A c \in Call : Owner[c] \in Tab
  /\ MaxFaults \in Nat /\ MaxMoves \in Nat /\ MaxLogouts \in Nat
  /\ 0 \notin RefreshToken
  BY OwnerAssumption, BoundsAssumption

LEMMA NoCallIsOne == NoCall \in CallState
  BY DEF NoCall, CallState, Access

LEMMA IdleIsOne == Idle \in Request /\ Idle.at = "none" /\ Idle.cookie = 0
  BY DEF Idle, Request

LEMMA WokenTypes ==
  ASSUME SessionTypeOK, NEW t \in Tab, NEW renewed \in BOOLEAN, NEW tok \in Access
  PROVE  Woken(t, renewed, tok) \in [Call -> CallState]
  <1>1. \A c \in Call : call[c] \in CallState
    BY DEF SessionTypeOK, CallState
  <1>2. [pc |-> "sent", tok |-> tok] \in CallState /\ [pc |-> "resent", tok |-> tok] \in CallState
    BY DEF CallState
  <1> QED
    BY <1>1, <1>2, NoCallIsOne DEF Woken

LEMMA ClearTokenTypes ==
  ASSUME SessionTypeOK, NEW t \in Tab, ClearToken(t)
  PROVE  /\ token' \in [Tab -> Access] /\ flag' \in BOOLEAN
         /\ logouts' \in [Tab -> 0..MaxLogouts]
  <1>1. \A u \in Tab : logouts[u] \in 0..MaxLogouts
    BY DEF SessionTypeOK
  <1>2. IF logouts[t] < MaxLogouts THEN logouts[t] + 1 \in 0..MaxLogouts
                                   ELSE logouts[t] \in 0..MaxLogouts
    BY <1>1, Constants
  <1>3. logouts' \in [Tab -> 0..MaxLogouts]
    BY <1>1, <1>2 DEF ClearToken, SessionTypeOK
  <1>4. token' \in [Tab -> Access] /\ flag' \in BOOLEAN
    BY DEF ClearToken, SessionTypeOK, Access
  <1> QED
    BY <1>3, <1>4

LEMMA HandleUnauthorizedTypes ==
  ASSUME SessionTypeOK, NEW t \in Tab, HandleUnauthorized(t)
  PROVE  /\ token' \in [Tab -> Access] /\ flag' \in BOOLEAN
         /\ logouts' \in [Tab -> 0..MaxLogouts]
         /\ page' \in [Tab -> Page]
  <1>1. page' \in [Tab -> Page]
    BY DEF HandleUnauthorized, SessionTypeOK, Page
  <1> QED
    BY <1>1, ClearTokenTypes DEF HandleUnauthorized

LEMMA RefreshAccessTokenTypes ==
  ASSUME SessionTypeOK, NEW t \in Tab, RefreshAccessToken(t)
  PROVE  refresh' \in [Tab -> Request] /\ cause' \in Cause
  <1>1. [at |-> "sent", cookie |-> cookie] \in Request
    BY DEF SessionTypeOK, Request
  <1>2. refresh' \in [Tab -> Request]
    BY <1>1 DEF RefreshAccessToken, SessionTypeOK
  <1>3. cause' \in Cause
    BY DEF RefreshAccessToken, SessionTypeOK, Raced, Cause
  <1> QED
    BY <1>2, <1>3

LEMMA FaultTypes ==
  ASSUME SessionTypeOK, Fault
  PROVE  faults' \in 0..MaxFaults /\ cause' \in Cause /\ cause' = "lost"
  BY Constants DEF SessionTypeOK, Fault, Cause

LEMMA MoveTypes ==
  ASSUME SessionTypeOK, Move
  PROVE  moves' \in 0..MaxMoves
  BY Constants DEF SessionTypeOK, Move

LEMMA SettleTypes ==
  ASSUME SessionTypeOK, NEW t \in Tab, NEW renewed \in BOOLEAN, NEW tok \in Access,
         Settle(t, renewed, tok)
  PROVE  /\ refresh' \in [Tab -> Request] /\ call' \in [Call -> CallState]
         /\ token' \in [Tab -> Access] /\ flag' \in BOOLEAN
         /\ logouts' \in [Tab -> 0..MaxLogouts] /\ page' \in [Tab -> Page]
  <1>1. refresh' \in [Tab -> Request]
    BY IdleIsOne DEF Settle, SessionTypeOK
  <1>2. CASE ~renewed /\ GivesUp(t)
    <2>1. HandleUnauthorized(t) /\ \E left \in {tok, "none"} : call' = Woken(t, renewed, left)
      BY <1>2 DEF Settle
    <2>2. "none" \in Access
      BY DEF Access
    <2>3. call' \in [Call -> CallState]
      BY <2>1, <2>2, WokenTypes
    <2> QED
      BY <1>1, <2>1, <2>3, HandleUnauthorizedTypes
  <1>3. CASE ~(~renewed /\ GivesUp(t))
    <2>1. /\ token' = [token EXCEPT ![t] = tok] /\ call' = Woken(t, renewed, tok)
          /\ flag' = flag /\ logouts' = logouts /\ page' = page
      BY <1>3 DEF Settle
    <2> QED
      BY <1>1, <2>1, WokenTypes DEF SessionTypeOK
  <1> QED
    BY <1>2, <1>3

LEMMA ForgetTypes ==
  ASSUME SessionTypeOK, NEW t \in Tab, Forget(t)
  PROVE  /\ token' \in [Tab -> Access] /\ tried' \in [Tab -> BOOLEAN]
         /\ refresh' \in [Tab -> Request] /\ form' \in [Tab -> BOOLEAN]
         /\ call' \in [Call -> CallState] /\ logouts' \in [Tab -> 0..MaxLogouts]
         /\ cookie' = cookie /\ flag' = flag /\ live' \subseteq RefreshToken
         /\ cause' \in Cause
  <1>1. token' \in [Tab -> Access] /\ tried' \in [Tab -> BOOLEAN]
        /\ form' \in [Tab -> BOOLEAN]
    BY DEF Forget, SessionTypeOK, Access
  <1>2. refresh' \in [Tab -> Request]
    BY IdleIsOne DEF Forget, SessionTypeOK
  <1>3. call' \in [Call -> CallState]
    BY NoCallIsOne DEF Forget, SessionTypeOK, CallState
  <1>4. logouts' \in [Tab -> 0..MaxLogouts]
    BY Constants DEF Forget, SessionTypeOK
  <1>5. cookie' = cookie /\ flag' = flag /\ live' \subseteq RefreshToken /\ cause' \in Cause
    BY DEF Forget, AbandonRefresh, SessionTypeOK, ForgetOrphans, Reloaded, jar, Cause
  <1> QED
    BY <1>1, <1>2, <1>3, <1>4, <1>5

(* The steps, one by one, keep the types.                                  *)
LEMMA ApiCallTypes ==
  ASSUME SessionTypeOK, NEW c \in Call, ApiCall(c)
  PROVE  SessionTypeOK'
  <1> DEFINE t == Owner[c]
  <1>0. t \in Tab /\ "none" \in Access /\ "fresh" \in Access /\ token[t] \in Access
    BY Constants DEF SessionTypeOK, Access
  <1>a. /\ [pc |-> "sent", tok |-> token[t]] \in CallState
        /\ [pc |-> "ensure", tok |-> "none"] \in CallState
        /\ [pc |-> "renew", tok |-> "none"] \in CallState
    BY <1>0 DEF CallState
  <1>1. CASE CallStarts(c)
    <2>1. CASE NeedsNoRefresh(t)
      <3>1. call' \in [Call -> CallState]
        BY <1>1, <1>a, <2>1 DEF CallStarts, SessionTypeOK, CallState
      <3> QED
        BY <1>1, <2>1, <3>1 DEF CallStarts, SessionTypeOK, CallState, jar
    <2>2. CASE ~NeedsNoRefresh(t)
      <3>0. /\ call' = [call EXCEPT ![c] = [pc |-> "ensure", tok |-> "none"]]
            /\ tried' = [tried EXCEPT ![t] = TRUE]
        BY <1>1, <2>2 DEF CallStarts
      <3>1. call' \in [Call -> CallState] /\ tried' \in [Tab -> BOOLEAN]
        BY <1>a, <3>0 DEF SessionTypeOK, CallState
      <3>2. refresh' \in [Tab -> Request] /\ cause' \in Cause
        BY <1>0, <1>1, <2>2, RefreshAccessTokenTypes DEF CallStarts
      <3> QED
        BY <1>1, <2>2, <3>1, <3>2 DEF CallStarts, SessionTypeOK, CallState, jar
    <2> QED
      BY <2>1, <2>2
  <1>2. CASE CallIsRefused(c)
    <2>1. call' \in [Call -> CallState]
      BY <1>2, <1>a DEF CallIsRefused, SessionTypeOK, CallState
    <2>2. refresh' \in [Tab -> Request] /\ cause' \in Cause
      BY <1>0, <1>2, RefreshAccessTokenTypes DEF CallIsRefused
    <2> QED
      BY <1>2, <2>1, <2>2 DEF CallIsRefused, SessionTypeOK, CallState, jar
  <1>3. CASE CallIsWronglyRefused(c)
    <2>1. call' \in [Call -> CallState]
      BY <1>3, <1>a DEF CallIsWronglyRefused, SessionTypeOK, CallState
    <2>2. [at |-> "sent", cookie |-> cookie] \in Request
      BY DEF SessionTypeOK, Request
    <2>3. refresh' \in [Tab -> Request]
      BY <1>3, <2>2 DEF CallIsWronglyRefused, SessionTypeOK
    <2>4. faults' \in 0..MaxFaults /\ cause' \in Cause
      BY <1>3, FaultTypes DEF CallIsWronglyRefused
    <2> QED
      BY <1>3, <2>1, <2>3, <2>4 DEF CallIsWronglyRefused, SessionTypeOK, CallState, jar
  <1>4. CASE RetryIsRefused(c)
    <2>1. call' \in [Call -> CallState]
      BY <1>4, NoCallIsOne DEF RetryIsRefused, SessionTypeOK, CallState
    <2>2. HandleUnauthorized(t)
      BY <1>4 DEF RetryIsRefused
    <2>3. faults' \in 0..MaxFaults /\ cause' \in Cause
      BY <1>4, FaultTypes DEF RetryIsRefused, SessionTypeOK
    <2>4. UNCHANGED <<mock, moves, tried, refresh, form, cookie, live, quiet>>
      BY <1>4 DEF RetryIsRefused
    <2> QED
      BY <1>0, <2>1, <2>2, <2>3, <2>4, HandleUnauthorizedTypes DEF SessionTypeOK, CallState
  <1>5. CASE CallSettles(c)
    <2>1. call' \in [Call -> CallState]
      BY <1>5, NoCallIsOne DEF CallSettles, SessionTypeOK, CallState
    <2> QED
      BY <1>5, <2>1 DEF CallSettles, SessionTypeOK, CallState, jar, history
  <1> QED
    BY <1>1, <1>2, <1>3, <1>4, <1>5 DEF ApiCall

LEMMA RefreshTypes ==
  ASSUME SessionTypeOK, NEW t \in Tab, Refresh(t)
  PROVE  SessionTypeOK'
  <1>0. /\ \A u \in Tab : refresh[u] \in Request
        /\ "none" \in Access /\ "fresh" \in Access /\ token[t] \in Access
    BY DEF SessionTypeOK, Access
  <1>1. CASE RefreshIsServed(t)
    <2>1. refresh' \in [Tab -> Request] /\ live' \subseteq RefreshToken
      <3>1. ASSUME NEW at \in {"refused", "failed"}
            PROVE  [refresh[t] EXCEPT !.at = at] \in Request
        BY <1>0, <3>1 DEF Request
      <3>2. ASSUME NEW n \in RefreshToken
            PROVE  [at |-> "granted", cookie |-> n] \in Request
        BY <3>2 DEF Request
      <3> QED
        BY <1>1, <3>1, <3>2 DEF RefreshIsServed, SessionTypeOK
    <2>2. faults' \in 0..MaxFaults /\ cause' \in Cause
      BY <1>1, FaultTypes DEF RefreshIsServed, SessionTypeOK
    <2> QED
      BY <1>1, <2>1, <2>2 DEF RefreshIsServed, SessionTypeOK, jar
  <1>2. CASE RefreshLands(t)
    <2> DEFINE renewed == refresh[t].at = "granted"
               tok == IF refresh[t].at = "granted" THEN "fresh" ELSE "none"
    <2>1. Settle(t, renewed, tok) /\ renewed \in BOOLEAN /\ tok \in Access
      BY <1>0, <1>2 DEF RefreshLands
    <2> HIDE DEF renewed, tok
    <2>2. /\ refresh' \in [Tab -> Request] /\ call' \in [Call -> CallState]
          /\ token' \in [Tab -> Access] /\ flag' \in BOOLEAN
          /\ logouts' \in [Tab -> 0..MaxLogouts] /\ page' \in [Tab -> Page]
      BY <2>1, SettleTypes
    <2>3. cookie' \in RefreshToken \cup {0}
      BY <1>0, <1>2 DEF RefreshLands, SessionTypeOK, Request
    <2>4. live' \subseteq RefreshToken
      BY <1>2 DEF RefreshLands, ForgetOrphans, SessionTypeOK
    <2>5. UNCHANGED <<mock, moves, tried, form, faults, cause, quiet>>
      BY <1>2 DEF RefreshLands
    <2> QED
      BY <2>2, <2>3, <2>4, <2>5 DEF SessionTypeOK, CallState
  <1>3. CASE RefreshIsLost(t)
    <2>1. /\ refresh' \in [Tab -> Request] /\ call' \in [Call -> CallState]
          /\ token' \in [Tab -> Access] /\ flag' \in BOOLEAN
          /\ logouts' \in [Tab -> 0..MaxLogouts] /\ page' \in [Tab -> Page]
      BY <1>0, <1>3, SettleTypes DEF RefreshIsLost
    <2>2. live' \subseteq RefreshToken
      BY <1>3 DEF RefreshIsLost, ForgetOrphans, SessionTypeOK
    <2>3. faults' \in 0..MaxFaults /\ cause' \in Cause
      BY <1>3, FaultTypes DEF RefreshIsLost
    <2>4. UNCHANGED <<mock, moves, tried, form, cookie, quiet>>
      BY <1>3 DEF RefreshIsLost
    <2> QED
      BY <2>1, <2>2, <2>3, <2>4 DEF SessionTypeOK, CallState
  <1> QED
    BY <1>1, <1>2, <1>3 DEF Refresh

LEMMA LoginTypes ==
  ASSUME SessionTypeOK, NEW t \in Tab, Login(t)
  PROVE  SessionTypeOK'
  <1>0. "mock" \in Access /\ "fresh" \in Access /\ "loading" \in Page
    BY DEF Access, Page
  <1>1. CASE Submit(t)
    <2>1. moves' \in 0..MaxMoves
      BY <1>1, MoveTypes DEF Submit
    <2>2. /\ token' \in [Tab -> Access] /\ tried' \in [Tab -> BOOLEAN] /\ flag' \in BOOLEAN
          /\ page' \in [Tab -> Page] /\ quiet' \in [Tab -> BOOLEAN]
          /\ form' \in [Tab -> BOOLEAN]
      BY ZenonT(60), <1>0, <1>1 DEF Submit, SessionTypeOK
    <2>3. cause' \in Cause
      BY <1>1 DEF Submit, SessionTypeOK, Raced, Cause
    <2> QED
      BY <1>1, <2>1, <2>2, <2>3 DEF Submit, SessionTypeOK
  <1>2. CASE LoginLands(t)
    <2>1. cookie' \in RefreshToken \cup {0} /\ live' \subseteq RefreshToken
      BY <1>2 DEF LoginLands, SessionTypeOK
    <2>2. /\ token' \in [Tab -> Access] /\ tried' \in [Tab -> BOOLEAN] /\ flag' \in BOOLEAN
          /\ page' \in [Tab -> Page] /\ quiet' \in [Tab -> BOOLEAN]
          /\ form' \in [Tab -> BOOLEAN]
      BY <1>0, <1>2 DEF LoginLands, SessionTypeOK
    <2>3. cause' \in Cause
      BY <1>2 DEF LoginLands, SessionTypeOK, Cause
    <2> QED
      BY <1>2, <2>1, <2>2, <2>3 DEF LoginLands, SessionTypeOK
  <1>3. CASE LoginFails(t)
    BY <1>3 DEF LoginFails, SessionTypeOK, jar, history
  <1> QED
    BY <1>1, <1>2, <1>3 DEF Login

LEMMA LogoutTypes ==
  ASSUME SessionTypeOK, NEW t \in Tab, LogoutLands(t) \/ LogoutIsLost(t)
  PROVE  SessionTypeOK'
  <1>1. \A u \in Tab : logouts[u] \in 0..MaxLogouts
    BY DEF SessionTypeOK
  <1>2. logouts[t] - 1 \in 0..MaxLogouts
    BY <1>1, Constants DEF LogoutLands, LogoutIsLost
  <1>3. logouts' \in [Tab -> 0..MaxLogouts]
    BY <1>2 DEF LogoutLands, LogoutIsLost, SessionTypeOK
  <1>4. CASE LogoutLands(t)
    BY <1>3, <1>4 DEF LogoutLands, ForgetOrphans, SessionTypeOK, history
  <1>5. CASE LogoutIsLost(t)
    <2>1. faults' \in 0..MaxFaults /\ cause' \in Cause
      BY <1>5, FaultTypes DEF LogoutIsLost
    <2> QED
      BY <1>3, <1>5, <2>1 DEF LogoutIsLost, SessionTypeOK, jar
  <1> QED
    BY <1>4, <1>5

LEMMA PageTypes ==
  ASSUME SessionTypeOK, NEW t \in Tab,
         Open(t) \/ Navigate(t) \/ Mount(t) \/ Unload(t) \/ SignOut(t) \/ TokenAges(t)
  PROVE  SessionTypeOK'
  <1>1. CASE Open(t)
    <2>1. Forget(t) /\ UNCHANGED <<mock, faults, quiet>>
      BY <1>1 DEF Open
    <2>2. moves' \in 0..MaxMoves
      BY <1>1, MoveTypes DEF Open
    <2>3. page' \in [Tab -> Page]
      BY <1>1 DEF Open, SessionTypeOK, Page
    <2> QED
      BY <2>1, <2>2, <2>3, ForgetTypes DEF SessionTypeOK, CallState
  <1>2. CASE Navigate(t)
    <2>1. moves' \in 0..MaxMoves
      BY <1>2, MoveTypes DEF Navigate
    <2>2. page' \in [Tab -> Page]
      BY <1>2 DEF Navigate, SessionTypeOK, Page
    <2> QED
      BY <1>2, <2>1, <2>2 DEF Navigate, SessionTypeOK, memory, jar, history
  <1>3. CASE Mount(t)
    <2>1. page' \in [Tab -> Page]
      BY <1>3 DEF Mount, SessionTypeOK, Page
    <2>2. /\ refresh' \in [Tab -> Request] /\ cause' \in Cause /\ tried' \in [Tab -> BOOLEAN]
      BY <1>3, RefreshAccessTokenTypes DEF Mount, EnsureAuth, SessionTypeOK
    <2> QED
      BY <1>3, <2>1, <2>2 DEF Mount, SessionTypeOK, jar
  <1>4. CASE Unload(t)
    <2>1. Forget(t) /\ UNCHANGED <<mock, moves, faults, quiet>>
      BY <1>4 DEF Unload
    <2>2. page' \in [Tab -> Page]
      BY <1>4 DEF Unload, SessionTypeOK, Page
    <2> QED
      BY <2>1, <2>2, ForgetTypes DEF SessionTypeOK, CallState
  <1>5. CASE SignOut(t)
    <2>1. moves' \in 0..MaxMoves
      BY <1>5, MoveTypes DEF SignOut
    <2>2. page' \in [Tab -> Page] /\ quiet' \in [Tab -> BOOLEAN]
      BY <1>5 DEF SignOut, SessionTypeOK, Page
    <2>3. cause' \in Cause
      BY <1>5 DEF SignOut, SessionTypeOK, Raced, Cause
    <2>4. /\ token' \in [Tab -> Access] /\ flag' \in BOOLEAN
          /\ logouts' \in [Tab -> 0..MaxLogouts]
      BY <1>5, ClearTokenTypes DEF SignOut
    <2> QED
      BY <1>5, <2>1, <2>2, <2>3, <2>4 DEF SignOut, SessionTypeOK
  <1>6. CASE TokenAges(t)
    <2>1. token' \in [Tab -> Access]
      BY <1>6 DEF TokenAges, SessionTypeOK, Access
    <2> QED
      BY <1>6, <2>1 DEF TokenAges, SessionTypeOK, jar, history
  <1> QED
    BY <1>1, <1>2, <1>3, <1>4, <1>5, <1>6

(* What a step is, for the invariants below.                               *)
LEMMA StepKinds ==
  ASSUME SessionNext
  PROVE  \/ \E c \in Call : ApiCall(c)
         \/ \E t \in Tab : \/ Refresh(t) \/ Login(t)
                           \/ Open(t) \/ Navigate(t) \/ Mount(t) \/ Unload(t)
                           \/ SignOut(t) \/ LogoutLands(t) \/ LogoutIsLost(t)
                           \/ TokenAges(t)
         \/ Revoke \/ FlagExpires
  BY DEF SessionNext, TabStep

(* The state is always one the operations were written for: requests know  *)
(* their cookie, tabs at most MaxLogouts logouts, every call its token.    *)
THEOREM SessionTypeCorrect == SessionSpec => []SessionTypeOK
  <1>1. SessionInit => SessionTypeOK
    <2> SUFFICES ASSUME SessionInit PROVE SessionTypeOK
      OBVIOUS
    <2>1. /\ page \in [Tab -> Page] /\ token \in [Tab -> Access] /\ cause \in Cause
          /\ tried \in [Tab -> BOOLEAN] /\ form \in [Tab -> BOOLEAN]
          /\ quiet \in [Tab -> BOOLEAN]
      BY DEF SessionInit, Page, Access, Cause
    <2>2. refresh \in [Tab -> Request] /\ call \in [Call -> CallState]
      BY IdleIsOne, NoCallIsOne DEF SessionInit
    <2>3. /\ logouts \in [Tab -> 0..MaxLogouts] /\ faults \in 0..MaxFaults
          /\ moves \in 0..MaxMoves
      BY Constants DEF SessionInit
    <2> QED
      BY <2>1, <2>2, <2>3 DEF SessionInit, SessionTypeOK, CallState
  <1>2. SessionTypeOK /\ [SessionNext]_vars => SessionTypeOK'
    <2>1. ASSUME SessionTypeOK, Revoke PROVE SessionTypeOK'
      <3>1. faults' \in 0..MaxFaults /\ cause' \in Cause
        BY <2>1, FaultTypes DEF Revoke
      <3> QED
        BY <2>1, <3>1 DEF Revoke, SessionTypeOK, memory, jar
    <2>2. ASSUME SessionTypeOK, FlagExpires PROVE SessionTypeOK'
      BY <2>2 DEF FlagExpires, SessionTypeOK, memory, history
    <2>3. ASSUME SessionTypeOK, SessionNext PROVE SessionTypeOK'
      BY <2>1, <2>2, <2>3, StepKinds, ApiCallTypes, RefreshTypes, LoginTypes, LogoutTypes,
         PageTypes
    <2>4. ASSUME SessionTypeOK, UNCHANGED vars PROVE SessionTypeOK'
      BY <2>4 DEF SessionTypeOK, vars, memory, jar, history
    <2> QED
      BY <2>3, <2>4
  <1> QED
    BY <1>1, <1>2, PTL DEF SessionSpec

-----------------------------------------------------------------------------
(* Callers and the refresh they wait for                                   *)

LEMMA WaitersStep ==
  ASSUME SessionTypeOK, WaitersHaveARefresh, SessionNext
  PROVE  WaitersHaveARefresh'
  <1>0. refresh \in [Tab -> Request] /\ call \in [Call -> CallState]
    BY DEF SessionTypeOK, CallState
  <1>a. NoCall.pc = "idle" /\ Idle.at = "none"
    BY DEF NoCall, Idle
  <1>1. ASSUME NEW c \in Call, ApiCall(c) PROVE WaitersHaveARefresh'
    <2>0. Owner[c] \in Tab
      BY Constants
    <2>1. CASE CallStarts(c)
      <3>1. CASE NeedsNoRefresh(Owner[c])
        BY <1>0, <2>1, <3>1 DEF CallStarts, WaitersHaveARefresh
      <3>2. CASE ~NeedsNoRefresh(Owner[c])
        <4>1. /\ call' = [call EXCEPT ![c] = [pc |-> "ensure", tok |-> "none"]]
              /\ RefreshAccessToken(Owner[c])
          BY <2>1, <3>2 DEF CallStarts
        <4> QED
          BY <1>0, <2>0, <4>1 DEF RefreshAccessToken, WaitersHaveARefresh
      <3> QED
        BY <3>1, <3>2
    <2>2. CASE CallIsRefused(c)
      BY <1>0, <2>0, <2>2 DEF CallIsRefused, RefreshAccessToken, WaitersHaveARefresh
    <2>3. CASE CallIsWronglyRefused(c)
      BY <1>0, <2>0, <2>3 DEF CallIsWronglyRefused, WaitersHaveARefresh
    <2>4. CASE RetryIsRefused(c)
      BY <1>0, <1>a, <2>4 DEF RetryIsRefused, WaitersHaveARefresh
    <2>5. CASE CallSettles(c)
      BY <1>0, <1>a, <2>5 DEF CallSettles, WaitersHaveARefresh
    <2> QED
      BY <1>1, <2>1, <2>2, <2>3, <2>4, <2>5 DEF ApiCall
  <1>2. ASSUME NEW t \in Tab, NEW renewed, NEW tok, Settle(t, renewed, tok)
        PROVE  WaitersHaveARefresh'
    <2>1. refresh' = [refresh EXCEPT ![t] = Idle]
      BY <1>2 DEF Settle
    <2>2. \E left : call' = Woken(t, renewed, left)
      BY <1>2 DEF Settle
    <2>3. \A c \in Call : IF Owner[c] = t THEN call'[c].pc \notin {"ensure", "renew"}
                                          ELSE call'[c] = call[c]
      BY <1>0, <1>a, <2>2 DEF Woken
    <2> QED
      BY <1>0, <2>1, <2>3, Constants DEF WaitersHaveARefresh
  <1>3. ASSUME NEW t \in Tab, Refresh(t) PROVE WaitersHaveARefresh'
    <2>1. CASE RefreshIsServed(t)
      <3>1. call' = call /\ \A u \in Tab : refresh[u].at # "none" => refresh'[u].at # "none"
        BY <1>0, <2>1 DEF RefreshIsServed, Request
      <3> QED
        BY <3>1, Constants DEF WaitersHaveARefresh
    <2>2. CASE RefreshLands(t) \/ RefreshIsLost(t)
      BY <1>2, <2>2 DEF RefreshLands, RefreshIsLost
    <2> QED
      BY <1>3, <2>1, <2>2 DEF Refresh
  <1>4. ASSUME NEW t \in Tab, Forget(t) PROVE WaitersHaveARefresh'
    BY <1>0, <1>4, <1>a DEF Forget, WaitersHaveARefresh
  <1>5. ASSUME NEW t \in Tab, Mount(t) PROVE WaitersHaveARefresh'
    <2>1. call' = call /\ (refresh' = refresh \/ RefreshAccessToken(t))
      BY <1>5 DEF Mount, EnsureAuth
    <2>2. \A u \in Tab : refresh[u].at # "none" => refresh'[u].at # "none"
      BY <1>0, <2>1 DEF RefreshAccessToken
    <2> QED
      BY <2>1, <2>2, Constants DEF WaitersHaveARefresh
  <1>6. ASSUME NEW t \in Tab,
               Login(t) \/ Navigate(t) \/ SignOut(t) \/ LogoutLands(t) \/ LogoutIsLost(t)
                 \/ TokenAges(t)
        PROVE  WaitersHaveARefresh'
    <2>1. call' = call /\ refresh' = refresh
      BY <1>6 DEF Login, Submit, LoginLands, LoginFails, Navigate, SignOut, LogoutLands,
                  LogoutIsLost, TokenAges, memory
    <2> QED
      BY <2>1 DEF WaitersHaveARefresh
  <1>7. CASE Revoke \/ FlagExpires
    BY <1>7 DEF Revoke, FlagExpires, memory, WaitersHaveARefresh
  <1> QED
    BY <1>1, <1>3, <1>4, <1>5, <1>6, <1>7, StepKinds DEF Open, Unload

(* No caller joins a promise that has settled, or awaits one that was      *)
(* reset: a call that awaits a refresh has one in flight in its own tab,   *)
(* for any number of callers that share it.                                *)
THEOREM WaitersHold == SessionSpec => []WaitersHaveARefresh
  <1>1. SessionInit => WaitersHaveARefresh
    BY DEF SessionInit, WaitersHaveARefresh, NoCall
  <1>2. SessionTypeOK /\ WaitersHaveARefresh /\ [SessionNext]_vars => WaitersHaveARefresh'
    <2>1. UNCHANGED vars /\ WaitersHaveARefresh => WaitersHaveARefresh'
      BY DEF vars, memory, WaitersHaveARefresh
    <2> QED
      BY <2>1, WaitersStep
  <1> QED
    BY <1>1, <1>2, SessionTypeCorrect, PTL DEF SessionSpec

-----------------------------------------------------------------------------
(* Sign-out                                                                *)

(* A tab signed out with nothing in flight stays at the login page: nobody *)
(* may pass the guard, and nothing of the tab is under way.                *)
QuietInv ==
  \A t \in Tab : quiet[t] =>
    /\ ~flag /\ page[t] = "login" /\ token[t] = "none" /\ refresh[t].at = "none"
    /\ \A c \in Call : Owner[c] = t => call[c].pc = "idle"

LEMMA QuietStep ==
  ASSUME SessionTypeOK, QuietInv, SessionNext
  PROVE  QuietInv'
  <1>0. /\ refresh \in [Tab -> Request] /\ call \in [Call -> CallState]
        /\ page \in [Tab -> Page] /\ token \in [Tab -> Access] /\ quiet \in [Tab -> BOOLEAN]
    BY DEF SessionTypeOK, CallState
  <1>a. NoCall.pc = "idle" /\ Idle.at = "none"
    BY DEF NoCall, Idle
  (* What a tab that is not quiet does to itself leaves the others quiet. *)
  <1>b. ASSUME NEW t \in Tab, ~quiet[t], quiet' = quiet, flag' => flag,
               \A u \in Tab \ {t} : /\ page'[u] = page[u] /\ token'[u] = token[u]
                                    /\ refresh'[u] = refresh[u],
               \A c \in Call : Owner[c] # t => call'[c] = call[c]
        PROVE  QuietInv'
    BY <1>b DEF QuietInv
  <1>1. ASSUME NEW c \in Call, ApiCall(c) PROVE QuietInv'
    <2> DEFINE t == Owner[c]
    <2>0. t \in Tab
      BY Constants
    <2>1. ~quiet[t]
      BY <1>1, <2>0 DEF ApiCall, CallStarts, CallIsRefused, CallIsWronglyRefused,
                        RetryIsRefused, CallSettles, QuietInv
    <2>2. /\ quiet' = quiet /\ (flag' => flag)
          /\ \A d \in Call : Owner[d] # t => call'[d] = call[d]
      BY <1>0, <1>1 DEF ApiCall, CallStarts, CallIsRefused, CallIsWronglyRefused,
                        RetryIsRefused, CallSettles, HandleUnauthorized, ClearToken,
                        jar, history
    <2>3. \A u \in Tab \ {t} : page'[u] = page[u] /\ token'[u] = token[u]
      BY <1>0, <1>1 DEF ApiCall, CallStarts, CallIsRefused, CallIsWronglyRefused,
                        RetryIsRefused, CallSettles, HandleUnauthorized, ClearToken
    <2>4. \A u \in Tab \ {t} : refresh'[u] = refresh[u]
      BY <1>0, <1>1 DEF ApiCall, CallStarts, CallIsRefused, CallIsWronglyRefused,
                        RetryIsRefused, CallSettles, RefreshAccessToken
    <2> QED
      BY <1>b, <2>0, <2>1, <2>2, <2>3, <2>4
  <1>2. ASSUME NEW t \in Tab, Refresh(t) PROVE QuietInv'
    <2>1. ~quiet[t] /\ quiet' = quiet
      BY <1>2 DEF Refresh, RefreshIsServed, RefreshLands, RefreshIsLost, QuietInv
    <2>2. CASE RefreshIsServed(t)
      BY <1>0, <1>b, <2>1, <2>2 DEF RefreshIsServed, jar
    <2>3. ASSUME NEW renewed, NEW tok, Settle(t, renewed, tok) PROVE QuietInv'
      <3>1. (flag' => flag) /\ \A u \in Tab \ {t} : page'[u] = page[u] /\ token'[u] = token[u]
        BY <1>0, <2>3 DEF Settle, HandleUnauthorized, ClearToken
      <3>2. \A c \in Call : Owner[c] # t => call'[c] = call[c]
        BY <2>3 DEF Settle, Woken
      <3>3. \A u \in Tab \ {t} : refresh'[u] = refresh[u]
        BY <1>0, <2>3 DEF Settle
      <3> QED
        BY <1>b, <2>1, <3>1, <3>2, <3>3
    <2> QED
      BY <1>2, <2>2, <2>3 DEF Refresh, RefreshLands, RefreshIsLost
  <1>3. ASSUME NEW t \in Tab, Login(t) PROVE QuietInv'
    <2>1. CASE quiet' = [u \in Tab |-> FALSE]
      BY <2>1 DEF QuietInv
    <2>2. CASE quiet' # [u \in Tab |-> FALSE]
      <3>1. UNCHANGED <<quiet, flag, page, token, refresh, call>>
        BY <1>3, <2>2 DEF Login, Submit, LoginLands, LoginFails, jar, history
      <3> QED
        BY <3>1 DEF QuietInv
    <2> QED
      BY <2>1, <2>2
  <1>4. ASSUME NEW t \in Tab, Open(t) PROVE QuietInv'
    BY <1>0, <1>4, <1>a DEF Open, Forget, GuardPasses, jar, QuietInv
  <1>5. ASSUME NEW t \in Tab, Navigate(t) PROVE QuietInv'
    BY <1>0, <1>5 DEF Navigate, GuardPasses, memory, jar, history, QuietInv
  <1>6. ASSUME NEW t \in Tab, Mount(t) PROVE QuietInv'
    <2>1. ~quiet[t] /\ UNCHANGED <<quiet, flag, token, call>>
      BY <1>6 DEF Mount, jar, QuietInv
    <2>2. \A u \in Tab \ {t} : page'[u] = page[u] /\ refresh'[u] = refresh[u]
      BY <1>0, <1>6 DEF Mount, EnsureAuth, RefreshAccessToken
    <2> QED
      BY <1>b, <2>1, <2>2
  <1>7. ASSUME NEW t \in Tab, Unload(t) PROVE QuietInv'
    BY <1>0, <1>7, <1>a DEF Unload, Forget, jar, QuietInv
  <1>8. ASSUME NEW t \in Tab, SignOut(t) PROVE QuietInv'
    <2>1. /\ ~flag' /\ page' = [page EXCEPT ![t] = "login"]
          /\ token' = [token EXCEPT ![t] = "none"] /\ refresh' = refresh /\ call' = call
      BY <1>8 DEF SignOut, ClearToken
    <2>2. quiet'[t] => /\ refresh[t].at = "none"
                       /\ \A c \in Call : Owner[c] = t => call[c] = NoCall
      BY <1>0, <1>8 DEF SignOut
    <2>3. \A u \in Tab \ {t} : quiet'[u] = quiet[u]
      BY <1>0, <1>8 DEF SignOut
    <2> QED
      BY <1>0, <1>a, <2>1, <2>2, <2>3 DEF QuietInv
  <1>9. ASSUME NEW t \in Tab, LogoutLands(t) \/ LogoutIsLost(t) \/ TokenAges(t)
        PROVE  QuietInv'
    BY <1>0, <1>9 DEF LogoutLands, LogoutIsLost, TokenAges, jar, history, QuietInv
  <1>10. CASE Revoke \/ FlagExpires
    BY <1>10 DEF Revoke, FlagExpires, memory, jar, history, QuietInv
  <1> QED
    BY <1>1, <1>2, <1>3, <1>4, <1>5, <1>6, <1>7, <1>8, <1>9, <1>10, StepKinds

(* No page, timer, other tab or late answer brings back the session of a   *)
(* tab that was signed out with nothing in flight: only a login does.      *)
THEOREM SignOutHolds == SessionSpec => []SignOutSticks
  <1>1. SessionInit => QuietInv
    BY DEF SessionInit, QuietInv
  <1>2. SessionTypeOK /\ QuietInv /\ [SessionNext]_vars => QuietInv'
    <2>1. UNCHANGED vars /\ QuietInv => QuietInv'
      BY DEF vars, memory, jar, history, QuietInv
    <2> QED
      BY <2>1, QuietStep
  <1>3. QuietInv => SignOutSticks
    BY DEF QuietInv, SignOutSticks
  <1> QED
    BY <1>1, <1>2, <1>3, SessionTypeCorrect, PTL DEF SessionSpec

-----------------------------------------------------------------------------
(* The refresh cookie                                                      *)

Granted(t) == refresh[t].at = "granted"

(* A token on its way to a tab is nobody else's: not in the jar, and with  *)
(* no other request.                                                       *)
GrantsAreApart ==
  \A t \in Tab : Granted(t) =>
    /\ refresh[t].cookie \notin {0, cookie}
    /\ \A u \in Tab \ {t} : refresh[u].cookie # refresh[t].cookie

GrantsAreLive == ~AnswerWasLost => \A t \in Tab : Granted(t) => refresh[t].cookie \in live

CookieInv == GrantsAreApart /\ GrantsAreLive /\ CookieIsLive

LEMMA CookieTypes ==
  ASSUME SessionTypeOK
  PROVE  /\ refresh \in [Tab -> Request] /\ cookie \in RefreshToken \cup {0}
         /\ live \subseteq RefreshToken /\ 0 \notin RefreshToken
         /\ \A t \in Tab : refresh[t].cookie \in RefreshToken \cup {0}
  BY Constants DEF SessionTypeOK, Request

LEMMA RaceIsNoLoss ==
  ASSUME NEW t \in Tab, RefreshAccessToken(t)
  PROVE  AnswerWasLost' <=> AnswerWasLost
  BY DEF RefreshAccessToken, Raced, AnswerWasLost

(* A request that starts carries the cookie of the jar.                    *)
LEMMA CookieAtStart ==
  ASSUME SessionTypeOK, CookieInv, NEW t \in Tab, cookie' = cookie, live' = live,
         AnswerWasLost => AnswerWasLost',
         \/ refresh' = refresh
         \/ /\ refresh[t].at = "none"
            /\ refresh' = [refresh EXCEPT ![t] = [at |-> "sent", cookie |-> cookie]]
  PROVE  CookieInv'
  <1>1. /\ \A u \in Tab : Granted(u)' => Granted(u) /\ refresh'[u] = refresh[u]
        /\ \A u \in Tab : Granted(u) => Granted(u)'
        /\ \A u \in Tab : refresh'[u].cookie \in {refresh[u].cookie, cookie}
    BY CookieTypes DEF Granted
  <1>2. GrantsAreApart'
    BY <1>1 DEF CookieInv, GrantsAreApart
  <1>3. GrantsAreLive'
    BY <1>1 DEF CookieInv, GrantsAreLive
  <1>4. CookieIsLive'
    BY <1>1 DEF CookieInv, CookieIsLive, Granted
  <1> QED
    BY <1>2, <1>3, <1>4 DEF CookieInv

(* A request that ends, landed or not, leaves the jar as it was, empty, or *)
(* with the token it brought.                                              *)
LEMMA CookieAtEnd ==
  ASSUME SessionTypeOK, CookieInv, NEW t \in Tab, ForgetOrphans,
         refresh' = [refresh EXCEPT ![t] = Idle],
         AnswerWasLost => AnswerWasLost',
         \/ cookie' = cookie /\ (Granted(t) => AnswerWasLost')
         \/ cookie' = 0
         \/ cookie' = refresh[t].cookie /\ Granted(t)
  PROVE  CookieInv'
  <1>1. /\ ~Granted(t)' /\ refresh'[t].cookie = 0
        /\ \A u \in Tab \ {t} : refresh'[u] = refresh[u] /\ (Granted(u)' <=> Granted(u))
    BY CookieTypes, IdleIsOne DEF Granted
  <1>2. \A n \in live : (n = cookie' \/ \E u \in Tab \ {t} : n = refresh[u].cookie) => n \in live'
    BY <1>1 DEF ForgetOrphans, Held
  <1>3. GrantsAreApart'
    BY <1>1, CookieTypes DEF CookieInv, GrantsAreApart
  <1>4. GrantsAreLive'
    BY <1>1, <1>2 DEF CookieInv, GrantsAreLive
  <1>5. CookieIsLive'
    <2> SUFFICES ASSUME cookie' # 0, cookie' \notin live', ~AnswerWasLost'
                 PROVE  \E u \in Tab : Granted(u)'
      BY DEF CookieIsLive, Granted
    <2>1. cookie' \notin live
      BY <1>2
    <2>2. cookie' = cookie /\ ~Granted(t)
      BY <2>1 DEF CookieInv, GrantsAreLive
    <2>3. \E u \in Tab : Granted(u)
      BY <2>1, <2>2 DEF CookieInv, CookieIsLive, Granted
    <2> QED
      BY <1>1, <2>2, <2>3
  <1> QED
    BY <1>3, <1>4, <1>5 DEF CookieInv

(* A document goes away over a rotation: what follows is excused.          *)
LEMMA CookieAfterLoss ==
  ASSUME SessionTypeOK, CookieInv, NEW t \in Tab, AnswerWasLost',
         refresh' = [refresh EXCEPT ![t] = Idle], cookie' = cookie
  PROVE  CookieInv'
  <1>1. /\ ~Granted(t)' /\ refresh'[t].cookie = 0
        /\ \A u \in Tab \ {t} : refresh'[u] = refresh[u] /\ (Granted(u)' <=> Granted(u))
    BY CookieTypes, IdleIsOne DEF Granted
  <1>2. GrantsAreApart'
    BY <1>1, CookieTypes DEF CookieInv, GrantsAreApart
  <1> QED
    BY <1>2 DEF CookieInv, GrantsAreLive, CookieIsLive

(* Requests go on, the jar stays or is emptied.                            *)
LEMMA CookieBeside ==
  ASSUME SessionTypeOK, CookieInv, refresh' = refresh,
         AnswerWasLost => AnswerWasLost',
         \/ cookie' = cookie /\ (live' = live \/ AnswerWasLost')
         \/ cookie' = 0 /\ ForgetOrphans
  PROVE  CookieInv'
  <1>1. \A u \in Tab : Granted(u)' <=> Granted(u)
    BY DEF Granted
  <1>2. GrantsAreApart'
    BY <1>1 DEF CookieInv, GrantsAreApart
  <1>3. CASE cookie' = cookie /\ (live' = live \/ AnswerWasLost')
    BY <1>1, <1>2, <1>3 DEF CookieInv, GrantsAreLive, CookieIsLive, Granted
  <1>4. CASE cookie' = 0 /\ ForgetOrphans
    <2>1. \A n \in live : (\E u \in Tab : n = refresh[u].cookie) => n \in live'
      BY <1>4 DEF ForgetOrphans, Held
    <2> QED
      BY <1>1, <1>2, <1>4, <2>1 DEF CookieInv, GrantsAreLive, CookieIsLive
  <1> QED
    BY <1>3, <1>4

(* The provider rotates: the token that was presented dies, the one that   *)
(* replaces it is new to everybody.                                        *)
LEMMA CookieRotates ==
  ASSUME SessionTypeOK, CookieInv, NEW t \in Tab, RefreshIsServed(t)
  PROVE  CookieInv'
  <1>0. cookie' = cookie /\ refresh[t].at = "sent" /\ refresh[t] \in Request
    BY CookieTypes DEF RefreshIsServed, jar
  <1>1. ASSUME NEW at \in {"refused", "failed"}, refresh' = [refresh EXCEPT ![t].at = at],
               live' = live, AnswerWasLost => AnswerWasLost'
        PROVE  CookieInv'
    <2>1. \A u \in Tab : (Granted(u)' <=> Granted(u)) /\ refresh'[u].cookie = refresh[u].cookie
      BY <1>0, <1>1, CookieTypes DEF Granted, Request
    <2>2. GrantsAreApart' /\ GrantsAreLive'
      BY <1>0, <1>1, <2>1 DEF CookieInv, GrantsAreApart, GrantsAreLive
    <2>3. CookieIsLive'
      BY <1>0, <1>1, <2>1 DEF CookieInv, CookieIsLive, Granted
    <2> QED
      BY <2>2, <2>3 DEF CookieInv
  <1>2. ASSUME NEW n \in RefreshToken, Fresh(n), AnswerWasLost => AnswerWasLost',
               live' = (live \ {refresh[t].cookie}) \cup {n},
               refresh' = [refresh EXCEPT ![t] = [at |-> "granted", cookie |-> n]]
        PROVE  CookieInv'
    <2>1. n # cookie /\ n # 0 /\ \A u \in Tab : n # refresh[u].cookie
      BY <1>2, CookieTypes DEF Fresh, Held
    <2>2. /\ Granted(t)' /\ refresh'[t].cookie = n
          /\ \A u \in Tab \ {t} : refresh'[u] = refresh[u] /\ (Granted(u)' <=> Granted(u))
      BY <1>2, CookieTypes DEF Granted
    <2>3. GrantsAreApart'
      BY <1>0, <2>1, <2>2 DEF CookieInv, GrantsAreApart
    <2>4. GrantsAreLive'
      BY <1>0, <1>2, <2>2 DEF CookieInv, GrantsAreLive, GrantsAreApart
    <2>5. CookieIsLive'
      BY <2>2 DEF CookieIsLive, Granted
    <2> QED
      BY <2>3, <2>4, <2>5 DEF CookieInv
  <1> QED
    BY <1>1, <1>2 DEF RefreshIsServed, Fault, AnswerWasLost

LEMMA CookieStep ==
  ASSUME SessionTypeOK, CookieInv, SessionNext
  PROVE  CookieInv'
  <1>1. ASSUME NEW t \in Tab, RefreshAccessToken(t), cookie' = cookie, live' = live
        PROVE  CookieInv'
    <2>1. \/ refresh' = refresh
          \/ /\ refresh[t].at = "none"
             /\ refresh' = [refresh EXCEPT ![t] = [at |-> "sent", cookie |-> cookie]]
      BY <1>1, CookieTypes DEF RefreshAccessToken
    <2> QED
      BY <1>1, <2>1, CookieAtStart, RaceIsNoLoss
  <1>2. ASSUME NEW c \in Call, ApiCall(c) PROVE CookieInv'
    <2>0. Owner[c] \in Tab
      BY Constants
    <2>1. CASE CallStarts(c)
      <3>1. cookie' = cookie /\ live' = live
        BY <2>1 DEF CallStarts, jar
      <3>2. \/ refresh' = refresh /\ (AnswerWasLost => AnswerWasLost')
            \/ RefreshAccessToken(Owner[c])
        BY <2>1 DEF CallStarts, AnswerWasLost
      <3> QED
        BY <1>1, <2>0, <3>1, <3>2, CookieBeside
    <2>2. CASE CallIsRefused(c)
      BY <1>1, <2>0, <2>2 DEF CallIsRefused, jar
    <2>3. CASE CallIsWronglyRefused(c)
      <3>1. \/ refresh' = refresh
            \/ /\ refresh[Owner[c]].at = "none"
               /\ refresh' = [refresh EXCEPT ![Owner[c]] = [at |-> "sent", cookie |-> cookie]]
        BY <2>3, CookieTypes DEF CallIsWronglyRefused
      <3>2. cookie' = cookie /\ live' = live /\ AnswerWasLost'
        BY <2>3 DEF CallIsWronglyRefused, Fault, AnswerWasLost, jar
      <3> QED
        BY <2>0, <3>1, <3>2, CookieAtStart
    <2>4. CASE RetryIsRefused(c) \/ CallSettles(c)
      <3>1. /\ cookie' = cookie /\ live' = live /\ refresh' = refresh
            /\ AnswerWasLost => AnswerWasLost'
        BY <2>4 DEF RetryIsRefused, CallSettles, Fault, AnswerWasLost, jar, history
      <3> QED
        BY <3>1, CookieBeside
    <2> QED
      BY <1>2, <2>1, <2>2, <2>3, <2>4 DEF ApiCall
  <1>3. ASSUME NEW t \in Tab, Refresh(t) PROVE CookieInv'
    <2>1. CASE RefreshLands(t)
      <3>1. /\ (AnswerWasLost => AnswerWasLost') /\ ForgetOrphans
            /\ refresh' = [refresh EXCEPT ![t] = Idle]
            /\ \/ cookie' = cookie /\ ~Granted(t)
               \/ cookie' = 0
               \/ cookie' = refresh[t].cookie /\ Granted(t)
        BY <2>1 DEF RefreshLands, Settle, Granted, AnswerWasLost
      <3> QED
        BY <3>1, CookieAtEnd
    <2>2. CASE RefreshIsLost(t)
      <3>1. /\ AnswerWasLost' /\ ForgetOrphans /\ cookie' = cookie
            /\ refresh' = [refresh EXCEPT ![t] = Idle]
        BY <2>2 DEF RefreshIsLost, Settle, Fault, AnswerWasLost
      <3> QED
        BY <3>1, CookieAtEnd
    <2> QED
      BY <1>3, <2>1, <2>2, CookieRotates DEF Refresh
  <1>4. ASSUME NEW t \in Tab, Login(t) PROVE CookieInv'
    <2>1. CASE Submit(t) \/ LoginFails(t)
      <3>1. /\ cookie' = cookie /\ live' = live /\ refresh' = refresh
            /\ AnswerWasLost => AnswerWasLost'
        BY <2>1 DEF Submit, LoginFails, jar, history, Raced, AnswerWasLost
      <3> QED
        BY <3>1, CookieBeside
    <2>2. CASE LoginLands(t)
      <3>1. PICK n \in RefreshToken : Fresh(n) /\ cookie' = n /\ live' = (live \cap Held') \cup {n}
        BY <2>2 DEF LoginLands
      <3>2. refresh' = refresh /\ (\A u \in Tab : Granted(u)' <=> Granted(u))
        BY <2>2 DEF LoginLands, Granted
      <3>3. GrantsAreApart'
        BY <3>1, <3>2 DEF CookieInv, GrantsAreApart, Fresh, Held
      <3>4. GrantsAreLive'
        <4>1. \A m \in live : (\E u \in Tab : m = refresh[u].cookie) => m \in live'
          BY <3>1, <3>2 DEF Held
        <4>2. (\E u \in Tab : Granted(u)) => cause' = cause
          BY <2>2, <3>2 DEF LoginLands, Changing, Granted
        <4> QED
          BY <3>2, <4>1, <4>2 DEF CookieInv, GrantsAreLive, AnswerWasLost
      <3>5. CookieIsLive'
        BY <3>1 DEF CookieIsLive
      <3> QED
        BY <3>3, <3>4, <3>5 DEF CookieInv
    <2> QED
      BY <1>4, <2>1, <2>2 DEF Login
  <1>5. ASSUME NEW t \in Tab, Forget(t) PROVE CookieInv'
    <2>1. refresh' = [refresh EXCEPT ![t] = Idle] /\ cookie' = cookie
      BY <1>5 DEF Forget, jar
    <2>2. CASE AnswerWasLost'
      BY <2>1, <2>2, CookieAfterLoss
    <2>3. CASE ~AnswerWasLost'
      <3>1. ForgetOrphans /\ ~Granted(t) /\ cause' = cause
        BY <1>5, <2>3 DEF Forget, AbandonRefresh, Reloaded, AnswerWasLost, Granted
      <3> QED
        BY <2>1, <2>3, <3>1, CookieAtEnd DEF AnswerWasLost
    <2> QED
      BY <2>2, <2>3
  <1>6. ASSUME NEW t \in Tab, Mount(t) PROVE CookieInv'
    <2>1. cookie' = cookie /\ live' = live
      BY <1>6 DEF Mount, jar
    <2>2. \/ refresh' = refresh /\ (AnswerWasLost => AnswerWasLost')
          \/ RefreshAccessToken(t)
      BY <1>6 DEF Mount, EnsureAuth, AnswerWasLost
    <2> QED
      BY <1>1, <2>1, <2>2, CookieBeside
  <1>7. ASSUME NEW t \in Tab, LogoutLands(t) PROVE CookieInv'
    <2>1. cookie' = 0 /\ ForgetOrphans /\ refresh' = refresh /\ (AnswerWasLost => AnswerWasLost')
      BY <1>7 DEF LogoutLands, history, AnswerWasLost
    <2> QED
      BY <2>1, CookieBeside
  <1>8. ASSUME NEW t \in Tab, Navigate(t) \/ SignOut(t) \/ LogoutIsLost(t) \/ TokenAges(t)
        PROVE  CookieInv'
    <2>1. /\ cookie' = cookie /\ live' = live /\ refresh' = refresh
          /\ AnswerWasLost => AnswerWasLost'
      BY <1>8 DEF Navigate, SignOut, LogoutIsLost, TokenAges, memory, jar, history, Raced, Fault,
                  AnswerWasLost
    <2> QED
      BY <2>1, CookieBeside
  <1>9. CASE Revoke \/ FlagExpires
    <2>1. /\ cookie' = cookie /\ refresh' = refresh
          /\ \/ live' = live /\ (AnswerWasLost => AnswerWasLost')
             \/ AnswerWasLost'
      BY <1>9 DEF Revoke, FlagExpires, memory, jar, history, Fault, AnswerWasLost
    <2> QED
      BY <2>1, CookieBeside
  <1> QED
    BY <1>2, <1>3, <1>4, <1>5, <1>6, <1>7, <1>8, <1>9, StepKinds DEF Open, Unload

(* Whatever the order in which any number of tabs refresh, log in and sign *)
(* out, no spent token is stored over a newer one: until an answer is      *)
(* lost or a document goes away before it, the cookie is accepted or its   *)
(* successor is on its way.                                                *)
THEOREM CookieHolds == SessionSpec => []CookieIsLive
  <1>1. SessionInit => CookieInv
    BY IdleIsOne DEF SessionInit, CookieInv, GrantsAreApart, GrantsAreLive, CookieIsLive, Granted
  <1>2. SessionTypeOK /\ CookieInv /\ [SessionNext]_vars => CookieInv'
    <2>1. ASSUME SessionTypeOK, CookieInv, UNCHANGED vars PROVE CookieInv'
      BY <2>1, CookieBeside DEF vars, memory, jar, history, AnswerWasLost
    <2> QED
      BY <2>1, CookieStep
  <1>3. CookieInv => CookieIsLive
    BY DEF CookieInv
  <1> QED
    BY <1>1, <1>2, <1>3, SessionTypeCorrect, PTL DEF SessionSpec

-----------------------------------------------------------------------------
(* What ends a session                                                     *)

SignedIn == cookie \in live \/ \E t \in Tab : Granted(t)

OneChanges ==
  /\ \A t \in Tab : \A u \in Tab : Changing(t) /\ Changing(u) => t = u
  /\ \A t \in Tab : logouts[t] = 0 /\ (refresh[t].at # "none" => ~form[t])

RefreshesWork ==
  \A t \in Tab : /\ refresh[t].at \in {"none", "sent", "granted"}
                 /\ refresh[t].at = "sent" => refresh[t].cookie = cookie /\ cookie \in live

UsersAreSignedIn ==
  /\ flag => SignedIn
  /\ \A t \in Tab : page[t] # "login" => SignedIn
  /\ \A c \in Call : call[c].pc # "idle" => SignedIn

(* As long as nothing was lost, raced or signed out, one request at a time *)
(* changes the cookie, with a cookie that is accepted; mock mode makes no  *)
(* request, and a call that was renewed sends a fresh token.               *)
CauseInv ==
  /\ mock => \A t \in Tab : refresh[t].at = "none"
  /\ \A c \in Call : call[c].pc = "resent" => call[c].tok = "fresh"
  /\ cause = "none" /\ ~mock => OneChanges /\ RefreshesWork /\ UsersAreSignedIn

LEMMA CauseTypes ==
  ASSUME SessionTypeOK
  PROVE  /\ refresh \in [Tab -> Request] /\ call \in [Call -> CallState]
         /\ form \in [Tab -> BOOLEAN] /\ logouts \in [Tab -> 0..MaxLogouts]
         /\ page \in [Tab -> Page] /\ \A u \in Tab : logouts[u] \in Nat
         /\ cookie \in live => cookie # 0
  BY Constants DEF SessionTypeOK, CallState

(* A signed-in tab asks for a refresh.                                     *)
LEMMA CauseAtStart ==
  ASSUME SessionTypeOK, NEW t \in Tab, RefreshAccessToken(t),
         cause = "none" => OneChanges /\ RefreshesWork /\ SignedIn,
         UNCHANGED <<cookie, live, form, logouts>>
  PROVE  cause' = "none" => OneChanges' /\ RefreshesWork' /\ SignedIn'
  <1> SUFFICES ASSUME cause' = "none"
               PROVE  OneChanges' /\ RefreshesWork' /\ SignedIn'
    OBVIOUS
  <1>1. cause = "none"
    BY DEF RefreshAccessToken, Raced
  <1>2. CASE refresh' = refresh
    BY <1>1, <1>2 DEF OneChanges, RefreshesWork, SignedIn, Changing, Granted
  <1>3. CASE /\ refresh[t].at = "none"
             /\ refresh' = [refresh EXCEPT ![t] = [at |-> "sent", cookie |-> cookie]]
    <2>1. \A u \in Tab : ~Changing(u)
      BY <1>1, <1>3 DEF RefreshAccessToken, Raced
    <2>2. cookie \in live
      BY <1>1, <2>1 DEF SignedIn, Granted, Changing
    <2>3. /\ refresh'[t].at = "sent" /\ refresh'[t].cookie = cookie
          /\ \A u \in Tab \ {t} : refresh'[u] = refresh[u]
      BY <1>3, CauseTypes
    <2>4. \A u \in Tab : Changing(u)' => u = t
      BY <2>1, <2>3 DEF Changing
    <2>5. OneChanges'
      BY <1>1, <2>1, <2>3, <2>4 DEF OneChanges, Changing
    <2>6. RefreshesWork' /\ SignedIn'
      BY <1>1, <2>2, <2>3 DEF RefreshesWork, SignedIn
    <2> QED
      BY <2>5, <2>6
  <1>4. refresh' = refresh \/ (/\ refresh[t].at = "none"
             /\ refresh' = [refresh EXCEPT ![t] = [at |-> "sent", cookie |-> cookie]])
    BY CauseTypes DEF RefreshAccessToken
  <1> QED
    BY <1>2, <1>3, <1>4

(* A tab starts afresh: one less may change the cookie.                    *)
LEMMA CauseAtForget ==
  ASSUME SessionTypeOK, CauseInv, NEW t \in Tab, Forget(t), cause' = "none", ~mock
  PROVE  OneChanges' /\ RefreshesWork' /\ (SignedIn => SignedIn')
  <1>1. cause = "none" /\ ~Granted(t) /\ cookie' = cookie /\ ForgetOrphans
    BY DEF Forget, AbandonRefresh, Reloaded, Granted, jar
  <1>2. OneChanges /\ RefreshesWork
    BY <1>1 DEF CauseInv
  <1>3. /\ refresh'[t].at = "none" /\ ~form'[t] /\ logouts'[t] = 0
        /\ \A u \in Tab \ {t} : refresh'[u] = refresh[u] /\ form'[u] = form[u]
                                /\ logouts'[u] = logouts[u]
    BY CauseTypes, IdleIsOne DEF Forget
  <1>4. cookie \in live => cookie' \in live'
    BY <1>1 DEF ForgetOrphans, Held
  <1>5. ~Changing(t)' /\ \A u \in Tab \ {t} : Changing(u)' <=> Changing(u)
    BY <1>3 DEF Changing
  <1>6. OneChanges'
    BY <1>2, <1>3, <1>5 DEF OneChanges
  <1>7. RefreshesWork'
    BY <1>1, <1>2, <1>3, <1>4 DEF RefreshesWork
  <1>8. SignedIn => SignedIn'
    BY <1>1, <1>3, <1>4 DEF SignedIn, Granted
  <1> QED
    BY <1>6, <1>7, <1>8

(* Nothing that bears on the cookie moves.                                 *)
LEMMA CauseBeside ==
  ASSUME cause = "none" => OneChanges /\ RefreshesWork /\ UsersAreSignedIn,
         cause' = "none" => cause = "none",
         UNCHANGED <<cookie, live, refresh, form, logouts>>,
         flag' => flag,
         \A t \in Tab : page'[t] # "login" => page[t] # "login" \/ flag,
         \A c \in Call : call'[c].pc # "idle" => call[c].pc # "idle" \/ \E t \in Tab : page[t] # "login"
  PROVE  cause' = "none" => OneChanges' /\ RefreshesWork' /\ UsersAreSignedIn'
  <1>1. SignedIn' <=> SignedIn
    BY DEF SignedIn, Granted
  <1>2. (OneChanges => OneChanges') /\ (RefreshesWork => RefreshesWork')
    BY DEF OneChanges, RefreshesWork, Changing
  <1>3. UsersAreSignedIn => UsersAreSignedIn'
    BY <1>1 DEF UsersAreSignedIn
  <1> QED
    BY <1>2, <1>3

LEMMA CauseAtCall ==
  ASSUME SessionTypeOK, CauseInv, NEW c \in Call, ApiCall(c)
  PROVE  /\ CauseInv'
         /\ \A t \in Tab : page[t] = "console" /\ page'[t] = "leaving" => cause' # "none"
  <1> DEFINE t == Owner[c]
  <1>0. t \in Tab /\ NoCall.pc = "idle" /\ mock' = mock
    BY Constants DEF NoCall, ApiCall, CallStarts, CallIsRefused, CallIsWronglyRefused,
                     RetryIsRefused, CallSettles
  <1>a. ASSUME RefreshAccessToken(t), ~mock, SignedIn \/ cause # "none",
               UNCHANGED <<page, form, logouts, jar, live>>,
               \E pc \in {"ensure", "renew"} :
                 call' = [call EXCEPT ![c] = [pc |-> pc, tok |-> "none"]]
        PROVE  CauseInv'
    <2>1. cookie' = cookie /\ flag' = flag
      BY <1>a DEF jar
    <2>2. cause = "none" => OneChanges /\ RefreshesWork /\ SignedIn
      BY <1>a DEF CauseInv
    <2>3. cause' = "none" => OneChanges' /\ RefreshesWork' /\ SignedIn'
      BY <1>0, <1>a, <2>1, <2>2, CauseAtStart
    <2>4. \A d \in Call : call'[d].pc = "resent" => call'[d].tok = "fresh"
      BY <1>a, CauseTypes DEF CauseInv
    <2> QED
      BY <1>0, <1>a, <2>3, <2>4 DEF CauseInv, UsersAreSignedIn
  <1>1. CASE CallStarts(c)
    <2>0. page' = page /\ page[t] = "console"
      BY <1>1 DEF CallStarts
    <2>1. CASE NeedsNoRefresh(t)
      <3>1. /\ UNCHANGED <<refresh, cause, page, form, logouts, cookie, flag, live>>
            /\ call' = [call EXCEPT ![c] = [pc |-> "sent", tok |-> token[t]]]
        BY <1>1, <2>1 DEF CallStarts, jar
      <3>2. cause' = "none" /\ ~mock => OneChanges' /\ RefreshesWork' /\ UsersAreSignedIn'
        BY <1>0, <2>0, <3>1, CauseTypes, CauseBeside DEF CauseInv
      <3>3. \A d \in Call : call'[d].pc = "resent" => call'[d].tok = "fresh"
        BY <3>1, CauseTypes DEF CauseInv
      <3> QED
        BY <1>0, <2>0, <3>1, <3>2, <3>3 DEF CauseInv
    <2>2. CASE ~NeedsNoRefresh(t)
      <3>1. /\ RefreshAccessToken(t) /\ ~mock
            /\ UNCHANGED <<page, form, logouts, jar, live>>
            /\ call' = [call EXCEPT ![c] = [pc |-> "ensure", tok |-> "none"]]
        BY <1>1, <2>2 DEF CallStarts, NeedsNoRefresh
      <3>2. SignedIn \/ cause # "none"
        BY <1>0, <2>0, <3>1 DEF CauseInv, UsersAreSignedIn
      <3> QED
        BY <1>a, <2>0, <3>1, <3>2
    <2> QED
      BY <2>1, <2>2
  <1>2. CASE CallIsRefused(c)
    <2>1. /\ RefreshAccessToken(t) /\ ~mock /\ call[c].pc = "sent" /\ page' = page
          /\ UNCHANGED <<page, form, logouts, jar, live>>
          /\ call' = [call EXCEPT ![c] = [pc |-> "renew", tok |-> "none"]]
      BY <1>2 DEF CallIsRefused, Refuses
    <2>2. SignedIn \/ cause # "none"
      BY <2>1 DEF CauseInv, UsersAreSignedIn
    <2> QED
      BY <1>a, <2>1, <2>2
  <1>3. CASE CallIsWronglyRefused(c)
    <2>1. /\ call' = [call EXCEPT ![c] = [pc |-> "renew", tok |-> "none"]]
          /\ cause' = "lost" /\ ~mock /\ page' = page
      BY <1>3 DEF CallIsWronglyRefused, Fault
    <2>2. \A d \in Call : call'[d].pc = "resent" => call'[d].tok = "fresh"
      BY <2>1, CauseTypes DEF CauseInv
    <2> QED
      BY <1>0, <2>1, <2>2 DEF CauseInv
  <1>4. CASE RetryIsRefused(c)
    <2>1. /\ call' = [call EXCEPT ![c] = NoCall] /\ call[c].pc = "resent" /\ ~mock
          /\ Refuses(call[c].tok) \/ cause' = "lost"
      BY <1>4 DEF RetryIsRefused, Refuses, Fault
    <2>2. cause' = "lost"
      BY <2>1 DEF CauseInv, Refuses
    <2>3. \A d \in Call : call'[d].pc = "resent" => call'[d].tok = "fresh"
      BY <1>0, <2>1, CauseTypes DEF CauseInv
    <2> QED
      BY <1>0, <2>1, <2>2, <2>3 DEF CauseInv
  <1>5. CASE CallSettles(c)
    <2>1. /\ UNCHANGED <<refresh, cause, page, form, logouts, cookie, flag, live>>
          /\ call' = [call EXCEPT ![c] = NoCall]
      BY <1>5 DEF CallSettles, jar, history
    <2>2. \A d \in Call : call'[d] = call[d] \/ call'[d].pc = "idle"
      BY <1>0, <2>1, CauseTypes
    <2>3. cause' = "none" /\ ~mock => OneChanges' /\ RefreshesWork' /\ UsersAreSignedIn'
      BY <2>1, <2>2, CauseBeside DEF CauseInv
    <2> QED
      BY <1>0, <2>1, <2>2, <2>3 DEF CauseInv
  <1> QED
    BY <1>1, <1>2, <1>3, <1>4, <1>5 DEF ApiCall

LEMMA CauseAtServed ==
  ASSUME SessionTypeOK, CauseInv, NEW t \in Tab, RefreshIsServed(t)
  PROVE  /\ CauseInv' /\ page' = page
  <1>0. /\ UNCHANGED <<mock, page, form, call, logouts, cookie, flag>>
        /\ refresh[t].at = "sent" /\ refresh[t] \in Request /\ ~mock
    BY CauseTypes DEF RefreshIsServed, jar, CauseInv
  <1>1. CASE cause' = "none"
    <2>1. cause = "none"
      BY <1>1 DEF RefreshIsServed, Fault
    <2>2. OneChanges /\ RefreshesWork /\ refresh[t].cookie \in live /\ refresh[t].cookie # 0
      BY <1>0, <2>1, CauseTypes DEF CauseInv, RefreshesWork
    <2>3. PICK n \in RefreshToken :
            refresh' = [refresh EXCEPT ![t] = [at |-> "granted", cookie |-> n]]
      BY <1>1, <2>2 DEF RefreshIsServed, Fault
    <2>4. /\ refresh'[t].at = "granted"
          /\ \A u \in Tab \ {t} : refresh'[u] = refresh[u]
      BY <2>3, CauseTypes
    <2>5. \A u \in Tab : Changing(u)' <=> Changing(u)
      BY <1>0, <2>4 DEF Changing
    <2>6. \A u \in Tab \ {t} : refresh'[u].at = "none"
      BY <1>0, <2>2, <2>4 DEF OneChanges, Changing
    <2>7. OneChanges'
      BY <1>0, <2>2, <2>4, <2>5 DEF OneChanges
    <2>8. RefreshesWork' /\ SignedIn'
      BY <2>4, <2>6 DEF RefreshesWork, SignedIn, Granted
    <2> QED
      BY <1>0, <2>7, <2>8 DEF CauseInv, UsersAreSignedIn
  <1>2. CASE cause' # "none"
    BY <1>0, <1>2 DEF CauseInv
  <1> QED
    BY <1>0, <1>1, <1>2

LEMMA CauseAtLanding ==
  ASSUME SessionTypeOK, CookieInv, CauseInv, NEW t \in Tab,
         RefreshLands(t) \/ RefreshIsLost(t)
  PROVE  /\ CauseInv'
         /\ \A u \in Tab : page[u] = "console" /\ page'[u] = "leaving" => cause' # "none"
  <1>0. /\ mock' = mock /\ refresh' = [refresh EXCEPT ![t] = Idle] /\ ForgetOrphans
        /\ refresh[t].at # "none" /\ ~mock
        /\ cause' = cause \/ cause' = "lost"
    BY DEF RefreshLands, RefreshIsLost, Settle, Fault, CauseInv
  <1>1. \A c \in Call : call'[c].pc = "resent" => call'[c].tok = "fresh"
    <2>1. ASSUME NEW renewed, NEW tok, Settle(t, renewed, tok), renewed => tok = "fresh"
          PROVE  \A c \in Call : call'[c].pc = "resent" => call'[c].tok = "fresh"
      <3>1. PICK left : call' = Woken(t, renewed, left) /\ (renewed => left = "fresh")
        BY <2>1 DEF Settle
      <3> QED
        BY <3>1 DEF Woken, NoCall, CauseInv
    <2>2. CASE RefreshLands(t)
      <3> DEFINE renewed == refresh[t].at = "granted"
                 tok == IF refresh[t].at = "granted" THEN "fresh" ELSE "none"
      <3>1. Settle(t, renewed, tok) /\ (renewed => tok = "fresh")
        BY <2>2 DEF RefreshLands
      <3> HIDE DEF renewed, tok
      <3> QED
        BY <2>1, <3>1
    <2>3. CASE RefreshIsLost(t)
      BY <2>1, <2>3 DEF RefreshIsLost
    <2> QED
      BY <2>2, <2>3
  <1>2. CASE cause' = "none"
    <2>1. cause = "none" /\ RefreshLands(t) /\ OneChanges /\ RefreshesWork
      BY <1>0, <1>2 DEF RefreshIsLost, Fault, CauseInv
    <2>2. Granted(t)
      BY <1>0, <2>1 DEF RefreshLands, RefreshesWork, Granted
    <2>3. /\ cookie' = refresh[t].cookie /\ page' = page /\ form' = form /\ logouts' = logouts
      BY <2>1, <2>2 DEF RefreshLands, Settle, Granted
    <2>4. cookie' \in live'
      BY <1>0, <2>1, <2>2, <2>3 DEF CookieInv, GrantsAreLive, AnswerWasLost, ForgetOrphans,
                                    Held
    <2>5. /\ refresh'[t].at = "none"
          /\ \A u \in Tab \ {t} : refresh'[u] = refresh[u]
      BY <1>0, CauseTypes, IdleIsOne
    <2>6. Changing(t) /\ \A u \in Tab \ {t} : ~Changing(u)
      BY <1>0, <2>1 DEF OneChanges, Changing
    <2>7. \A u \in Tab : refresh'[u].at = "none"
      BY <2>5, <2>6 DEF Changing
    <2>8. \A u \in Tab : Changing(u)' => Changing(u)
      BY <2>3, <2>7 DEF Changing
    <2>9. OneChanges' /\ RefreshesWork'
      BY <2>1, <2>3, <2>7, <2>8 DEF OneChanges, RefreshesWork
    <2>10. CauseInv'
      BY <1>0, <1>1, <2>4, <2>9 DEF CauseInv, UsersAreSignedIn, SignedIn
    <2> QED
      BY <2>3, <2>10
  <1>3. CASE cause' # "none"
    BY <1>0, <1>1, <1>3 DEF CauseInv
  <1> QED
    BY <1>2, <1>3

LEMMA CauseAtLogin ==
  ASSUME SessionTypeOK, CauseInv, NEW t \in Tab, Login(t)
  PROVE  /\ CauseInv'
         /\ \A u \in Tab : page[u] = "console" => page'[u] # "leaving"
  <1>0. mock' = mock /\ refresh' = refresh /\ call' = call /\ logouts' = logouts
    BY DEF Login, Submit, LoginLands, LoginFails
  <1>1. \A u \in Tab : page[u] = "console" => page'[u] # "leaving"
    BY CauseTypes DEF Login, Submit, LoginLands, LoginFails, CanSubmit
  <1>2. ASSUME cause' = "none", ~mock
        PROVE  OneChanges' /\ RefreshesWork' /\ UsersAreSignedIn'
    <2>1. CASE Submit(t)
      <3>1. /\ form' = [form EXCEPT ![t] = TRUE] /\ UNCHANGED <<flag, page, cookie, live>>
            /\ cause = "none" /\ \A u \in Tab : ~Changing(u)
        BY <1>2, <2>1 DEF Submit, Raced
      <3>2. OneChanges /\ RefreshesWork /\ UsersAreSignedIn
        BY <1>2, <3>1 DEF CauseInv
      <3>3. \A u \in Tab : /\ refresh'[u].at = "none" /\ logouts'[u] = 0
                           /\ form'[u] => u = t
        BY <1>0, <3>1, <3>2, CauseTypes DEF Changing, OneChanges
      <3>4. OneChanges' /\ RefreshesWork'
        BY <3>3 DEF OneChanges, RefreshesWork, Changing
      <3>5. UsersAreSignedIn'
        BY <1>0, <3>1, <3>2 DEF UsersAreSignedIn, SignedIn, Granted
      <3> QED
        BY <3>4, <3>5
    <2>2. CASE LoginLands(t)
      <3>1. PICK n \in RefreshToken : cookie' = n /\ live' = (live \cap Held') \cup {n}
        BY <2>2 DEF LoginLands
      <3>2. SignedIn'
        BY <3>1 DEF SignedIn
      <3>3. form' = [form EXCEPT ![t] = FALSE]
        BY <2>2 DEF LoginLands
      <3>4. \A u \in Tab : ~Changing(u)'
        <4>1. CASE \E u \in Tab : Changing(u)'
          <5>1. cause = "none" /\ form[t]
            BY <1>2, <2>2, <4>1 DEF LoginLands
          <5>2. OneChanges /\ Changing(t)
            BY <1>2, <5>1 DEF CauseInv, Changing
          <5>3. \A u \in Tab \ {t} : ~Changing(u)
            BY <5>2 DEF OneChanges
          <5>4. ~form'[t] /\ refresh'[t].at = "none" /\ logouts'[t] = 0
            BY <1>0, <3>3, <5>1, <5>2, CauseTypes DEF OneChanges
          <5>5. \A u \in Tab \ {t} : form'[u] = form[u]
            BY <3>3, CauseTypes
          <5> QED
            BY <1>0, <5>3, <5>4, <5>5 DEF Changing
        <4> QED
          BY <4>1
      <3>5. OneChanges' /\ RefreshesWork'
        BY <1>0, <3>4, CauseTypes DEF OneChanges, RefreshesWork, Changing
      <3> QED
        BY <3>2, <3>5 DEF UsersAreSignedIn
    <2>3. CASE LoginFails(t)
      <3>1. /\ form' = [form EXCEPT ![t] = FALSE] /\ UNCHANGED <<flag, page, cookie, live>>
            /\ cause = "none"
        BY <1>2, <2>3 DEF LoginFails, jar, history
      <3>2. OneChanges /\ RefreshesWork /\ UsersAreSignedIn
        BY <1>2, <3>1 DEF CauseInv
      <3>3. \A u \in Tab : form'[u] => form[u]
        BY <3>1, CauseTypes
      <3>4. OneChanges' /\ RefreshesWork'
        BY <1>0, <3>1, <3>2, <3>3 DEF OneChanges, RefreshesWork, Changing
      <3>5. UsersAreSignedIn'
        BY <1>0, <3>1, <3>2 DEF UsersAreSignedIn, SignedIn, Granted
      <3> QED
        BY <3>4, <3>5
    <2> QED
      BY <2>1, <2>2, <2>3 DEF Login
  <1> QED
    BY <1>0, <1>1, <1>2 DEF CauseInv

LEMMA CauseAtPage ==
  ASSUME SessionTypeOK, CauseInv, NEW t \in Tab, Open(t) \/ Navigate(t) \/ Mount(t) \/ Unload(t)
  PROVE  /\ CauseInv'
         /\ \A u \in Tab : page[u] = "console" => page'[u] # "leaving"
  <1>0. mock' = mock /\ NoCall.pc = "idle" /\ Idle.at = "none"
    BY DEF Open, Navigate, Mount, Unload, NoCall, Idle
  <1>1. \A u \in Tab : page[u] = "console" => page'[u] # "leaving"
    BY CauseTypes DEF Open, Navigate, Mount, Unload
  <1>2. ASSUME Forget(t), \/ page' = [page EXCEPT ![t] = "login"]
                          \/ page' = [page EXCEPT ![t] = "loading"] /\ flag
        PROVE  CauseInv'
    <2>1. (\A c \in Call : call'[c] = call[c] \/ call'[c].pc = "idle") /\ flag' = flag
      BY <1>0, <1>2 DEF Forget, jar
    <2>2. \A u \in Tab : refresh[u].at = "none" => refresh'[u].at = "none"
      BY <1>0, <1>2, CauseTypes DEF Forget
    <2>3. ASSUME cause' = "none", ~mock
          PROVE  OneChanges' /\ RefreshesWork' /\ UsersAreSignedIn'
      <3>1. cause = "none"
        BY <1>2, <2>3 DEF Forget, AbandonRefresh, Reloaded
      <3>2. OneChanges' /\ RefreshesWork' /\ (SignedIn => SignedIn')
        BY <1>2, <2>3, CauseAtForget
      <3>3. UsersAreSignedIn
        BY <2>3, <3>1 DEF CauseInv
      <3>4. \A u \in Tab : page'[u] # "login" => page[u] # "login" \/ flag
        BY <1>2, CauseTypes
      <3>5. UsersAreSignedIn'
        BY <2>1, <3>2, <3>3, <3>4 DEF UsersAreSignedIn
      <3> QED
        BY <3>2, <3>5
    <2> QED
      BY <1>0, <2>1, <2>2, <2>3 DEF CauseInv
  <1>3. CASE Open(t)
    <2>1. Forget(t) /\ (\/ page' = [page EXCEPT ![t] = "login"]
                        \/ page' = [page EXCEPT ![t] = "loading"] /\ flag)
      BY <1>3 DEF Open, GuardPasses
    <2> QED
      BY <1>1, <1>2, <2>1
  <1>4. CASE Unload(t)
    BY <1>1, <1>2, <1>4 DEF Unload
  <1>5. CASE Navigate(t)
    <2>1. /\ UNCHANGED <<mock, cookie, live, refresh, form, logouts, call, flag, cause>>
          /\ flag /\ page' = [page EXCEPT ![t] = "loading"]
      BY <1>5 DEF Navigate, GuardPasses, memory, jar, history
    <2>2. \A u \in Tab : page'[u] # "login" => page[u] # "login" \/ flag
      BY <2>1
    <2>3. cause' = "none" /\ ~mock => OneChanges' /\ RefreshesWork' /\ UsersAreSignedIn'
      BY <2>1, <2>2, CauseBeside DEF CauseInv
    <2> QED
      BY <1>0, <2>1, <2>3 DEF CauseInv
  <1>6. CASE Mount(t)
    <2>1. /\ UNCHANGED <<mock, cookie, live, form, logouts, call, flag>>
          /\ page[t] = "loading" /\ page' = [page EXCEPT ![t] = "console"]
      BY <1>6 DEF Mount, jar
    <2>2. CASE refresh' = refresh /\ cause' = cause
      <3>1. \A u \in Tab : page'[u] # "login" => page[u] # "login" \/ flag
        BY <2>1, CauseTypes
      <3>2. cause' = "none" /\ ~mock => OneChanges' /\ RefreshesWork' /\ UsersAreSignedIn'
        BY <2>1, <2>2, <3>1, CauseBeside DEF CauseInv
      <3> QED
        BY <2>1, <2>2, <3>2 DEF CauseInv
    <2>3. CASE ~mock /\ RefreshAccessToken(t)
      <3>1. cause = "none" => OneChanges /\ RefreshesWork /\ SignedIn
        BY <2>1, <2>3 DEF CauseInv, UsersAreSignedIn
      <3>2. cause' = "none" => OneChanges' /\ RefreshesWork' /\ SignedIn'
        BY <2>1, <2>3, <3>1, CauseAtStart
      <3> QED
        BY <2>1, <2>3, <3>2 DEF CauseInv, UsersAreSignedIn
    <2> QED
      BY <1>6, <2>2, <2>3 DEF Mount, EnsureAuth
  <1> QED
    BY <1>1, <1>3, <1>4, <1>5, <1>6

LEMMA CauseStep ==
  ASSUME SessionTypeOK, CookieInv, CauseInv, SessionNext
  PROVE  /\ CauseInv'
         /\ \A u \in Tab : page[u] = "console" /\ page'[u] = "leaving" => cause' # "none"
  <1>1. ASSUME NEW t \in Tab, Refresh(t)
        PROVE  /\ CauseInv'
               /\ \A u \in Tab : page[u] = "console" /\ page'[u] = "leaving" => cause' # "none"
    BY <1>1, CauseAtServed, CauseAtLanding DEF Refresh
  <1>2. ASSUME NEW t \in Tab, SignOut(t) PROVE CauseInv' /\ cause' # "none"
    <2>1. mock' = mock /\ refresh' = refresh /\ call' = call /\ cause' # "none"
      BY <1>2 DEF SignOut, Raced
    <2> QED
      BY <2>1 DEF CauseInv
  <1>3. ASSUME NEW t \in Tab, LogoutLands(t) \/ LogoutIsLost(t)
        PROVE  CauseInv' /\ page' = page
    <2>1. /\ mock' = mock /\ refresh' = refresh /\ call' = call /\ page' = page
          /\ cause' = cause \/ cause' = "lost"
      BY <1>3 DEF LogoutLands, LogoutIsLost, Fault, history
    <2>2. cause = "none" => mock
      BY <1>3, CauseTypes DEF LogoutLands, LogoutIsLost, CauseInv, OneChanges
    <2> QED
      BY <2>1, <2>2 DEF CauseInv
  <1>4. ASSUME (\E t \in Tab : TokenAges(t)) \/ FlagExpires \/ UNCHANGED vars
        PROVE  CauseInv' /\ page' = page
    <2>1. /\ UNCHANGED <<mock, page, cookie, live, refresh, form, logouts, call, cause>>
          /\ flag' => flag
      BY <1>4 DEF TokenAges, FlagExpires, vars, memory, jar, history
    <2>2. cause' = "none" /\ ~mock => OneChanges' /\ RefreshesWork' /\ UsersAreSignedIn'
      BY <2>1, CauseBeside DEF CauseInv
    <2> QED
      BY <2>1, <2>2 DEF CauseInv
  <1>5. ASSUME Revoke PROVE CauseInv' /\ page' = page
    <2>1. mock' = mock /\ refresh' = refresh /\ call' = call /\ page' = page /\ cause' = "lost"
      BY <1>5 DEF Revoke, Fault, memory
    <2> QED
      BY <2>1 DEF CauseInv
  <1> QED
    BY <1>1, <1>2, <1>3, <1>4, <1>5, StepKinds, CauseAtCall, CauseAtLogin, CauseAtPage

(* When a 401 sends a tab to the login page, something was lost or refused *)
(* out of turn, a document went away between a rotation and its answer, a  *)
(* user signed out, or two requests raced: neither expiry, nor any number  *)
(* of callers that share or follow a refresh, nor a reload that finds no   *)
(* refresh under way ends a session.                                       *)
THEOREM EndedHolds == SessionSpec => EndedForACause
  <1>1. SessionInit => CookieInv /\ CauseInv
    <2> SUFFICES ASSUME SessionInit PROVE CookieInv /\ CauseInv
      OBVIOUS
    <2>1. \A t \in Tab : refresh[t].at = "none" /\ ~form[t] /\ logouts[t] = 0
      BY IdleIsOne DEF SessionInit
    <2>2. \A c \in Call : call[c].pc = "idle"
      BY DEF SessionInit, NoCall
    <2>3. CookieInv
      BY <2>1 DEF SessionInit, CookieInv, GrantsAreApart, GrantsAreLive, CookieIsLive, Granted
    <2>4. OneChanges /\ RefreshesWork /\ UsersAreSignedIn
      BY <2>1, <2>2 DEF SessionInit, OneChanges, RefreshesWork, UsersAreSignedIn, Changing
    <2> QED
      BY <2>1, <2>2, <2>3, <2>4 DEF CauseInv
  <1>2. SessionTypeOK /\ CookieInv /\ CauseInv /\ [SessionNext]_vars => CookieInv' /\ CauseInv'
    <2>1. ASSUME SessionTypeOK, CookieInv, UNCHANGED vars PROVE CookieInv'
      BY <2>1, CookieBeside DEF vars, memory, jar, history, AnswerWasLost
    <2>2. ASSUME CauseInv, UNCHANGED vars PROVE CauseInv'
      <3>1. /\ UNCHANGED <<mock, page, cookie, live, refresh, form, logouts, call, cause, flag>>
        BY <2>2 DEF vars, memory, jar, history
      <3>2. cause' = "none" /\ ~mock => OneChanges' /\ RefreshesWork' /\ UsersAreSignedIn'
        BY <2>2, <3>1, CauseBeside DEF CauseInv
      <3> QED
        BY <2>2, <3>1, <3>2 DEF CauseInv
    <2> QED
      BY <2>1, <2>2, CookieStep, CauseStep
  <1>3. /\ SessionTypeOK /\ CookieInv /\ CauseInv /\ [SessionNext]_vars
        => [\A t \in Tab : page[t] = "console" /\ page'[t] = "leaving" => cause' # "none"]_vars
    BY CauseStep
  <1> QED
    BY <1>1, <1>2, <1>3, SessionTypeCorrect, PTL DEF SessionSpec, EndedForACause
=============================================================================
