------------------------- MODULE PanelClientProofs -------------------------
(***************************************************************************)
(* Proofs about PanelClient, for any number of tabs, requests, logins,     *)
(* failures and reloads.                                                   *)
(*                                                                         *)
(* That the tab's flag is set exactly while it refreshes is inductive once *)
(* the types are known.  That the token in local storage is not spent is   *)
(* not: it follows from where refresh tokens can be.  A pair that is on    *)
(* its way from the server is new to the panel (Fresh), so whatever it     *)
(* replaces in local storage cannot have been spent; and a refresh that    *)
(* may still spend the token in local storage has a tab that waits for it, *)
(* or is recorded as forsaken (Watched).                                   *)
(***************************************************************************)
EXTENDS PanelClient, AuthSessionProofs

Requests == [state : {"free", "pending", "queued", "leading", "gone"},
             op : Ops, retry : BOOLEAN, body : Token \cup {NoToken}]

(* What the panel remembers, and what it has asked.                        *)
Browser ==
    /\ storage \in Token \cup {NoToken} /\ spent \subseteq Token /\ forsaken \in BOOLEAN
    /\ page \in [Tabs -> {"app", "login", "away"}] /\ refreshing \in [Tabs -> BOOLEAN]
    /\ req \in [Calls -> Requests]
    /\ \A c \in Calls : req[c].op # "refresh"

(* The refresh tokens that have been in the browser.                       *)
Taken == {storage} \cup spent \cup {req[c].body : c \in Calls}
           \cup {call[c].token : c \in Calls}

(* Pairs are numbered as they are drawn.                                   *)
Drawn(t) == t.id <= issued /\ t.root <= issued

AllDrawn == (\A t \in Taken : Drawn(t)) /\ \A c \in Calls : Drawn(call[c].pair)

(* A pair in an answer is unknown to the browser, and in no other answer.  *)
Fresh ==
    \A c \in Calls : call[c].pair # NoToken =>
        /\ call[c].pair \notin Taken
        /\ \A d \in Calls \ {c} : call[d].pair # call[c].pair

(* A refresh that has not deleted its token yet.                           *)
Spending(c) == call[c].op = "refresh" /\ call[c].at \in {"sent", "found"}

Watched ==
    \A c \in Calls : Spending(c) =>
        /\ call[c].token # NoToken
        /\ call[c].token = storage => forsaken \/ req[c].state = "leading"

PanelInv ==
    /\ Inv /\ Browser /\ RefreshIsLed
    /\ AllDrawn /\ Fresh /\ Watched /\ HeldTokenNotSpent

(* ------------------------------ the requests ---------------------------- *)

LEMMA FreeType == Free \in Requests /\ Free.state = "free" /\ Free.body = NoToken /\ Free.op = "get"
BY DEF Free, Requests, Ops

(* A request that is sent is a well-typed exchange.                        *)
LEMMA RequestType ==
  ASSUME NEW op \in Ops, NEW access \in Token \cup {NoToken}, NEW token \in Token \cup {NoToken}
  PROVE  /\ Request(op, access, token) \in Exchange
         /\ Request(op, access, token).at = "sent" /\ Request(op, access, token).op = op
         /\ Request(op, access, token).token = token /\ Request(op, access, token).pair = NoToken
BY DEF Request, Exchange, Stages

LEMMA NoTokenDrawn == ASSUME issued \in Nat PROVE Drawn(NoToken)
BY DEF Drawn, NoToken

LEMMA NoTokenIsNone == NoToken \notin Token
BY DEF NoToken, Token

(* Requests that neither begin nor end a refresh, or a wait for one.       *)
LEMMA SameLed ==
  ASSUME RefreshIsLed, refreshing' = refreshing,
         \A c \in Calls : /\ req'[c].state = "leading" <=> req[c].state = "leading"
                          /\ req'[c].state = "queued" => req[c].state = "queued"
  PROVE  RefreshIsLed'
<1>1. \A t \in Tabs : Leaders(t)' = Leaders(t) /\ Queue(t)' \subseteq Queue(t)
  BY DEF Leaders, Queue, SlotsOf
<1>2. QED
  BY <1>1 DEF RefreshIsLed

(* A request that is over.                                                 *)
LEMMA FinishKeeps ==
  ASSUME Browser, RefreshIsLed, NEW c \in Calls, req[c].state \in {"pending", "gone"},
         Finish(c), refreshing' = refreshing
  PROVE  /\ req' \in [Calls -> Requests] /\ RefreshIsLed'
         /\ \A d \in Calls : /\ req'[d].op # "refresh" /\ req'[d].body \in {NoToken, req[d].body}
                             /\ req[d].state = "leading" => req'[d].state = "leading"
<1>1. req' = [req EXCEPT ![c] = Free] /\ req \in [Calls -> Requests]
  BY DEF Finish, Browser
<1>2. req' \in [Calls -> Requests] /\ req'[c] = Free /\ \A d \in Calls \ {c} : req'[d] = req[d]
  BY <1>1, FreeType
<1>3. \A d \in Calls : req'[d].state = "leading" <=> req[d].state = "leading"
  BY <1>2, FreeType
<1>4. \A d \in Calls : req'[d].state = "queued" => req[d].state = "queued"
  BY <1>2, FreeType
<1>5. QED
  BY <1>2, <1>3, <1>4, SameLed, FreeType DEF Browser

(* A page that goes away, or is loaded again, waits for nothing.           *)
LEMMA AbandonKeeps ==
  ASSUME Browser, RefreshIsLed, NEW t \in Tabs, NEW done \in SUBSET Calls,
         NEW where \in {"app", "login", "away"}, Abandon(t, done), Unload(t, where)
  PROVE  /\ req' \in [Calls -> Requests] /\ RefreshIsLed'
         /\ page' \in [Tabs -> {"app", "login", "away"}] /\ refreshing' \in [Tabs -> BOOLEAN]
         /\ \A d \in Calls : /\ req'[d].op # "refresh" /\ req'[d].body \in {NoToken, req[d].body}
                             /\ Tab[d] # t => req'[d] = req[d]
<1> DEFINE gone == [Free EXCEPT !.state = "gone"]
<1>1. gone \in Requests /\ gone.state = "gone" /\ gone.body = NoToken /\ gone.op = "get"
  BY DEF Free, Requests, Ops
<1>2. \A d \in Calls :
        /\ Tab[d] # t => req'[d] = req[d]
        /\ Tab[d] = t => req'[d] \in {gone, Free}
  BY DEF Abandon
<1>3. req' = [d \in Calls |-> req'[d]]
  BY DEF Abandon
<1> HIDE DEF gone
<1>4. req' \in [Calls -> Requests]
  BY <1>1, <1>2, <1>3, FreeType DEF Browser
<1>5. page' \in [Tabs -> {"app", "login", "away"}] /\ refreshing' \in [Tabs -> BOOLEAN]
  BY DEF Unload, Browser
<1>6. ASSUME NEW u \in Tabs
      PROVE  /\ refreshing'[u] <=> Leaders(u)' # {}
             /\ \A c, d \in Leaders(u)' : c = d
             /\ Queue(u)' # {} => refreshing'[u]
  <2>1. CASE u = t
    <3>1. Leaders(u)' = {} /\ Queue(u)' = {}
      BY <1>1, <1>2, <2>1, FreeType DEF Leaders, Queue, SlotsOf
    <3>2. refreshing'[u] = FALSE
      BY <2>1 DEF Unload, Browser
    <3>3. QED
      BY <3>1, <3>2
  <2>2. CASE u # t
    <3>1. Leaders(u)' = Leaders(u) /\ Queue(u)' = Queue(u)
      BY <1>2, <2>2 DEF Leaders, Queue, SlotsOf
    <3>2. refreshing'[u] = refreshing[u]
      BY <2>2 DEF Unload, Browser
    <3>3. QED
      BY <3>1, <3>2 DEF RefreshIsLed
  <2>3. QED
    BY <2>1, <2>2
<1>7. RefreshIsLed'
  BY <1>6, Zenon DEF RefreshIsLed
<1>8. QED
  BY <1>1, <1>2, <1>4, <1>5, <1>7, FreeType DEF Browser

(* ------------------------ a step of the browser ------------------------- *)

(* What happens to a request on its way: nothing, or its answer is taken,  *)
(* or it is sent with a refresh token the browser knows.                   *)
Asks(c) ==
    \/ call'[c] = call[c]
    \/ /\ call'[c] \in Exchange /\ call'[c].pair = NoToken
       /\ call'[c].at \in {"idle", "sent"}
       /\ call'[c].token \in Taken \cup {NoToken}
       /\ call'[c].op = "refresh" /\ call'[c].at = "sent" =>
             req'[c].state = "leading" /\ call'[c].token # NoToken

(* Local storage is left alone, and every refresh that is not forsaken has *)
(* its tab;                                                                *)
Keeps ==
    /\ storage' = storage /\ (forsaken => forsaken')
    /\ \A c \in Calls : req[c].state = "leading" => forsaken' \/ req'[c].state = "leading"

(* or cleared, or given the pair of an answer that has come.               *)
Replaces ==
    \/ storage' = NoToken
    \/ \E c \in Calls : storage' = call[c].pair /\ call'[c].pair = NoToken

LEMMA BrowserStep ==
  ASSUME PanelInv, UNCHANGED server, spent' = spent, Browser', RefreshIsLed',
         call' = [c \in Calls |-> call'[c]],
         \A c \in Calls : Asks(c) /\ req'[c].body \in Taken \cup {NoToken},
         Keeps \/ Replaces
  PROVE  PanelInv'
<1>1. /\ UNCHANGED <<now, issued, rows, faults, forked, ended>>
      /\ issued \in Nat /\ Inv /\ Browser
      /\ call \in [Calls -> Exchange] /\ AuthTypeOK
  BY DEF server, PanelInv, Inv, AuthTypeOK
<1>2. call' \in [Calls -> Exchange]
  BY <1>1 DEF Asks
<1>3. AuthTypeOK'
  BY <1>1, <1>2 DEF AuthTypeOK
<1>4. \A t \in Taken \cup {NoToken} : Drawn(t)
  BY <1>1, NoTokenDrawn DEF PanelInv, AllDrawn
<1>5. \A c \in Calls : Drawn(call[c].pair)
  BY DEF PanelInv, AllDrawn
<1>6. \A c \in Calls : /\ call'[c].token \in Taken \cup {NoToken}
                       /\ call'[c].pair \in {NoToken, call[c].pair}
  BY DEF Asks, Taken
<1>7. Inv'
  <2>1. ASSUME NEW c \in Calls
        PROVE  /\ call'[c].at \in {"found", "dropped"} => call'[c].token \in Token
               /\ call'[c].at = "dropped"
                     => call[c].at = "dropped" /\ call'[c].token = call[c].token
    BY <1>1 DEF Asks, Inv, Holds
  <2>2. ASSUME NEW c \in Calls
        PROVE  call'[c].token.root <= issued /\ call'[c].pair.root <= issued
    BY <1>1, <1>4, <1>5, <1>6 DEF Drawn
  <2>3. QED
    BY <1>1, <1>3, <2>1, <2>2, Quiet
<1>8. Taken' \subseteq Taken \cup {NoToken, storage'}
  BY <1>6 DEF Taken
<1>9. Drawn(storage')
  <2>1. storage \in Taken
    BY DEF Taken
  <2>2. storage' = storage \/ storage' = NoToken \/ \E c \in Calls : storage' = call[c].pair
    BY DEF Keeps, Replaces
  <2>3. QED
    BY <1>4, <1>5, <2>1, <2>2
<1>10. AllDrawn'
  <2>1. \A c \in Calls : Drawn(call'[c].pair)
    BY <1>4, <1>5, <1>6
  <2>2. \A t \in Taken' : Drawn(t)
    BY <1>4, <1>8, <1>9
  <2>3. QED
    BY <1>1, <2>1, <2>2 DEF AllDrawn, Drawn
<1>11. ASSUME NEW c \in Calls, call'[c].pair # NoToken
       PROVE  /\ call'[c].pair = call[c].pair /\ call[c].pair \notin Taken
              /\ call[c].pair # storage'
              /\ \A d \in Calls \ {c} : call'[d].pair # call'[c].pair
  <2>1. call'[c].pair = call[c].pair /\ call[c].pair \notin Taken
    BY <1>6, <1>11 DEF PanelInv, Fresh
  <2>2. \A d \in Calls \ {c} : call[d].pair # call[c].pair
    BY <1>11, <2>1 DEF PanelInv, Fresh
  <2>3. call[c].pair # storage'
    BY <1>11, <2>1, <2>2 DEF Keeps, Replaces, Taken
  <2>4. QED
    BY <1>6, <1>11, <2>1, <2>2, <2>3
<1>12. Fresh'
  BY <1>8, <1>11 DEF Fresh
<1>13. ASSUME Replaces PROVE storage' \notin spent' /\ \A c \in Calls :
                               call'[c].token = storage' => call'[c].token = NoToken
  <2>1. storage' = NoToken \/ storage' \notin Taken
    BY <1>13 DEF Replaces, PanelInv, Fresh
  <2>2. NoToken \notin spent /\ spent \subseteq Taken
    BY <1>1, NoTokenIsNone DEF Browser, Taken
  <2>3. QED
    BY <1>6, <2>1, <2>2
<1>14. Watched'
  <2> SUFFICES ASSUME NEW c \in Calls, Spending(c)'
               PROVE  /\ call'[c].token # NoToken
                      /\ call'[c].token = storage' => forsaken' \/ req'[c].state = "leading"
    BY DEF Watched
  <2>1. CASE call'[c] = call[c]
    <3>1. /\ call[c].token # NoToken
          /\ call[c].token = storage => forsaken \/ req[c].state = "leading"
      BY <2>1 DEF PanelInv, Watched, Spending
    <3>2. QED
      BY <1>13, <2>1, <3>1 DEF Keeps
  <2>2. CASE call'[c] # call[c]
    BY <2>2 DEF Asks, Spending
  <2>3. QED
    BY <2>1, <2>2
<1>15. HeldTokenNotSpent'
  <2>1. CASE Replaces
    BY <1>13, <2>1 DEF HeldTokenNotSpent
  <2>2. CASE Keeps
    <3> SUFFICES ASSUME storage \in spent, ~forsaken'
                 PROVE  \E t \in Tabs : Leaders(t)' # {}
      BY <2>2 DEF HeldTokenNotSpent, Keeps
    <3>1. PICK t \in Tabs : Leaders(t) # {}
      BY <2>2 DEF PanelInv, HeldTokenNotSpent, Keeps
    <3>2. PICK c \in Leaders(t) : TRUE
      BY <3>1
    <3>3. c \in Leaders(t)'
      BY <2>2, <3>2 DEF Keeps, Leaders, SlotsOf
    <3>4. QED
      BY <3>3
  <2>3. QED
    BY <2>1, <2>2
<1>16. QED
  BY <1>7, <1>10, <1>12, <1>14, <1>15 DEF PanelInv

LEMMA ConsumeAsks ==
  ASSUME call \in [Calls -> Exchange], NEW c \in Calls, Consume(c)
  PROVE  /\ call' = [d \in Calls |-> call'[d]] /\ \A d \in Calls : Asks(d)
         /\ call'[c].pair = NoToken
<1> DEFINE a == Answered("idle", NoToken)
<1>1. a \in Exchange /\ a.at = "idle" /\ a.token = NoToken /\ a.pair = NoToken
  BY AnswerType DEF Finished
<1>2. call' = [call EXCEPT ![c] = a]
  BY DEF Consume, Answer
<1> HIDE DEF a
<1>3. call'[c] = a /\ \A d \in Calls \ {c} : call'[d] = call[d]
  BY <1>2
<1>4. QED
  BY <1>1, <1>2, <1>3 DEF Asks

LEMMA SendAsks ==
  ASSUME call \in [Calls -> Exchange], NEW S \in SUBSET Calls,
         NEW pair \in Token \cup {NoToken}, Send(S, pair), req' \in [Calls -> Requests],
         \A d \in Calls : req'[d].op # "refresh" /\ req'[d].body \in Taken \cup {NoToken}
  PROVE  /\ call' = [d \in Calls |-> call'[d]] /\ \A d \in Calls : Asks(d)
         /\ \A d \in S : call'[d].pair = NoToken
<1>1. call' = [d \in Calls |-> IF d \in S THEN Request(req'[d].op, pair, req'[d].body) ELSE call[d]]
  BY DEF Send
<1>2. \A d \in Calls : req'[d].op \in Ops /\ req'[d].body \in Token \cup {NoToken}
  BY DEF Requests
<1>3. ASSUME NEW d \in S PROVE Asks(d) /\ call'[d].pair = NoToken
  <2>1. call'[d] = Request(req'[d].op, pair, req'[d].body)
    BY <1>1
  <2>2. /\ call'[d] \in Exchange /\ call'[d].at = "sent" /\ call'[d].op = req'[d].op
        /\ call'[d].token = req'[d].body /\ call'[d].pair = NoToken
    <3> DEFINE op == req'[d].op
               token == req'[d].body
    <3>1. op \in Ops /\ token \in Token \cup {NoToken} /\ call'[d] = Request(op, pair, token)
      BY <1>2, <2>1
    <3> HIDE DEF op, token
    <3>2. /\ call'[d] \in Exchange /\ call'[d].at = "sent" /\ call'[d].op = op
          /\ call'[d].token = token /\ call'[d].pair = NoToken
      BY <3>1, RequestType
    <3>3. QED
      BY <3>2 DEF op, token
  <2>3. QED
    BY <2>2 DEF Asks
<1>4. ASSUME NEW d \in Calls \ S PROVE Asks(d)
  BY <1>1, <1>4 DEF Asks
<1>5. QED
  BY <1>1, <1>3, <1>4

(* The variables a proof about a step of the browser starts from.          *)
LEMMA Typed ==
  ASSUME PanelInv
  PROVE  /\ Browser /\ RefreshIsLed /\ call \in [Calls -> Exchange]
         /\ req \in [Calls -> Requests] /\ storage \in Taken \cap (Token \cup {NoToken})
         /\ \A d \in Calls : /\ req[d] \in Requests /\ req[d].body \in Taken
                             /\ req[d].op # "refresh" /\ Tab[d] \in Tabs
                             /\ call[d].pair \in Token \cup {NoToken}
<1>1. Browser /\ RefreshIsLed /\ call \in [Calls -> Exchange]
  BY DEF PanelInv, Inv, AuthTypeOK
<1>2. \A d \in Calls : call[d].pair \in Token \cup {NoToken}
  BY <1>1 DEF Exchange
<1>3. QED
  BY <1>1, <1>2, PanelAssumption DEF Browser, Taken

LEMMA BeginKeeps ==
  ASSUME PanelInv, NEW c \in Calls, NEW op \in Ops \ {"refresh"}, Begin(c, op)
  PROVE  PanelInv'
<1> DEFINE new == [state |-> "pending", op |-> op, retry |-> FALSE,
                   body |-> IF op = "logout" THEN storage ELSE NoToken]
<1>1. /\ req[c].state = "free" /\ req' = [req EXCEPT ![c] = new] /\ Send({c}, storage)
      /\ UNCHANGED <<server, storage, page, refreshing, spent, forsaken>>
  BY DEF Begin
<1>2. new \in Requests /\ new.state = "pending" /\ new.op # "refresh"
      /\ new.body \in Taken \cup {NoToken}
  BY Typed DEF Requests
<1> HIDE DEF new
<1>3. /\ req' \in [Calls -> Requests] /\ req'[c] = new
      /\ \A d \in Calls \ {c} : req'[d] = req[d]
  BY <1>1, <1>2, Typed
<1>4. \A d \in Calls : req'[d].op # "refresh" /\ req'[d].body \in Taken \cup {NoToken}
  BY <1>2, <1>3, Typed
<1>5. Browser'
  BY <1>1, <1>3, <1>4, Typed DEF Browser
<1>6. RefreshIsLed'
  BY <1>1, <1>2, <1>3, Typed, SameLed
<1>7. Keeps
  BY <1>1, <1>3 DEF Keeps
<1>8. call' = [d \in Calls |-> call'[d]] /\ \A d \in Calls : Asks(d)
  BY <1>1, <1>3, <1>4, Typed, SendAsks
<1>9. QED
  BY <1>1, <1>4, <1>5, <1>6, <1>7, <1>8, BrowserStep

(* The pages change and nothing else.                                      *)
LEMMA PageKeeps ==
  ASSUME PanelInv, page' \in [Tabs -> {"app", "login", "away"}],
         UNCHANGED <<authVars, storage, refreshing, req, spent, forsaken>>
  PROVE  PanelInv'
<1>1. UNCHANGED server /\ call' = call
  BY DEF authVars, server
<1>2. Browser'
  BY Typed DEF Browser
<1>3. RefreshIsLed'
  BY Typed, SameLed
<1>4. Keeps /\ \A d \in Calls : Asks(d)
  BY <1>1 DEF Keeps, Asks
<1>5. call' = [d \in Calls |-> call'[d]]
  BY <1>1, Typed
<1>6. QED
  BY <1>1, <1>2, <1>3, <1>4, <1>5, Typed, BrowserStep

LEMMA SucceedKeeps ==
  ASSUME PanelInv, NEW c \in Calls, Succeed(c)
  PROVE  PanelInv'
<1>1. /\ req[c].state = "pending" /\ Finish(c) /\ Consume(c)
      /\ UNCHANGED <<server, refreshing, spent>>
  BY DEF Succeed
<1>2. /\ req' \in [Calls -> Requests] /\ RefreshIsLed'
      /\ \A d \in Calls : /\ req'[d].op # "refresh" /\ req'[d].body \in {NoToken, req[d].body}
                          /\ req[d].state = "leading" => req'[d].state = "leading"
  BY <1>1, Typed, FinishKeeps
<1>3. /\ call' = [d \in Calls |-> call'[d]] /\ \A d \in Calls : Asks(d)
      /\ call'[c].pair = NoToken
  BY <1>1, Typed, ConsumeAsks
<1>4. /\ storage' \in Token \cup {NoToken} /\ forsaken' \in BOOLEAN
      /\ page' \in [Tabs -> {"app", "login", "away"}]
      /\ Keeps \/ Replaces
  <2>1. CASE req[c].op = "login"
    <3>1. /\ storage' = call[c].pair /\ forsaken' \in BOOLEAN
          /\ page' = [page EXCEPT ![Tab[c]] = "app"]
      BY <2>1 DEF Succeed
    <3>2. QED
      BY <1>3, <3>1, Typed DEF Replaces, Browser
  <2>2. CASE req[c].op \in {"logout", "logoutAll"}
    <3>1. ClearTokens /\ page' = [page EXCEPT ![Tab[c]] = "login"]
      BY <2>2 DEF Succeed
    <3>2. QED
      BY <3>1, Typed DEF Replaces, Browser, ClearTokens, SetTokens
  <2>3. CASE req[c].op \notin {"login", "logout", "logoutAll"}
    <3>1. UNCHANGED <<storage, page, forsaken>>
      BY <2>3 DEF Succeed
    <3>2. QED
      BY <1>2, <3>1, Typed DEF Keeps, Browser
  <2>4. QED
    BY <2>1, <2>2, <2>3
<1>5. Browser'
  BY <1>1, <1>2, <1>4, Typed DEF Browser
<1>6. QED
  BY <1>1, <1>2, <1>3, <1>4, <1>5, Typed, BrowserStep

LEMMA RejectKeeps ==
  ASSUME PanelInv, NEW c \in Calls, Reject(c)
  PROVE  PanelInv'
<1>1. /\ req[c].state = "pending" /\ Finish(c) /\ Consume(c)
      /\ UNCHANGED <<server, page, refreshing, spent>>
      /\ ClearTokens \/ UNCHANGED <<storage, forsaken>>
  BY DEF Reject
<1>2. /\ req' \in [Calls -> Requests] /\ RefreshIsLed'
      /\ \A d \in Calls : /\ req'[d].op # "refresh" /\ req'[d].body \in {NoToken, req[d].body}
                          /\ req[d].state = "leading" => req'[d].state = "leading"
  BY <1>1, Typed, FinishKeeps
<1>3. call' = [d \in Calls |-> call'[d]] /\ \A d \in Calls : Asks(d)
  BY <1>1, Typed, ConsumeAsks
<1>4. Keeps \/ Replaces
  BY <1>1, <1>2 DEF Keeps, Replaces, ClearTokens, SetTokens
<1>5. Browser'
  BY <1>1, <1>2, Typed DEF Browser, ClearTokens, SetTokens
<1>6. QED
  BY <1>1, <1>2, <1>3, <1>4, <1>5, Typed, BrowserStep

LEMMA DiscardKeeps ==
  ASSUME PanelInv, NEW c \in Calls, Discard(c)
  PROVE  PanelInv'
<1>1. /\ req[c].state = "gone" /\ Finish(c) /\ Consume(c)
      /\ UNCHANGED <<server, storage, page, refreshing, spent, forsaken>>
  BY DEF Discard
<1>2. /\ req' \in [Calls -> Requests] /\ RefreshIsLed'
      /\ \A d \in Calls : /\ req'[d].op # "refresh" /\ req'[d].body \in {NoToken, req[d].body}
                          /\ req[d].state = "leading" => req'[d].state = "leading"
  BY <1>1, Typed, FinishKeeps
<1>3. call' = [d \in Calls |-> call'[d]] /\ \A d \in Calls : Asks(d)
  BY <1>1, Typed, ConsumeAsks
<1>4. Keeps
  BY <1>1, <1>2 DEF Keeps
<1>5. Browser'
  BY <1>1, <1>2, Typed DEF Browser
<1>6. QED
  BY <1>1, <1>2, <1>3, <1>4, <1>5, Typed, BrowserStep

(* ------------------------------- refreshes ------------------------------ *)

(* A request that waits for the refresh of its tab.                        *)
LEMMA EnqueueKeeps ==
  ASSUME PanelInv, NEW c \in Calls, Enqueue(c)
  PROVE  PanelInv'
<1>1. /\ req[c].state = "pending" /\ refreshing[Tab[c]] /\ Consume(c)
      /\ req' = [req EXCEPT ![c].state = "queued"]
      /\ UNCHANGED <<server, storage, page, refreshing, spent, forsaken>>
  BY DEF Enqueue, Denied
<1>2. /\ req'[c].state = "queued" /\ req'[c].op = req[c].op /\ req'[c].body = req[c].body
      /\ req'[c] \in Requests
  BY <1>1, Typed DEF Requests
<1>3. /\ req' \in [Calls -> Requests] /\ \A d \in Calls \ {c} : req'[d] = req[d]
  BY <1>1, <1>2, Typed
<1>4. \A d \in Calls : req'[d].op # "refresh" /\ req'[d].body = req[d].body
  BY <1>2, <1>3, Typed
<1>5. Browser'
  BY <1>1, <1>3, <1>4, Typed DEF Browser
<1>6. RefreshIsLed'
  <2>1. \A t \in Tabs : Leaders(t)' = Leaders(t)
    BY <1>1, <1>2, <1>3 DEF Leaders, SlotsOf
  <2>2. \A t \in Tabs : Queue(t)' \subseteq IF t = Tab[c] THEN Queue(t) \cup {c} ELSE Queue(t)
    BY <1>2, <1>3 DEF Queue, SlotsOf
  <2>3. QED
    BY <1>1, <2>1, <2>2, Typed DEF RefreshIsLed
<1>7. Keeps
  BY <1>1, <1>2, <1>3 DEF Keeps
<1>8. call' = [d \in Calls |-> call'[d]] /\ \A d \in Calls : Asks(d)
  BY <1>1, Typed, ConsumeAsks
<1>9. QED
  BY <1>1, <1>4, <1>5, <1>6, <1>7, <1>8, Typed, BrowserStep

(* The first request of a tab that is answered 401.                        *)
LEMMA StartRefreshKeeps ==
  ASSUME PanelInv, NEW c \in Calls, StartRefresh(c)
  PROVE  PanelInv'
<1> DEFINE ask == Request("refresh", NoToken, storage)
<1>1. /\ req[c].state = "pending" /\ ~refreshing[Tab[c]] /\ storage # NoToken
      /\ refreshing' = [refreshing EXCEPT ![Tab[c]] = TRUE]
      /\ req' = [req EXCEPT ![c].state = "leading", ![c].retry = TRUE]
      /\ call' = [call EXCEPT ![c] = ask]
      /\ UNCHANGED <<server, storage, page, spent, forsaken>>
  BY DEF StartRefresh, Denied
<1>2. /\ req'[c].state = "leading" /\ req'[c].op = req[c].op /\ req'[c].body = req[c].body
      /\ req'[c] \in Requests
  BY <1>1, Typed DEF Requests
<1>3. /\ req' \in [Calls -> Requests] /\ \A d \in Calls \ {c} : req'[d] = req[d]
  BY <1>1, <1>2, Typed
<1>4. \A d \in Calls : req'[d].op # "refresh" /\ req'[d].body = req[d].body
  BY <1>2, <1>3, Typed
<1>5. /\ refreshing' \in [Tabs -> BOOLEAN] /\ refreshing'[Tab[c]] = TRUE
      /\ \A t \in Tabs \ {Tab[c]} : refreshing'[t] = refreshing[t]
  BY <1>1, Typed DEF Browser
<1>6. Browser'
  BY <1>1, <1>3, <1>4, <1>5, Typed DEF Browser
<1>7. RefreshIsLed'
  <2>1. Leaders(Tab[c]) = {}
    BY <1>1, Typed DEF RefreshIsLed
  <2>2. Leaders(Tab[c])' = {c}
    BY <1>2, <1>3, <2>1 DEF Leaders, SlotsOf
  <2>3. \A t \in Tabs \ {Tab[c]} : Leaders(t)' = Leaders(t) /\ Queue(t)' = Queue(t)
    BY <1>2, <1>3 DEF Leaders, Queue, SlotsOf
  <2>4. ASSUME NEW t \in Tabs
        PROVE  /\ refreshing'[t] <=> Leaders(t)' # {}
               /\ \A a, b \in Leaders(t)' : a = b
               /\ Queue(t)' # {} => refreshing'[t]
    <3>1. CASE t = Tab[c]
      BY <1>5, <2>2, <3>1
    <3>2. CASE t # Tab[c]
      BY <1>5, <2>3, <3>2, Typed DEF RefreshIsLed
    <3>3. QED
      BY <3>1, <3>2
  <2>5. QED
    BY <2>4, Zenon DEF RefreshIsLed
<1>8. Keeps
  BY <1>1, <1>2, <1>3 DEF Keeps
<1>9. call' = [d \in Calls |-> call'[d]] /\ \A d \in Calls : Asks(d)
  <2>1. /\ ask \in Exchange /\ ask.at = "sent" /\ ask.token = storage /\ ask.pair = NoToken
    <3>1. "refresh" \in Ops /\ storage \in Token \cup {NoToken} /\ NoToken \in Token \cup {NoToken}
      BY Typed DEF Ops
    <3>2. QED
      BY <3>1, RequestType
  <2> HIDE DEF ask
  <2>2. call'[c] = ask /\ \A d \in Calls \ {c} : call'[d] = call[d]
    BY <1>1, Typed
  <2>3. QED
    BY <1>1, <1>2, <2>1, <2>2, Typed DEF Asks
<1>10. QED
  BY <1>1, <1>4, <1>6, <1>7, <1>8, <1>9, Typed, BrowserStep

LEMMA LeaveForLoginKeeps ==
  ASSUME PanelInv, NEW c \in Calls, LeaveForLogin(c)
  PROVE  PanelInv'
<1>1. /\ ~refreshing[Tab[c]] /\ Consume(c) /\ Abandon(Tab[c], {c}) /\ Unload(Tab[c], "away")
      /\ UNCHANGED <<server, storage, spent, forsaken>>
  BY DEF LeaveForLogin
<1>2. /\ req' \in [Calls -> Requests] /\ RefreshIsLed'
      /\ page' \in [Tabs -> {"app", "login", "away"}] /\ refreshing' \in [Tabs -> BOOLEAN]
      /\ \A d \in Calls : /\ req'[d].op # "refresh" /\ req'[d].body \in {NoToken, req[d].body}
                          /\ Tab[d] # Tab[c] => req'[d] = req[d]
  BY <1>1, Typed, AbandonKeeps
<1>3. Browser'
  BY <1>1, <1>2, Typed DEF Browser
<1>4. Keeps
  <2>1. \A d \in Calls : req[d].state = "leading" => Tab[d] # Tab[c]
    BY <1>1, Typed DEF RefreshIsLed, Leaders, SlotsOf
  <2>2. QED
    BY <1>1, <1>2, <2>1 DEF Keeps
<1>5. call' = [d \in Calls |-> call'[d]] /\ \A d \in Calls : Asks(d)
  BY <1>1, Typed, ConsumeAsks
<1>6. QED
  BY <1>1, <1>2, <1>3, <1>4, <1>5, Typed, BrowserStep

(* The new pair is stored, and all that waited for it are sent again.      *)
LEMMA RefreshedKeeps ==
  ASSUME PanelInv, NEW c \in Calls, Refreshed(c)
  PROVE  PanelInv'
<1> DEFINE again == {c} \cup Queue(Tab[c])
           pair == call[c].pair
<1>1. /\ req[c].state = "leading" /\ SetTokens(pair) /\ Send(again, pair)
      /\ refreshing' = [refreshing EXCEPT ![Tab[c]] = FALSE]
      /\ req' = [d \in Calls |-> IF d \in again
                   THEN [req[d] EXCEPT !.state = "pending", !.retry = TRUE] ELSE req[d]]
      /\ UNCHANGED <<server, page, spent>>
  BY DEF Refreshed
<1>2. again \in SUBSET Calls /\ c \in again /\ pair \in Token \cup {NoToken}
  BY Typed DEF Queue, SlotsOf
<1>3. ASSUME NEW d \in Calls
      PROVE  /\ req'[d] \in Requests /\ req'[d].op = req[d].op /\ req'[d].body = req[d].body
             /\ req'[d].state = IF d \in again THEN "pending" ELSE req[d].state
  <2> HIDE DEF again
  <2>1. req[d] \in Requests
    BY Typed
  <2>2. req'[d] = IF d \in again
                  THEN [req[d] EXCEPT !.state = "pending", !.retry = TRUE] ELSE req[d]
    BY <1>1
  <2>3. QED
    BY <2>1, <2>2 DEF Requests
<1>4. /\ req' \in [Calls -> Requests]
      /\ \A d \in Calls : req'[d].op # "refresh" /\ req'[d].body \in Taken \cup {NoToken}
  <2>1. req' = [d \in Calls |-> req'[d]]
    BY <1>1
  <2>2. QED
    BY <1>3, <2>1, Typed
<1>5. /\ refreshing' \in [Tabs -> BOOLEAN] /\ refreshing'[Tab[c]] = FALSE
      /\ \A t \in Tabs \ {Tab[c]} : refreshing'[t] = refreshing[t]
  BY <1>1, Typed DEF Browser
<1>6. Browser'
  BY <1>1, <1>2, <1>4, <1>5, Typed DEF Browser, SetTokens
<1>7. RefreshIsLed'
  <2>1. Leaders(Tab[c]) = {c}
    <3>1. c \in Leaders(Tab[c])
      BY <1>1 DEF Leaders, SlotsOf
    <3>2. \A d \in Leaders(Tab[c]) : d = c
      BY <3>1, Typed DEF RefreshIsLed
    <3>3. QED
      BY <3>1, <3>2
  <2>2. Leaders(Tab[c])' = {} /\ Queue(Tab[c])' = {}
    BY <1>3, <2>1 DEF Leaders, Queue, SlotsOf
  <2>3. \A t \in Tabs \ {Tab[c]} : Leaders(t)' = Leaders(t) /\ Queue(t)' = Queue(t)
    BY <1>3 DEF Leaders, Queue, SlotsOf
  <2>4. QED
    BY <1>5, <2>2, <2>3, Typed DEF RefreshIsLed
<1> HIDE DEF again, pair
<1>8. /\ call' = [d \in Calls |-> call'[d]] /\ \A d \in Calls : Asks(d)
      /\ call'[c].pair = NoToken
  BY <1>1, <1>2, <1>4, Typed, SendAsks
<1>9. Replaces
  BY <1>1, <1>8 DEF Replaces, SetTokens, pair
<1>10. QED
  BY <1>1, <1>4, <1>6, <1>7, <1>8, <1>9, BrowserStep

LEMMA RefreshFailedKeeps ==
  ASSUME PanelInv, NEW c \in Calls, RefreshFailed(c)
  PROVE  PanelInv'
<1>1. /\ Consume(c) /\ ClearTokens /\ Abandon(Tab[c], {c}) /\ Unload(Tab[c], "away")
      /\ UNCHANGED <<server, spent>>
  BY DEF RefreshFailed
<1>2. /\ req' \in [Calls -> Requests] /\ RefreshIsLed'
      /\ page' \in [Tabs -> {"app", "login", "away"}] /\ refreshing' \in [Tabs -> BOOLEAN]
      /\ \A d \in Calls : req'[d].op # "refresh" /\ req'[d].body \in {NoToken, req[d].body}
  BY <1>1, Typed, AbandonKeeps
<1>3. Browser'
  BY <1>1, <1>2, Typed DEF Browser, ClearTokens, SetTokens
<1>4. Replaces
  BY <1>1 DEF Replaces, ClearTokens, SetTokens
<1>5. call' = [d \in Calls |-> call'[d]] /\ \A d \in Calls : Asks(d)
  BY <1>1, Typed, ConsumeAsks
<1>6. QED
  BY <1>1, <1>2, <1>3, <1>4, <1>5, Typed, BrowserStep

LEMMA OpenKeeps ==
  ASSUME PanelInv, NEW t \in Tabs, Open(t)
  PROVE  PanelInv'
<1> DEFINE where == IF storage = NoToken THEN "login" ELSE "app"
<1>1. /\ Abandon(t, {}) /\ Unload(t, where)
      /\ forsaken' = (forsaken \/ Leaders(t) # {})
      /\ UNCHANGED <<authVars, storage, spent>>
  BY DEF Open
<1>2. UNCHANGED server /\ call' = call
  BY <1>1 DEF authVars, server
<1>3. /\ req' \in [Calls -> Requests] /\ RefreshIsLed'
      /\ page' \in [Tabs -> {"app", "login", "away"}] /\ refreshing' \in [Tabs -> BOOLEAN]
      /\ \A d \in Calls : /\ req'[d].op # "refresh" /\ req'[d].body \in {NoToken, req[d].body}
                          /\ Tab[d] # t => req'[d] = req[d]
  <2>1. where \in {"app", "login", "away"} /\ {} \in SUBSET Calls
    OBVIOUS
  <2> HIDE DEF where
  <2>2. QED
    BY <1>1, <2>1, Typed, AbandonKeeps
<1>4. Browser'
  BY <1>1, <1>3, Typed DEF Browser
<1>5. Keeps
  <2>1. \A d \in Calls : req[d].state = "leading" /\ Tab[d] = t => forsaken'
    BY <1>1 DEF Leaders, SlotsOf
  <2>2. QED
    BY <1>1, <1>3, <2>1 DEF Keeps
<1>6. call' = [d \in Calls |-> call'[d]] /\ \A d \in Calls : Asks(d)
  BY <1>2, Typed DEF Asks
<1>7. QED
  BY <1>1, <1>2, <1>3, <1>4, <1>5, <1>6, Typed, BrowserStep

(* ------------------------- a step of the server ------------------------- *)

(* What the server makes of a request: it forgets what the request had, or *)
(* goes on with it, or answers with a pair of its own.                     *)
Served(d, c) ==
    /\ call'[d].token \in {NoToken, call[d].token}
    /\ \/ call'[d].pair \in {NoToken, call[d].pair}
       \/ /\ d = c /\ issued' = issued + 1
          /\ call'[d].pair.id = issued + 1 /\ call'[d].pair.root <= issued + 1
    /\ Spending(d)' => Spending(d) /\ call'[d].token = call[d].token

LEMMA ServerKeeps ==
  ASSUME PanelInv, Inv', issued' \in {issued, issued + 1}, NEW c,
         \A d \in Calls : Served(d, c),
         \/ spent' = spent
         \/ \E d \in Calls : Spending(d) /\ call[d].token \in Token
                               /\ spent' = spent \cup {call[d].token},
         UNCHANGED <<storage, page, refreshing, req, forsaken>>
  PROVE  PanelInv'
<1>1. issued \in Nat /\ issued <= issued' /\ NoToken.id = 0
  BY DEF PanelInv, Inv, AuthTypeOK, NoToken
<1>2. Browser'
  BY Typed DEF Browser
<1>3. RefreshIsLed'
  BY Typed, SameLed
<1>4. Taken' \subseteq Taken \cup {NoToken}
  <2>1. \A d \in Calls : call'[d].token \in {NoToken, call[d].token}
    BY DEF Served
  <2>2. QED
    BY <2>1 DEF Taken
<1>5. \A t \in Taken \cup {NoToken} :
        t.id <= issued /\ t.root <= issued /\ t.id \in Nat /\ t.root \in Nat
  <2>1. \A t \in Taken \cup {NoToken} : Drawn(t)
    BY <1>1, NoTokenDrawn DEF PanelInv, AllDrawn
  <2>2. Taken \subseteq Token \cup {NoToken}
    BY Typed DEF Taken, Browser, Requests, Exchange
  <2>3. \A t \in Token \cup {NoToken} : t.id \in Nat /\ t.root \in Nat
    BY DEF Token, NoToken
  <2>4. QED
    BY <2>1, <2>2, <2>3 DEF Drawn
<1>6. \A d \in Calls : /\ call[d].pair.id <= issued /\ call[d].pair.root <= issued
                       /\ call[d].pair.id \in Nat /\ call[d].pair.root \in Nat
  <2>1. \A t \in Token \cup {NoToken} : t.id \in Nat /\ t.root \in Nat
    BY DEF Token, NoToken
  <2>2. QED
    BY <2>1, Typed DEF PanelInv, AllDrawn, Drawn
<1>7. ASSUME NEW d \in Calls PROVE call'[d].pair.id <= issued' /\ call'[d].pair.root <= issued'
  BY <1>1, <1>5, <1>6 DEF Served
<1>8. AllDrawn'
  <2>1. \A t \in Taken' : t.id <= issued' /\ t.root <= issued'
    BY <1>1, <1>4, <1>5
  <2>2. QED
    BY <1>7, <2>1 DEF AllDrawn, Drawn
<1>9. ASSUME NEW d \in Calls, call'[d].pair # NoToken
      PROVE  /\ call'[d].pair \notin Taken'
             /\ \A e \in Calls \ {d} : call'[e].pair # call'[d].pair
  <2>1. CASE call'[d].pair = call[d].pair
    <3>1. call[d].pair \notin Taken /\ \A e \in Calls \ {d} : call[e].pair # call[d].pair
      BY <1>9, <2>1 DEF PanelInv, Fresh
    <3>2. \A e \in Calls \ {d} :
            call'[e].pair \in {NoToken, call[e].pair} \/ call'[e].pair.id = issued + 1
      BY DEF Served
    <3>3. call[d].pair.id # issued + 1
      BY <1>1, <1>6
    <3>4. QED
      BY <1>4, <1>9, <2>1, <3>1, <3>2, <3>3
  <2>2. CASE call'[d].pair # call[d].pair
    <3>1. d = c /\ issued' = issued + 1 /\ call'[d].pair.id = issued + 1
      BY <1>9, <2>2 DEF Served
    <3>2. \A e \in Calls \ {d} : call'[e].pair \in {NoToken, call[e].pair}
      BY <3>1 DEF Served
    <3>3. \A e \in Calls \ {d} : call'[e].pair.id # issued + 1
      BY <1>1, <1>6, <3>2
    <3>4. \A t \in Taken' : t.id # issued + 1
      BY <1>1, <1>4, <1>5
    <3>5. QED
      BY <3>1, <3>3, <3>4
  <2>3. QED
    BY <2>1, <2>2
<1>10. Fresh'
  BY <1>9 DEF Fresh
<1>11. Watched'
  <2> SUFFICES ASSUME NEW d \in Calls, Spending(d)'
               PROVE  /\ call'[d].token # NoToken
                      /\ call'[d].token = storage' => forsaken' \/ req'[d].state = "leading"
    BY DEF Watched
  <2>1. Spending(d) /\ call'[d].token = call[d].token
    BY DEF Served
  <2>2. QED
    BY <2>1 DEF PanelInv, Watched
<1>12. HeldTokenNotSpent'
  <2>1. \A t \in Tabs : Leaders(t)' = Leaders(t)
    BY DEF Leaders, SlotsOf
  <2>2. CASE storage \in spent \/ storage \notin spent'
    BY <2>1, <2>2 DEF PanelInv, HeldTokenNotSpent
  <2>3. CASE storage \notin spent /\ storage \in spent'
    <3>1. PICK d \in Calls : Spending(d) /\ call[d].token = storage
      BY <2>3
    <3>2. forsaken \/ d \in Leaders(Tab[d])
      BY <3>1 DEF PanelInv, Watched, Leaders, SlotsOf
    <3>3. QED
      BY <2>1, <3>2, Typed DEF HeldTokenNotSpent
  <2>4. QED
    BY <2>2, <2>3
<1>13. QED
  BY <1>2, <1>3, <1>8, <1>10, <1>11, <1>12 DEF PanelInv

(* How a handler leaves its own request and those of others.               *)
LEMMA AnswerServed ==
  ASSUME call \in [Calls -> Exchange], NEW c \in Calls, NEW status \in Finished, Answer(c, status)
  PROVE  \A d \in Calls : Served(d, c)
<1> DEFINE a == Answered(status, NoToken)
<1>1. a.at = status /\ a.token = NoToken /\ a.pair = NoToken
  BY AnswerType
<1>2. call' = [call EXCEPT ![c] = a]
  BY DEF Answer
<1> HIDE DEF a
<1>3. QED
  BY <1>1, <1>2 DEF Served, Spending, Finished

LEMMA ProceedServed ==
  ASSUME call \in [Calls -> Exchange], NEW c \in Calls, NEW stage \in Stages, Proceed(c, stage),
         Spending(c) \/ stage \in {"dropped", "authed"}
  PROVE  \A d \in Calls : Served(d, c)
<1>1. /\ call'[c].at = stage /\ call'[c].op = call[c].op /\ call'[c].token = call[c].token
      /\ call'[c].pair = call[c].pair
  BY DEF Proceed, Exchange
<1>2. \A d \in Calls \ {c} : call'[d] = call[d]
  BY DEF Proceed
<1>3. QED
  BY <1>1, <1>2 DEF Served, Spending

LEMMA GrantServed ==
  ASSUME PanelInv, NEW c \in Calls, NEW root \in Nat, root <= issued + 1, Grant(c, root)
  PROVE  /\ issued' = issued + 1 /\ call'[c].at = "ok"
         /\ \A d \in Calls : Served(d, c)
<1> DEFINE pair == [id |-> issued + 1, root |-> root, born |-> now]
           a == Answered("ok", pair)
<1>1. /\ a.at = "ok" /\ a.token = NoToken /\ a.pair.id = issued + 1 /\ a.pair.root = root
  BY DEF Answered
<1>2. call' = [call EXCEPT ![c] = a] /\ issued' = issued + 1
  BY DEF Grant
<1> HIDE DEF a
<1>3. call'[c] = a /\ \A d \in Calls \ {c} : call'[d] = call[d]
  BY <1>2, Typed
<1>4. QED
  BY <1>1, <1>2, <1>3 DEF Served, Spending

LEMMA ServeServed ==
  ASSUME PanelInv, NEW c \in Calls, Serve(c) \/ AnswerLost(c)
  PROVE  issued' \in {issued, issued + 1} /\ \A d \in Calls : Served(d, c)
<1>1. call \in [Calls -> Exchange] /\ issued \in Nat
  BY Typed DEF PanelInv, Inv, AuthTypeOK
<1>2. /\ {"denied", "failed", "ok", "lost", "idle"} \subseteq Finished
      /\ {"found", "dropped", "authed"} \subseteq Stages
  BY DEF Finished, Stages
<1>3. CASE Login(c)
  <2>1. Grant(c, issued + 1) /\ issued + 1 \in Nat
    BY <1>1, <1>3 DEF Login
  <2>2. QED
    BY <1>1, <2>1, GrantServed
<1>4. CASE StoreToken(c)
  <2>1. call[c].token \in Token /\ call[c].token.root <= issued /\ Grant(c, call[c].token.root)
    BY <1>4 DEF StoreToken, Running, PanelInv, Inv, Holds, Numbered
  <2>2. call[c].token.root \in Nat /\ call[c].token.root <= issued + 1
    BY <1>1, <2>1 DEF Token
  <2>3. QED
    BY <2>1, <2>2, GrantServed
<1>5. CASE FindToken(c)
  <2>1. issued' = issued /\ Spending(c) /\ (Proceed(c, "found") \/ Answer(c, "denied"))
    BY <1>5 DEF FindToken, Running, Spending
  <2>2. QED
    BY <1>1, <1>2, <2>1, AnswerServed, ProceedServed
<1>6. CASE DropToken(c) \/ DropTokenFails(c)
  <2>1. issued' = issued /\ Proceed(c, "dropped")
    BY <1>6 DEF DropToken, DropTokenFails
  <2>2. QED
    BY <1>1, <1>2, <2>1, ProceedServed
<1>7. CASE Authenticate(c)
  <2>1. /\ issued' = issued
        /\ \/ \E status \in {"ok", "denied"} : Answer(c, status)
           \/ Proceed(c, "authed")
    BY <1>7 DEF Authenticate
  <2>2. QED
    BY <1>1, <1>2, <2>1, AnswerServed, ProceedServed
<1>8. CASE LoginRefused(c) \/ LoginFails(c) \/ FindTokenFails(c) \/ StoreTokenFails(c)
           \/ Logout(c) \/ LogoutFails(c) \/ LogoutAll(c) \/ LogoutAllFails(c) \/ AnswerLost(c)
  <2>1. issued' = issued /\ \E status \in {"ok", "denied", "failed", "lost"} : Answer(c, status)
    BY <1>8 DEF LoginRefused, LoginFails, FindTokenFails, StoreTokenFails, Logout, LogoutFails,
       LogoutAll, LogoutAllFails, AnswerLost
  <2>2. QED
    BY <1>1, <1>2, <2>1, AnswerServed
<1>9. QED
  BY <1>3, <1>4, <1>5, <1>6, <1>7, <1>8 DEF Serve

LEMMA ServerStepKeeps ==
  ASSUME PanelInv, NEW c \in Calls, ServerStep(c)
  PROVE  PanelInv'
<1>1. /\ Serve(c) \/ AnswerLost(c)
      /\ UNCHANGED <<storage, page, refreshing, req, forsaken>>
      /\ spent' = IF Running(c, "refresh", "found") /\ call'[c].at = "dropped"
                  THEN spent \cup {call[c].token} ELSE spent
  BY DEF ServerStep
<1>2. Inv'
  BY <1>1, NextInv DEF AuthNext, PanelInv
<1>3. \/ spent' = spent
      \/ Spending(c) /\ call[c].token \in Token /\ spent' = spent \cup {call[c].token}
  BY <1>1 DEF Running, Spending, PanelInv, Inv, Holds
<1>4. QED
  BY <1>1, <1>2, <1>3, ServeServed, ServerKeeps

LEMMA ElsewhereKeeps ==
  ASSUME PanelInv, Tick \/ Crash, UNCHANGED panelVars
  PROVE  PanelInv'
<1>1. Inv'
  BY NextInv DEF AuthNext, PanelInv
<1>2. UNCHANGED <<storage, page, refreshing, req, forsaken, spent>> /\ issued' = issued
  BY DEF panelVars, Tick, Crash
<1> DEFINE a == Answered("lost", NoToken)
<1>3. a.at = "lost" /\ a.token = NoToken /\ a.pair = NoToken
  BY DEF Answered
<1> HIDE DEF a
<1>4. \A d \in Calls : call'[d] \in {call[d], a}
  BY DEF Tick, Crash, a
<1>5. \A d \in Calls : Served(d, 0)
  BY <1>3, <1>4 DEF Served, Spending
<1>6. QED
  BY <1>1, <1>2, <1>5, ServerKeeps

(* ----------------------------- the invariant ---------------------------- *)

LEMMA PanelInitInv == PanelInit => PanelInv
<1> SUFFICES ASSUME PanelInit PROVE PanelInv
  OBVIOUS
<1>1. Inv
  BY InitInv DEF PanelInit
<1> DEFINE a == Answered("idle", NoToken)
<1>2. a.at = "idle" /\ a.token = NoToken /\ a.pair = NoToken
  BY DEF Answered
<1> HIDE DEF a
<1>3. /\ storage = NoToken /\ spent = {} /\ forsaken = FALSE /\ issued = 0
      /\ page = [t \in Tabs |-> "login"] /\ refreshing = [t \in Tabs |-> FALSE]
      /\ req = [c \in Calls |-> Free] /\ \A c \in Calls : call[c] = a
  BY DEF PanelInit, AuthInit, a
<1>4. Browser
  BY <1>3, FreeType DEF Browser
<1>5. RefreshIsLed
  BY <1>3, FreeType DEF RefreshIsLed, Leaders, Queue, SlotsOf
<1>6. Taken \subseteq {NoToken} /\ Drawn(NoToken)
  BY <1>2, <1>3, FreeType, NoTokenDrawn DEF Taken
<1>7. AllDrawn /\ Fresh /\ Watched /\ HeldTokenNotSpent
  BY <1>2, <1>3, <1>6 DEF AllDrawn, Fresh, Watched, Spending, HeldTokenNotSpent
<1>8. QED
  BY <1>1, <1>4, <1>5, <1>7 DEF PanelInv

LEMMA PanelStep ==
  ASSUME PanelInv, [PanelNext]_vars
  PROVE  PanelInv'
<1>1. ASSUME NEW c \in Calls, Receive(c) PROVE PanelInv'
  BY <1>1, SucceedKeeps, RejectKeeps, EnqueueKeeps, StartRefreshKeeps, LeaveForLoginKeeps,
     RefreshedKeeps, RefreshFailedKeeps, DiscardKeeps DEF Receive
<1>2. ASSUME NEW t \in Tabs, LogoutLocally(t) \/ Redirect(t) PROVE PanelInv'
  <2>1. /\ page' \in [Tabs -> {"app", "login", "away"}]
        /\ UNCHANGED <<authVars, storage, refreshing, req, spent, forsaken>>
    BY <1>2, Typed DEF LogoutLocally, Redirect, Browser
  <2>2. QED
    BY <2>1, PageKeeps
<1>3. CASE UNCHANGED vars
  <2>1. UNCHANGED <<authVars, storage, refreshing, req, spent, forsaken>> /\ page' = page
    BY <1>3 DEF vars, panelVars
  <2>2. QED
    BY <2>1, Typed, PageKeeps DEF Browser
<1>4. QED
  BY <1>1, <1>2, <1>3, ElsewhereKeeps, ServerStepKeeps, BeginKeeps, OpenKeeps DEF PanelNext

LEMMA PanelInvariance == PanelSpec => []PanelInv
<1>1. PanelInv /\ [PanelNext]_vars => PanelInv'
  BY PanelStep
<1>2. QED
  BY <1>1, PanelInitInv, PTL DEF PanelSpec

(* ------------------------------- theorems ------------------------------- *)

(* The panel's state and the server's are of their types.                  *)
THEOREM PanelTypeCorrect == PanelSpec => []PanelTypeOK
<1>1. PanelInv => PanelTypeOK
  BY DEF PanelInv, Inv, Browser, PanelTypeOK, Requests
<1>2. QED
  BY <1>1, PanelInvariance, PTL

(* A tab refreshes at most once at a time, and its flag says so: a request *)
(* that waits has a refresh that will resume or refuse it, for any number  *)
(* of tabs and requests.                                                   *)
THEOREM RefreshLedCorrect == PanelSpec => []RefreshIsLed
<1>1. PanelInv => RefreshIsLed
  BY DEF PanelInv
<1>2. QED
  BY <1>1, PanelInvariance, PTL

(* The refresh token in local storage has not been used up, unless a tab   *)
(* is refreshing or was reloaded while it did, for any number of tabs,     *)
(* requests, failures and logins.                                          *)
THEOREM HeldTokenCorrect == PanelSpec => []HeldTokenNotSpent
<1>1. PanelInv => HeldTokenNotSpent
  BY DEF PanelInv
<1>2. QED
  BY <1>1, PanelInvariance, PTL

(* The panel is one more client of the service: whatever its tabs send, a  *)
(* session is worth one refresh token (OneTokenPerSession).                *)
THEOREM PanelOneToken == PanelSpec => []OneTokenPerSession
<1>1. PanelInv => OneTokenPerSession
  BY DEF PanelInv, Inv
<1>2. QED
  BY <1>1, PanelInvariance, PTL

(* ---------------------------- keeping a session ------------------------- *)

(* What the service is doing for a request of the panel.                   *)
Doing(c) == IF req[c].state = "leading" THEN "refresh" ELSE req[c].op

(* It does what was asked, and a pair comes with the answer to a login or  *)
(* a refresh that succeeded.                                               *)
Linked ==
    \A c \in Calls : req[c].state \in {"pending", "leading"} =>
        /\ call[c].at \notin Finished => call[c].op = Doing(c)
        /\ call[c].at = "ok" /\ Doing(c) \in {"login", "refresh"} => call[c].pair # NoToken

(* What the browser may do with a request and its exchange: it ends, or is *)
(* left alone, or is sent.                                                 *)
Moves(c) ==
    \/ req'[c].state \notin {"pending", "leading"}
    \/ call'[c] = call[c] /\ req'[c] = req[c]
    \/ call'[c].at = "sent" /\ call'[c].op = Doing(c)'

LEMMA MovesLink ==
  ASSUME Linked, \A c \in Calls : Moves(c)
  PROVE  Linked'
<1> SUFFICES ASSUME NEW c \in Calls, req'[c].state \in {"pending", "leading"}
             PROVE  /\ call'[c].at \notin Finished => call'[c].op = Doing(c)'
                    /\ call'[c].at = "ok" /\ Doing(c)' \in {"login", "refresh"}
                         => call'[c].pair # NoToken
  BY DEF Linked
<1>1. CASE call'[c] = call[c] /\ req'[c] = req[c]
  BY <1>1 DEF Linked, Doing
<1>2. CASE call'[c].at = "sent" /\ call'[c].op = Doing(c)'
  BY <1>2
<1>3. QED
  BY <1>1, <1>2 DEF Moves

LEMMA BeginMoves ==
  ASSUME PanelInv, NEW c \in Calls, NEW op \in Ops, Begin(c, op)
  PROVE  \A d \in Calls : Moves(d)
<1> DEFINE new == [state |-> "pending", op |-> op, retry |-> FALSE,
                   body |-> IF op = "logout" THEN storage ELSE NoToken]
<1>1. req' = [req EXCEPT ![c] = new] /\ Send({c}, storage)
  BY DEF Begin
<1>2. new.state = "pending" /\ new.op = op
  OBVIOUS
<1> HIDE DEF new
<1>3. req'[c] = new /\ \A d \in Calls \ {c} : req'[d] = req[d]
  BY <1>1, Typed
<1>4. /\ call'[c].at = "sent" /\ call'[c].op = req'[c].op
      /\ \A d \in Calls \ {c} : call'[d] = call[d]
  BY <1>1 DEF Send, Request
<1>5. QED
  BY <1>2, <1>3, <1>4 DEF Moves, Doing

(* A request that is over, and one that waits.                             *)
LEMMA FinishMoves ==
  ASSUME PanelInv, NEW c \in Calls, req'[c].state \in {"free", "queued"},
         \A d \in Calls \ {c} : req'[d] = req[d], Consume(c)
  PROVE  \A d \in Calls : Moves(d)
<1>1. \A d \in Calls \ {c} : call'[d] = call[d]
  BY Typed DEF Consume, Answer
<1>2. QED
  BY <1>1 DEF Moves

(* What becomes of the requests of a page that is loaded again.            *)
LEMMA AbandonMoves ==
  ASSUME NEW t \in Tabs, NEW done, Abandon(t, done),
         \A d \in Calls : Tab[d] # t => call'[d] = call[d]
  PROVE  /\ \A d \in Calls : Moves(d)
         /\ \A d \in Calls : Tab[d] = t => req'[d].state # "leading"
<1>1. \A d \in Calls : /\ Tab[d] # t => req'[d] = req[d]
                       /\ Tab[d] = t => req'[d] \in {Free, [Free EXCEPT !.state = "gone"]}
  BY DEF Abandon
<1>2. Free.state = "free" /\ [Free EXCEPT !.state = "gone"].state = "gone"
  BY DEF Free
<1>3. QED
  BY <1>1, <1>2 DEF Moves

LEMMA StartRefreshMoves ==
  ASSUME PanelInv, NEW c \in Calls, StartRefresh(c)
  PROVE  /\ \A d \in Calls : Moves(d)
         /\ req'[c].state = "leading" /\ call'[c].at = "sent" /\ call'[c].op = "refresh"
         /\ call'[c].token = storage
         /\ \A d \in Calls \ {c} : req'[d] = req[d] /\ call'[d] = call[d]
<1>1. /\ req' = [req EXCEPT ![c].state = "leading", ![c].retry = TRUE]
      /\ call' = [call EXCEPT ![c] = Request("refresh", NoToken, storage)]
  BY DEF StartRefresh
<1>2. req'[c].state = "leading" /\ \A d \in Calls \ {c} : req'[d] = req[d]
  BY <1>1, Typed DEF Requests
<1>3. /\ call'[c].at = "sent" /\ call'[c].op = "refresh" /\ call'[c].token = storage
      /\ \A d \in Calls \ {c} : call'[d] = call[d]
  BY <1>1, Typed DEF Request
<1>4. QED
  BY <1>2, <1>3 DEF Moves, Doing

LEMMA RefreshedMoves ==
  ASSUME PanelInv, NEW c \in Calls, Refreshed(c)
  PROVE  /\ \A d \in Calls : Moves(d)
         /\ req'[c].state = "pending" /\ storage' = call[c].pair
         /\ \A d \in Calls \ {c} : req'[d].state = "leading" => req[d].state = "leading"
<1> DEFINE again == {c} \cup Queue(Tab[c])
<1>1. /\ req' = [d \in Calls |-> IF d \in again
                   THEN [req[d] EXCEPT !.state = "pending", !.retry = TRUE] ELSE req[d]]
      /\ Send(again, call[c].pair) /\ storage' = call[c].pair
  BY DEF Refreshed, SetTokens
<1>2. again \subseteq Calls /\ c \in again
  BY DEF Queue, SlotsOf
<1> HIDE DEF again
<1>3. \A d \in Calls : /\ d \in again => req'[d].state = "pending"
                       /\ d \notin again => req'[d] = req[d]
  BY <1>1, Typed DEF Requests
<1>4. \A d \in Calls :
        /\ d \in again => call'[d].at = "sent" /\ call'[d].op = req'[d].op
        /\ d \notin again => call'[d] = call[d]
  BY <1>1 DEF Send, Request
<1>5. QED
  BY <1>1, <1>2, <1>3, <1>4 DEF Moves, Doing

LEMMA ReceiveMoves ==
  ASSUME PanelInv, NEW c \in Calls, Receive(c)
  PROVE  \A d \in Calls : Moves(d)
<1>1. Free.state = "free"
  BY DEF Free
<1>2. CASE Succeed(c) \/ Reject(c) \/ Discard(c)
  <2>1. req' = [req EXCEPT ![c] = Free] /\ Consume(c)
    BY <1>2 DEF Succeed, Reject, Discard, Finish
  <2>2. req'[c] = Free /\ \A d \in Calls \ {c} : req'[d] = req[d]
    BY <2>1, Typed
  <2>3. QED
    BY <1>1, <2>1, <2>2, FinishMoves
<1>3. CASE Enqueue(c)
  <2>1. req' = [req EXCEPT ![c].state = "queued"] /\ Consume(c)
    BY <1>3 DEF Enqueue
  <2>2. req'[c].state = "queued" /\ \A d \in Calls \ {c} : req'[d] = req[d]
    BY <2>1, Typed DEF Requests
  <2>3. QED
    BY <2>1, <2>2, FinishMoves
<1>4. CASE LeaveForLogin(c) \/ RefreshFailed(c)
  <2>1. Abandon(Tab[c], {c}) /\ Consume(c) /\ Tab[c] \in Tabs
    BY <1>4, Typed DEF LeaveForLogin, RefreshFailed
  <2>2. \A d \in Calls : d # c => call'[d] = call[d]
    BY <2>1, Typed DEF Consume, Answer
  <2>3. QED
    BY <2>1, <2>2, AbandonMoves
<1>5. QED
  BY <1>2, <1>3, <1>4, StartRefreshMoves, RefreshedMoves DEF Receive

(* What the service does with an exchange.                                 *)
LEMMA ServeEffect ==
  ASSUME PanelInv, NEW c \in Calls, Serve(c)
  PROVE  /\ \A d \in Calls \ {c} : call'[d] = call[d]
         /\ call[c].at \notin Finished
         /\ \/ call'[c].at \in {"denied", "failed"}
            \/ call'[c].at \notin Finished /\ call'[c].op = call[c].op
            \/ /\ call'[c].at = "ok"
               /\ call[c].op \in {"login", "refresh"} => call'[c].pair # NoToken
<1>1. call \in [Calls -> Exchange] /\ issued \in Nat
  BY Typed DEF PanelInv, Inv, AuthTypeOK
<1>2. ASSUME NEW x, call' = [call EXCEPT ![c] = x]
      PROVE  call'[c] = x /\ \A d \in Calls \ {c} : call'[d] = call[d]
  BY <1>1, <1>2
<1>3. ASSUME NEW status, Answer(c, status)
      PROVE  call'[c].at = status /\ \A d \in Calls \ {c} : call'[d] = call[d]
  BY <1>2, <1>3 DEF Answer, Answered
<1>4. ASSUME NEW stage, Proceed(c, stage)
      PROVE  /\ call'[c].at = stage /\ call'[c].op = call[c].op
             /\ \A d \in Calls \ {c} : call'[d] = call[d]
  BY <1>1, <1>4 DEF Proceed, Exchange
<1>5. ASSUME NEW root, Grant(c, root)
      PROVE  /\ call'[c].at = "ok" /\ call'[c].pair # NoToken
             /\ \A d \in Calls \ {c} : call'[d] = call[d]
  <2> DEFINE pair == [id |-> issued + 1, root |-> root, born |-> now]
  <2>1. call' = [call EXCEPT ![c] = Answered("ok", pair)] /\ pair.id = issued + 1
    BY <1>5 DEF Grant
  <2>2. pair # NoToken
    BY <1>1, <2>1 DEF NoToken
  <2> HIDE DEF pair
  <2>3. QED
    BY <1>2, <2>1, <2>2 DEF Answered
<1>6. "sent" \notin Finished /\ "found" \notin Finished /\ "dropped" \notin Finished
      /\ "authed" \notin Finished
  BY DEF Finished
<1>7. CASE Login(c) \/ StoreToken(c)
  BY <1>5, <1>6, <1>7 DEF Login, StoreToken, Running
<1>8. CASE LoginRefused(c) \/ LoginFails(c) \/ FindTokenFails(c) \/ StoreTokenFails(c)
           \/ LogoutAllFails(c)
  BY <1>3, <1>6, <1>8 DEF LoginRefused, LoginFails, FindTokenFails, StoreTokenFails,
     LogoutAllFails, Running
<1>9. CASE Logout(c) \/ LogoutFails(c) \/ LogoutAll(c)
  BY <1>3, <1>6, <1>9 DEF Logout, LogoutFails, LogoutAll, Running
<1>10. CASE FindToken(c)
  BY <1>3, <1>4, <1>6, <1>10 DEF FindToken, Running
<1>11. CASE DropToken(c) \/ DropTokenFails(c)
  BY <1>4, <1>6, <1>11 DEF DropToken, DropTokenFails, Running
<1>12. CASE Authenticate(c)
  <2>1. call[c].op \notin {"login", "refresh"} /\ call[c].at = "sent"
    BY <1>12 DEF Authenticate
  <2>2. QED
    BY <1>3, <1>4, <1>6, <1>12, <2>1 DEF Authenticate
<1>13. QED
  BY <1>7, <1>8, <1>9, <1>10, <1>11, <1>12 DEF Serve

LEMMA LinkedStep ==
  ASSUME PanelInv, Linked, [PanelNext]_vars
  PROVE  Linked'
<1>1. ASSUME UNCHANGED <<call, req>> PROVE \A d \in Calls : Moves(d)
  BY <1>1 DEF Moves
<1>2. ASSUME NEW c \in Calls, ServerStep(c) PROVE Linked'
  <2>1. req' = req /\ (Serve(c) \/ AnswerLost(c))
    BY <1>2 DEF ServerStep
  <2>2. \A d \in Calls : Doing(d)' = Doing(d)
    BY <2>1 DEF Doing
  <2>3. CASE AnswerLost(c)
    <3>1. call'[c].at = "lost" /\ \A d \in Calls \ {c} : call'[d] = call[d]
      BY <2>3, Typed DEF AnswerLost, Answer, Answered
    <3>2. "lost" \in Finished
      BY DEF Finished
    <3>3. QED
      BY <2>1, <2>2, <3>1, <3>2 DEF Linked
  <2>4. CASE Serve(c)
    <3>1. "denied" \in Finished /\ "failed" \in Finished /\ "ok" \in Finished
      BY DEF Finished
    <3>2. QED
      BY <2>1, <2>2, <2>4, <3>1, ServeEffect DEF Linked
  <2>5. QED
    BY <2>1, <2>3, <2>4
<1>3. CASE Crash /\ UNCHANGED panelVars
  <2>1. req' = req /\ \A d \in Calls : call'[d] = call[d] \/ call'[d].at = "lost"
    BY <1>3 DEF Crash, panelVars, Answered
  <2>2. "lost" \in Finished
    BY DEF Finished
  <2>3. QED
    BY <2>1, <2>2 DEF Linked, Doing
<1>4. ASSUME NEW t \in Tabs, Open(t) PROVE Linked'
  BY <1>4, AbandonMoves, MovesLink DEF Open, authVars
<1>5. CASE Tick /\ UNCHANGED panelVars
  BY <1>1, <1>5, MovesLink DEF Tick, panelVars
<1>6. ASSUME NEW t \in Tabs, LogoutLocally(t) \/ Redirect(t) PROVE Linked'
  BY <1>1, <1>6, MovesLink DEF LogoutLocally, Redirect, authVars
<1>7. CASE UNCHANGED vars
  BY <1>1, <1>7, MovesLink DEF vars, authVars, panelVars
<1>8. ASSUME NEW c \in Calls, Receive(c) \/ \E op \in Ops \ {"refresh"} : Begin(c, op)
      PROVE  Linked'
  BY <1>8, ReceiveMoves, BeginMoves, MovesLink
<1>9. QED
  BY <1>2, <1>3, <1>4, <1>5, <1>6, <1>7, <1>8 DEF PanelNext

(* The circumstances the property is about: one tab, no failing statement, *)
(* connection or process, and no time for a refresh token to expire.       *)
Calm == (\A t, u \in Tabs : t = u) /\ MaxFaults = 0 /\ MaxTime <= RefreshTTL

(* In these, a refresh that nobody has forsaken is about the token in      *)
(* local storage, which is not spent before the refresh itself does; it is *)
(* turned down only if the token is gone otherwise.                        *)
Kept ==
    \A c \in Calls : req[c].state = "leading" /\ ~forsaken /\ storage # NoToken =>
        /\ call[c].at \in {"sent", "found", "dropped", "ok", "denied"}
        /\ call[c].at \in {"sent", "found"} => call[c].token = storage /\ storage \notin spent
        /\ call[c].at = "denied" => storage \notin rows \cup spent

KeptInv == now <= MaxTime /\ Kept

(* Refreshes that go on as before, or that nobody cares about any more.    *)
LEMMA KeptAsBefore ==
  ASSUME Kept, spent' = spent, rows' = rows,
         \A c \in Calls : req'[c].state = "leading" =>
                            req[c].state = "leading" /\ call'[c] = call[c],
         \/ storage' = storage /\ (forsaken => forsaken')
         \/ storage' = NoToken
         \/ \A c \in Calls : req'[c].state = "leading" => forsaken'
  PROVE  Kept'
BY DEF Kept

LEMMA LoneLeader ==
  ASSUME PanelInv, Calm, NEW c \in Calls, NEW d \in Calls,
         req[c].state = "leading"
  PROVE  refreshing[Tab[d]] /\ (req[d].state = "leading" => c = d)
<1>1. Tab[c] \in Tabs /\ Tab[d] = Tab[c]
  BY Typed DEF Calm
<1>2. c \in Leaders(Tab[c]) /\ (req[d].state = "leading" => d \in Leaders(Tab[c]))
  BY <1>1 DEF Leaders, SlotsOf
<1>3. QED
  BY <1>1, <1>2, Typed DEF RefreshIsLed

LEMMA KeptReceived ==
  ASSUME PanelInv, Kept, Calm, NEW c \in Calls, Receive(c)
  PROVE  Kept'
<1>1. UNCHANGED <<rows, spent>>
  BY DEF Receive, Succeed, Reject, Enqueue, StartRefresh, LeaveForLogin, Refreshed,
     RefreshFailed, Discard, server
<1>2. Free.state = "free"
  BY DEF Free
<1>3. ASSUME Finish(c), Consume(c)
      PROVE  \A d \in Calls : req'[d].state = "leading" =>
                                req[d].state = "leading" /\ call'[d] = call[d]
  <2>1. req'[c] = Free /\ \A d \in Calls \ {c} : req'[d] = req[d]
    BY <1>3, Typed DEF Finish
  <2>2. \A d \in Calls \ {c} : call'[d] = call[d]
    BY <1>3, Typed DEF Consume, Answer
  <2>3. QED
    BY <1>2, <2>1, <2>2
<1>4. CASE Succeed(c)
  <2>1. ASSUME NEW d \in Calls, req'[d].state = "leading",
               forsaken' = (\E t \in Tabs : Leaders(t) # {})
        PROVE  forsaken'
    <3>1. req[d].state = "leading" /\ Tab[d] \in Tabs
      BY <1>3, <1>4, <2>1, Typed DEF Succeed
    <3>2. d \in Leaders(Tab[d])
      BY <3>1 DEF Leaders, SlotsOf
    <3>3. QED
      BY <2>1, <3>1, <3>2
  <2>2. \/ forsaken' = (\E t \in Tabs : Leaders(t) # {})
        \/ storage' = NoToken
        \/ UNCHANGED <<storage, forsaken>>
    BY <1>4 DEF Succeed, ClearTokens, SetTokens
  <2>3. \A d \in Calls : req'[d].state = "leading" => req[d].state = "leading" /\ call'[d] = call[d]
    BY <1>3, <1>4 DEF Succeed
  <2>4. CASE forsaken' = (\E t \in Tabs : Leaders(t) # {})
    <3>1. \A d \in Calls : req'[d].state = "leading" => forsaken'
      BY <2>1, <2>4
    <3>2. QED
      BY <1>1, <2>3, <3>1, KeptAsBefore
  <2>5. CASE storage' = NoToken \/ UNCHANGED <<storage, forsaken>>
    BY <1>1, <2>3, <2>5, KeptAsBefore
  <2>6. QED
    BY <2>2, <2>4, <2>5
<1>5. CASE Reject(c)
  <2>1. storage' = NoToken \/ UNCHANGED <<storage, forsaken>>
    BY <1>5 DEF Reject, ClearTokens, SetTokens
  <2>2. QED
    BY <1>1, <1>3, <1>5, <2>1, KeptAsBefore DEF Reject
<1>6. CASE Discard(c)
  BY <1>1, <1>3, <1>6, KeptAsBefore DEF Discard
<1>7. CASE Enqueue(c)
  <2>1. req' = [req EXCEPT ![c].state = "queued"] /\ Consume(c) /\ UNCHANGED <<storage, forsaken>>
    BY <1>7 DEF Enqueue
  <2>2. req'[c].state = "queued" /\ \A d \in Calls \ {c} : req'[d] = req[d]
    BY <2>1, Typed DEF Requests
  <2>3. \A d \in Calls \ {c} : call'[d] = call[d]
    BY <2>1, Typed DEF Consume, Answer
  <2>4. QED
    BY <1>1, <2>1, <2>2, <2>3, KeptAsBefore
<1>8. CASE LeaveForLogin(c) \/ RefreshFailed(c)
  <2>1. Abandon(Tab[c], {c}) /\ Consume(c) /\ Tab[c] \in Tabs
    BY <1>8, Typed DEF LeaveForLogin, RefreshFailed
  <2>2. \A d \in Calls : d # c => call'[d] = call[d]
    BY <2>1, Typed DEF Consume, Answer
  <2>3. \A d \in Calls : Tab[d] = Tab[c]
    BY <2>1, Typed DEF Calm
  <2>4. \A d \in Calls : req'[d].state # "leading"
    BY <2>1, <2>2, <2>3, AbandonMoves
  <2>5. QED
    BY <2>4 DEF Kept
<1>9. CASE StartRefresh(c)
  <2>1. /\ req'[c].state = "leading" /\ call'[c].at = "sent" /\ call'[c].token = storage
        /\ \A d \in Calls \ {c} : req'[d] = req[d] /\ call'[d] = call[d]
    BY <1>9, StartRefreshMoves
  <2>2. ~refreshing[Tab[c]] /\ UNCHANGED <<storage, forsaken>>
    BY <1>9 DEF StartRefresh
  <2>3. \A d \in Calls : req[d].state # "leading"
    BY <2>2, LoneLeader
  <2>4. storage \notin spent \/ forsaken
    BY <2>3 DEF PanelInv, HeldTokenNotSpent, Leaders, SlotsOf
  <2>5. QED
    BY <1>1, <2>1, <2>2, <2>3, <2>4 DEF Kept
<1>10. CASE Refreshed(c)
  <2>1. req'[c].state = "pending"
        /\ \A d \in Calls \ {c} : req'[d].state = "leading" => req[d].state = "leading"
    BY <1>10, RefreshedMoves
  <2>2. \A d \in Calls : req[d].state = "leading" => d = c
    BY <1>10, LoneLeader DEF Refreshed
  <2>3. \A d \in Calls : req'[d].state # "leading"
    BY <2>1, <2>2
  <2>4. QED
    BY <2>3 DEF Kept
<1>11. QED
  BY <1>4, <1>5, <1>6, <1>7, <1>8, <1>9, <1>10 DEF Receive

LEMMA NoFault == ASSUME PanelInv, Calm PROVE ~Fault
BY DEF PanelInv, Inv, AuthTypeOK, Calm, Fault

(* A token of the panel does not come back.                                *)
LEMMA RowsOfOld ==
  ASSUME PanelInv, NEW c \in Calls, ServerStep(c), storage \in rows'
  PROVE  storage \in rows
<1>1. storage.id <= issued /\ issued \in Nat
  BY Typed DEF PanelInv, Inv, AuthTypeOK, AllDrawn, Drawn
<1>2. ASSUME NEW root, Grant(c, root) PROVE storage \in rows
  <2> DEFINE pair == [id |-> issued + 1, root |-> root, born |-> now]
  <2>1. rows' = rows \cup {pair} /\ pair.id = issued + 1
    BY <1>2 DEF Grant
  <2>2. storage # pair
    BY <1>1, <2>1
  <2> HIDE DEF pair
  <2>3. QED
    BY <2>1, <2>2
<1>3. ASSUME rows' \subseteq rows PROVE storage \in rows
  BY <1>3
<1>4. CASE Login(c) \/ StoreToken(c)
  BY <1>2, <1>4 DEF Login, StoreToken
<1>5. CASE \/ LoginRefused(c) \/ LoginFails(c) \/ FindToken(c) \/ FindTokenFails(c)
           \/ DropToken(c) \/ DropTokenFails(c) \/ StoreTokenFails(c)
           \/ Authenticate(c) \/ Logout(c) \/ LogoutFails(c) \/ LogoutAll(c)
           \/ LogoutAllFails(c) \/ AnswerLost(c)
  BY <1>3, <1>5 DEF LoginRefused, LoginFails, FindToken, FindTokenFails, DropToken,
     DropTokenFails, StoreTokenFails, Authenticate, Logout, LogoutFails, LogoutAll,
     LogoutAllFails, AnswerLost
<1>6. QED
  BY <1>4, <1>5 DEF ServerStep, Serve

(* Nobody else spends the token of a refresh.                              *)
LEMMA SpentByLeader ==
  ASSUME PanelInv, NEW c \in Calls, ServerStep(c), storage \in spent', storage \notin spent
  PROVE  /\ forsaken \/ req[c].state = "leading"
         /\ call'[c].at = "dropped"
<1>1. /\ Running(c, "refresh", "found") /\ call'[c].at = "dropped"
      /\ spent' = spent \cup {call[c].token}
  BY DEF ServerStep
<1>2. Spending(c) /\ call[c].token = storage
  BY <1>1 DEF Running, Spending
<1>3. QED
  BY <1>1, <1>2 DEF PanelInv, Watched

LEMMA KeptServed ==
  ASSUME PanelInv, Linked, KeptInv, Calm, NEW c \in Calls, ServerStep(c)
  PROVE  Kept'
<1>1. UNCHANGED <<storage, req, forsaken>> /\ Serve(c)
  BY NoFault DEF ServerStep, AnswerLost
<1>2. \A d \in Calls \ {c} : call'[d] = call[d]
  BY <1>1, ServeEffect
<1>3. SUFFICES ASSUME NEW d \in Calls, req[d].state = "leading", ~forsaken, storage # NoToken
               PROVE  /\ call'[d].at \in {"sent", "found", "dropped", "ok", "denied"}
                      /\ call'[d].at \in {"sent", "found"} =>
                            call'[d].token = storage /\ storage \notin spent'
                      /\ call'[d].at = "denied" => storage \notin rows' \cup spent'
  BY <1>1 DEF Kept
<1>4. /\ call[d].at \in {"sent", "found", "dropped", "ok", "denied"}
      /\ call[d].at \in {"sent", "found"} => call[d].token = storage /\ storage \notin spent
      /\ call[d].at = "denied" => storage \notin rows \cup spent
  BY <1>3 DEF KeptInv, Kept
<1>5. CASE d # c
  <2>1. call'[d] = call[d]
    BY <1>2, <1>5
  <2>2. req[c].state # "leading"
    BY <1>3, <1>5, LoneLeader
  <2>3. storage \notin spent => storage \notin spent'
    BY <1>3, <2>2, SpentByLeader
  <2>4. QED
    BY <1>4, <2>1, <2>3, RowsOfOld
<1>6. CASE d = c
  <2>1. call[c].at \notin Finished
    BY <1>1, ServeEffect
  <2>2. call[c].op = "refresh"
    BY <1>3, <1>6, <2>1 DEF Linked, Doing
  <2>3. FindToken(c) \/ DropToken(c) \/ StoreToken(c)
    BY <1>1, <2>2, NoFault DEF Serve, Login, LoginRefused, LoginFails, FindTokenFails,
       DropTokenFails, StoreTokenFails, Authenticate, Logout, LogoutFails, LogoutAll,
       LogoutAllFails, Running
  <2>4. CASE FindToken(c)
    <3>1. /\ call[c].at = "sent" /\ rows' = rows
          /\ IF Accepted(call[c].token) THEN Proceed(c, "found") ELSE Answer(c, "denied")
      BY <2>4 DEF FindToken, Running
    <3>2. call[c].token = storage /\ storage \notin spent
      BY <1>4, <1>6, <3>1
    <3>3. CASE Accepted(storage)
      <4>1. call'[c].at = "found" /\ call'[c].token = storage
        BY <3>1, <3>2, <3>3, Typed DEF Proceed, Exchange
      <4>2. storage \notin spent'
        BY <3>2, <4>1, SpentByLeader
      <4>3. QED
        BY <1>6, <4>1, <4>2
    <3>4. CASE ~Accepted(storage)
      <4>1. call'[c].at = "denied"
        BY <3>1, <3>2, <3>4, Typed DEF Answer, Answered
      <4>2. storage \notin spent'
        BY <3>2, <4>1, SpentByLeader
      <4>3. ASSUME storage \in rows PROVE FALSE
        <5>1. now \in Nat /\ storage.born \in Nat /\ now <= MaxTime /\ MaxTime <= RefreshTTL
          BY <4>3 DEF PanelInv, Inv, AuthTypeOK, Token, KeptInv, Calm
        <5>2. ExpiresAt(storage) \in Nat /\ now <= ExpiresAt(storage)
          BY <5>1, AuthAssumption DEF ExpiresAt
        <5>3. ~(DayOf(ExpiresAt(storage)) >= DayOf(now))
          BY <3>4, <4>3 DEF Accepted, Unexpired
        <5>4. DayOf(ExpiresAt(storage)) \in Nat /\ DayOf(now) \in Nat
          BY <5>1, <5>2, AuthAssumption DEF DayOf
        <5>5. ExpiresAt(storage) < now
          BY <5>1, <5>2, <5>3, <5>4, Days
        <5>6. QED
          BY <5>1, <5>2, <5>5
      <4>4. QED
        BY <1>6, <3>1, <4>1, <4>2, <4>3
    <3>5. QED
      BY <3>3, <3>4
  <2>5. CASE DropToken(c)
    <3>1. call'[c].at = "dropped"
      BY <2>5, Typed DEF DropToken, Proceed, Exchange
    <3>2. QED
      BY <1>6, <3>1
  <2>6. CASE StoreToken(c)
    <3>1. call'[c].at = "ok"
      BY <2>6, Typed DEF StoreToken, Grant, Answered
    <3>2. QED
      BY <1>6, <3>1
  <2>7. QED
    BY <2>3, <2>4, <2>5, <2>6
<1>7. QED
  BY <1>5, <1>6

LEMMA KeptStep ==
  ASSUME PanelInv, Linked, KeptInv, Calm, [PanelNext]_vars
  PROVE  KeptInv'
<1>1. now \in Nat /\ MaxTime \in Nat
  BY AuthAssumption DEF PanelInv, Inv, AuthTypeOK
<1>2. ASSUME UNCHANGED <<call, req, storage, forsaken, spent, rows>> PROVE Kept'
  BY <1>2 DEF KeptInv, Kept
<1>3. CASE Tick /\ UNCHANGED panelVars
  BY <1>1, <1>2, <1>3 DEF Tick, panelVars, KeptInv
<1>4. ~Crash
  BY NoFault DEF Crash
<1>5. ASSUME NEW c \in Calls, ServerStep(c) PROVE KeptInv'
  <2>1. now' = now
    BY <1>5, NoFault DEF ServerStep, Serve, Login, LoginRefused, LoginFails, FindToken,
       FindTokenFails, DropToken, DropTokenFails, StoreToken, StoreTokenFails, Authenticate,
       Logout, LogoutFails, LogoutAll, LogoutAllFails, AnswerLost, Grant
  <2>2. QED
    BY <1>5, <2>1, KeptServed DEF KeptInv
<1>6. ASSUME NEW c \in Calls, Receive(c) PROVE KeptInv'
  <2>1. now' = now
    BY <1>6 DEF Receive, Succeed, Reject, Enqueue, StartRefresh, LeaveForLogin, Refreshed,
       RefreshFailed, Discard, server
  <2>2. QED
    BY <1>6, <2>1, KeptReceived DEF KeptInv
<1>7. ASSUME NEW c \in Calls, NEW op \in Ops, Begin(c, op) PROVE KeptInv'
  <2> DEFINE new == [state |-> "pending", op |-> op, retry |-> FALSE,
                     body |-> IF op = "logout" THEN storage ELSE NoToken]
  <2>1. /\ req' = [req EXCEPT ![c] = new] /\ Send({c}, storage) /\ new.state = "pending"
        /\ UNCHANGED <<server, storage, forsaken, spent>>
    BY <1>7 DEF Begin
  <2> HIDE DEF new
  <2>2. req'[c].state = "pending" /\ \A d \in Calls \ {c} : req'[d] = req[d]
    BY <2>1, Typed
  <2>3. \A d \in Calls \ {c} : call'[d] = call[d]
    BY <2>1 DEF Send
  <2>4. Kept'
    BY <2>1, <2>2, <2>3, KeptAsBefore DEF KeptInv, server
  <2>5. QED
    BY <2>1, <2>4 DEF KeptInv, server
<1>8. ASSUME NEW t \in Tabs, Open(t) PROVE KeptInv'
  <2>1. UNCHANGED authVars /\ Abandon(t, {})
    BY <1>8 DEF Open
  <2>2. \A d \in Calls : call'[d] = call[d] /\ Tab[d] = t
    BY <2>1, Typed DEF authVars, Calm
  <2>3. \A d \in Calls : req'[d].state # "leading"
    BY <2>1, <2>2, AbandonMoves
  <2>4. QED
    BY <2>1, <2>3 DEF KeptInv, Kept, authVars
<1>9. ASSUME NEW t \in Tabs, LogoutLocally(t) \/ Redirect(t) PROVE KeptInv'
  BY <1>2, <1>9 DEF LogoutLocally, Redirect, authVars, KeptInv
<1>10. CASE UNCHANGED vars
  BY <1>2, <1>10 DEF vars, authVars, panelVars, KeptInv
<1>11. QED
  BY <1>3, <1>4, <1>5, <1>6, <1>7, <1>8, <1>9, <1>10 DEF PanelNext

(* A step in which the panel loses its tokens.                             *)
LEMMA LossHasCause ==
  ASSUME PanelInv, Linked, KeptInv, [PanelNext]_vars, storage # NoToken, storage' = NoToken
  PROVE  \/ forsaken
         \/ \E c \in Calls : req[c].op \in {"logout", "logoutAll"}
         \/ storage \notin rows \cup spent
<1>1. ASSUME NEW c \in Calls, Succeed(c) PROVE req[c].op \in {"logout", "logoutAll"}
  <2>1. req[c].op = "login" => storage' = call[c].pair /\ call[c].pair # NoToken
    BY <1>1 DEF Succeed, Linked, Doing
  <2>2. QED
    BY <1>1, <2>1 DEF Succeed
<1>2. ASSUME NEW c \in Calls, Reject(c) PROVE req[c].op \in {"logout", "logoutAll"}
  BY <1>2 DEF Reject
<1>3. ASSUME NEW c \in Calls, Refreshed(c) PROVE FALSE
  <2>1. storage' = call[c].pair /\ call[c].pair # NoToken
    BY <1>3 DEF Refreshed, SetTokens, Linked, Doing
  <2>2. QED
    BY <2>1
<1>4. ASSUME NEW c \in Calls, RefreshFailed(c) PROVE forsaken \/ storage \notin rows \cup spent
  BY <1>4 DEF RefreshFailed, KeptInv, Kept
<1>5. ASSUME NEW c \in Calls, Enqueue(c) \/ StartRefresh(c) \/ LeaveForLogin(c) \/ Discard(c)
      PROVE  FALSE
  BY <1>5 DEF Enqueue, StartRefresh, LeaveForLogin, Discard
<1>6. ASSUME NEW c \in Calls, NEW op \in Ops, ServerStep(c) \/ Begin(c, op) PROVE FALSE
  BY <1>6 DEF ServerStep, Begin
<1>7. ASSUME NEW t \in Tabs, LogoutLocally(t) \/ Open(t) \/ Redirect(t) PROVE FALSE
  BY <1>7 DEF LogoutLocally, Open, Redirect
<1>8. ~((Tick \/ Crash) /\ UNCHANGED panelVars) /\ ~UNCHANGED vars
  BY DEF panelVars, vars
<1>9. \A c \in Calls : ServerStep(c) => FALSE
  BY <1>6 DEF Ops
<1>10. PICK c \in Calls : Receive(c)
  BY <1>6, <1>7, <1>8, <1>9 DEF PanelNext
<1>11. QED
  BY <1>1, <1>2, <1>3, <1>4, <1>5, <1>10 DEF Receive

(* With one tab, no failures and no time for a token to expire, whatever   *)
(* the order of requests and answers, a refresh never costs the panel a    *)
(* session (isRefreshing and the queue of client.ts against the statements *)
(* of RefreshToken): it loses its tokens by a logout, or after a reload or *)
(* a login in the middle of a refresh.                                     *)
THEOREM SessionKeptCorrect == Calm /\ PanelSpec => SessionKept
<1> DEFINE Loss == storage # NoToken /\ storage' = NoToken =>
                     \/ forsaken
                     \/ \E c \in Calls : req[c].op \in {"logout", "logoutAll"}
                     \/ storage \notin rows \cup spent
<1>1. PanelInit => Linked
  <2>1. Free.state = "free"
    BY DEF Free
  <2>2. QED
    BY <2>1 DEF PanelInit, Linked
<1>2. PanelInit => KeptInv
  BY AuthAssumption DEF PanelInit, AuthInit, KeptInv, Kept
<1>3. Linked /\ PanelInv /\ [PanelNext]_vars => Linked'
  BY LinkedStep
<1>4. Calm /\ KeptInv /\ Linked /\ PanelInv /\ [PanelNext]_vars => KeptInv'
  BY KeptStep
<1>5. KeptInv /\ Linked /\ PanelInv /\ [PanelNext]_vars => [Loss]_vars
  BY LossHasCause
<1>6. Calm => Calm'
  BY DEF Calm
<1>7. QED
  BY <1>1, <1>2, <1>3, <1>4, <1>5, <1>6, PanelInvariance, PTL DEF PanelSpec, SessionKept

(* ------------------------- the promise of Sessions ---------------------- *)

(* What a page does to the service: it takes answers and sends requests.   *)
SendsOnly ==
    /\ UNCHANGED server
    /\ \A d \in Calls : call'[d] = call[d] \/ call'[d].at \in {"idle", "sent"}

LEMMA ConsumedOnly ==
  ASSUME PanelInv, NEW c \in Calls, Consume(c), UNCHANGED server
  PROVE  SendsOnly
<1>1. Answered("idle", NoToken).at = "idle"
  BY DEF Answered
<1>2. QED
  BY <1>1, Typed DEF SendsOnly, Consume, Answer

LEMMA SentOnly ==
  ASSUME NEW S, NEW pair, Send(S, pair), UNCHANGED server
  PROVE  SendsOnly
<1>1. \A d \in Calls : Request(req'[d].op, pair, req'[d].body).at = "sent"
  BY DEF Request
<1>2. QED
  BY <1>1 DEF SendsOnly, Send

LEMMA BrowserOnly ==
  ASSUME PanelInv,
         \/ \E c \in Calls : Receive(c) \/ \E op \in Ops \ {"refresh"} : Begin(c, op)
         \/ \E t \in Tabs : LogoutLocally(t) \/ Open(t) \/ Redirect(t)
  PROVE  SendsOnly
<1>1. ASSUME NEW c \in Calls,
             Succeed(c) \/ Reject(c) \/ Enqueue(c) \/ LeaveForLogin(c)
               \/ RefreshFailed(c) \/ Discard(c)
      PROVE  SendsOnly
  BY <1>1, ConsumedOnly DEF Succeed, Reject, Enqueue, LeaveForLogin, RefreshFailed, Discard
<1>2. ASSUME NEW c \in Calls, StartRefresh(c) PROVE SendsOnly
  <2>1. Request("refresh", NoToken, storage).at = "sent"
    BY DEF Request
  <2>2. QED
    BY <1>2, <2>1, Typed DEF StartRefresh, SendsOnly
<1>3. ASSUME NEW c \in Calls, Refreshed(c) PROVE SendsOnly
  <2>1. UNCHANGED server /\ Send({c} \cup Queue(Tab[c]), call[c].pair)
    BY <1>3 DEF Refreshed
  <2>2. QED
    BY <2>1, SentOnly
<1>4. ASSUME NEW c \in Calls, NEW op \in Ops, Begin(c, op) PROVE SendsOnly
  BY <1>4, SentOnly DEF Begin
<1>5. ASSUME NEW t \in Tabs, LogoutLocally(t) \/ Open(t) \/ Redirect(t) PROVE SendsOnly
  BY <1>5 DEF LogoutLocally, Open, Redirect, authVars, server, SendsOnly
<1>6. QED
  BY <1>1, <1>2, <1>3, <1>4, <1>5 DEF Receive

(* A step of the panel and the service is one of the service, or sends.    *)
LEMMA PanelStepSplit ==
  ASSUME PanelInv, [PanelNext]_vars
  PROVE  [AuthNext]_authVars \/ SendsOnly
<1>1. CASE UNCHANGED vars
  BY <1>1 DEF vars
<1>2. ASSUME NEW c \in Calls, ServerStep(c) PROVE AuthNext
  BY <1>2 DEF ServerStep, AuthNext
<1>3. CASE Tick \/ Crash
  BY <1>3 DEF AuthNext
<1>4. CASE PanelNext
  BY <1>2, <1>3, <1>4, BrowserOnly DEF PanelNext
<1>5. QED
  BY <1>1, <1>4

(* Panel and service together implement Sessions: whatever the tabs send,  *)
(* and whatever they still remember of an older pair, no token that was    *)
(* exchanged, logged out or lost is honoured again.                        *)
THEOREM PanelKeepsPromise == PanelSpec => KeepsPromise
<1>1. PanelInit => Promise!Init
  <2> SUFFICES ASSUME PanelInit PROVE issued = 0 /\ Held = {}
    BY DEF Promise!Init
  <2>1. Presented = {}
    BY DEF PanelInit, AuthInit, Answered, Presented
  <2>2. QED
    BY <2>1 DEF PanelInit, AuthInit, Held
<1>2. PanelInv /\ [PanelNext]_vars => [Promise!Next]_<<issued, Held>>
  <2> SUFFICES ASSUME PanelInv, [PanelNext]_vars PROVE [Promise!Next]_<<issued, Held>>
    OBVIOUS
  <2>1. CASE [AuthNext]_authVars
    BY <2>1, PromiseStep DEF PanelInv
  <2>2. CASE SendsOnly
    <3>1. issued' = issued /\ rows' \subseteq rows
      BY <2>2 DEF SendsOnly, server
    <3>2. \A d \in Calls : call'[d].at \in {"found", "dropped"} => call'[d] = call[d]
      BY <2>2 DEF SendsOnly
    <3>3. Promise!Next
      BY <3>1, <3>2, EndStep
    <3>4. QED
      BY <3>3
  <2>3. QED
    BY <2>1, <2>2, PanelStepSplit
<1>3. QED
  BY <1>1, <1>2, PanelInvariance, PTL DEF PanelSpec, KeepsPromise, Promise!Spec

(* A logout everywhere ends the sessions of every tab: no request of the   *)
(* panel, sent before or after it, brings one back (AllSessionsEnded).     *)
THEOREM PanelSessionsEnd == PanelSpec => []AllSessionsEnded
<1>1. PanelInit => Over
  BY DEF PanelInit, AuthInit, Over, AllSessionsEnded
<1>2. PanelInv /\ Over /\ [PanelNext]_vars => Over'
  <2> SUFFICES ASSUME PanelInv, Over, [PanelNext]_vars PROVE Over'
    OBVIOUS
  <2>1. CASE [AuthNext]_authVars
    BY <2>1, OverStep DEF PanelInv
  <2>2. CASE SendsOnly
    <3>1. ended' = ended /\ issued' = issued /\ rows' = rows
      BY <2>2 DEF SendsOnly, server
    <3>2. issued' \in Nat /\ issued' >= issued /\ Inv
      BY <3>1, Typed DEF PanelInv, Inv, AuthTypeOK
    <3>3. \A d \in Calls : call'[d].at \in {"found", "dropped"} => call'[d] = call[d]
      BY <2>2 DEF SendsOnly
    <3>4. QED
      BY <3>1, <3>2, <3>3, OverKept
  <2>3. QED
    BY <2>1, <2>2, PanelStepSplit
<1>3. Over => AllSessionsEnded
  BY DEF Over
<1>4. QED
  BY <1>1, <1>2, <1>3, PanelInvariance, PTL DEF PanelSpec
=============================================================================
