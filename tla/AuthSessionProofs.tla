------------------------- MODULE AuthSessionProofs -------------------------
(***************************************************************************)
(* Proofs about AuthSession, for any number of concurrent requests, any    *)
(* lifetimes and any number of pairs, ticks and failures.                  *)
(*                                                                         *)
(* OneTokenPerSession is not inductive: a refresh that has deleted its row *)
(* is about to add another one.  Alone says what such a refresh may rely   *)
(* on: unless its session is forked, no valid token of the session is left *)
(* and no other refresh of the session is about to add one.  It holds when *)
(* the row is deleted because that row was the session's only one, and it  *)
(* lasts because a new login begins a session with a number never used.    *)
(***************************************************************************)
EXTENDS AuthSession, TLAPS

(* A refresh that knows its token has a real one.                          *)
Holds == \A c \in Calls : call[c].at \in {"found", "dropped"} => call[c].token \in Token

(* Sessions are numbered by the login they began with.                     *)
Numbered ==
    /\ \A t \in rows : t.root <= issued
    /\ \A c \in Calls : call[c].token.root <= issued /\ call[c].pair.root <= issued

Alone ==
    \A c \in Calls : call[c].at = "dropped" =>
        \/ call[c].token.root \in forked
        \/ /\ \A t \in rows : t.root # call[c].token.root
           /\ \A d \in Calls : d # c /\ call[d].at = "dropped"
                                 => call[d].token.root # call[c].token.root

Inv == AuthTypeOK /\ Holds /\ Numbered /\ OneTokenPerSession /\ Alone

(* An answer is a well-typed exchange.                                     *)
LEMMA AnswerType ==
  ASSUME NEW status \in Finished, NEW pair \in Token \cup {NoToken}
  PROVE  /\ Answered(status, pair) \in Exchange
         /\ Answered(status, pair).at = status
         /\ Answered(status, pair).token = NoToken
         /\ Answered(status, pair).pair = pair
  BY DEF Answered, Exchange, Stages, Ops

(* The initial state.                                                      *)
LEMMA InitInv == AuthInit => Inv
<1> SUFFICES ASSUME AuthInit PROVE Inv
  OBVIOUS
<1>1. Answered("idle", NoToken) \in Exchange
  BY AnswerType DEF Finished
<1>2. AuthTypeOK
  BY <1>1 DEF AuthInit, AuthTypeOK
<1>3. QED
  BY <1>2, AnswerType DEF AuthInit, Inv, Holds, Numbered, OneTokenPerSession, Alone,
     Answered, NoToken

(* A step that adds no pair, and no refresh to those that dropped their    *)
(* token, preserves the invariant.                                         *)
LEMMA Quiet ==
  ASSUME Inv, AuthTypeOK', issued' = issued, rows' \subseteq rows, forked \subseteq forked',
         \A c \in Calls : call'[c].at \in {"found", "dropped"} => call'[c].token \in Token,
         \A c \in Calls : call'[c].at = "dropped"
            => call[c].at = "dropped" /\ call'[c].token = call[c].token,
         \A c \in Calls : call'[c].token.root <= issued /\ call'[c].pair.root <= issued
  PROVE  Inv'
<1>1. Holds' /\ Numbered'
  BY DEF Inv, Holds, Numbered
<1>2. OneTokenPerSession'
  BY DEF Inv, OneTokenPerSession
<1>3. Alone'
  <2> SUFFICES ASSUME NEW c \in Calls, call'[c].at = "dropped",
                      call'[c].token.root \notin forked'
               PROVE  /\ \A t \in rows' : t.root # call'[c].token.root
                      /\ \A d \in Calls : d # c /\ call'[d].at = "dropped"
                           => call'[d].token.root # call'[c].token.root
    BY DEF Alone
  <2>1. call[c].at = "dropped" /\ call'[c].token = call[c].token
        /\ call[c].token.root \notin forked
    OBVIOUS
  <2>2. QED
    BY <2>1 DEF Inv, Alone
<1>4. QED
  BY <1>1, <1>2, <1>3 DEF Inv

(* A request that is answered without a pair.                              *)
LEMMA AnswerKeeps ==
  ASSUME Inv, NEW c \in Calls, NEW status \in Finished, Answer(c, status),
         rows' \subseteq rows, forked' = forked, issued' = issued,
         now' \in Nat, faults' \in Nat, ended' \subseteq Nat
  PROVE  Inv'
<1> DEFINE a == Answered(status, NoToken)
<1>1. /\ a \in Exchange /\ a.at \notin {"found", "dropped"}
      /\ a.token = NoToken /\ a.pair = NoToken
  BY AnswerType DEF Finished
<1>2. call' = [call EXCEPT ![c] = a] /\ call \in [Calls -> Exchange]
  BY DEF Answer, Inv, AuthTypeOK
<1> HIDE DEF a
<1>3. AuthTypeOK'
  BY <1>1, <1>2 DEF Inv, AuthTypeOK
<1>4. NoToken.root <= issued
  BY DEF NoToken, Inv, AuthTypeOK
<1>5. \A d \in Calls : d # c => call'[d] = call[d]
  BY <1>2
<1>6. call'[c] = a
  BY <1>2
<1>7. \A d \in Calls :
        /\ call'[d].at \in {"found", "dropped"} => call'[d].token \in Token
        /\ call'[d].at = "dropped" => call[d].at = "dropped" /\ call'[d].token = call[d].token
        /\ call'[d].token.root <= issued /\ call'[d].pair.root <= issued
  BY <1>1, <1>4, <1>5, <1>6 DEF Inv, Holds, Numbered
<1>8. QED
  BY <1>3, <1>7, Quiet

(* A request that goes on to a stage short of "dropped".                   *)
LEMMA ProceedKeeps ==
  ASSUME Inv, NEW c \in Calls, NEW stage \in {"found", "authed"}, Proceed(c, stage),
         stage = "found" => call[c].token \in Token,
         UNCHANGED <<now, issued, rows, faults, forked, ended>>
  PROVE  Inv'
<1>1. call' = [call EXCEPT ![c].at = stage] /\ call \in [Calls -> Exchange]
  BY DEF Proceed, Inv, AuthTypeOK
<1>2. /\ call'[c].at = stage /\ call'[c].token = call[c].token
      /\ call'[c].pair = call[c].pair /\ call'[c] \in Exchange
  BY <1>1 DEF Exchange, Stages, Finished
<1>3. \A d \in Calls : d # c => call'[d] = call[d]
  BY <1>1
<1>4. call' \in [Calls -> Exchange]
  BY <1>1, <1>2, <1>3
<1>5. AuthTypeOK'
  BY <1>4 DEF Inv, AuthTypeOK
<1>6. \A d \in Calls :
        /\ call'[d].at \in {"found", "dropped"} => call'[d].token \in Token
        /\ call'[d].at = "dropped" => call[d].at = "dropped" /\ call'[d].token = call[d].token
        /\ call'[d].token.root <= issued /\ call'[d].pair.root <= issued
  BY <1>2, <1>3 DEF Inv, Holds, Numbered
<1>7. QED
  BY <1>5, <1>6, Quiet

(* A refresh whose DELETE ran, or failed: what was proved of its session.  *)
LEMMA DropKeeps ==
  ASSUME Inv, NEW c \in Calls, Running(c, "refresh", "found"), Proceed(c, "dropped"),
         rows' \subseteq rows, forked \subseteq forked', forked' \subseteq Nat,
         \/ call[c].token.root \in forked'
         \/ call[c].token \in rows /\ rows' = rows \ {call[c].token},
         UNCHANGED <<now, issued, ended>>, faults' \in Nat
  PROVE  Inv'
<1>1. call' = [call EXCEPT ![c].at = "dropped"] /\ call \in [Calls -> Exchange]
  BY DEF Proceed, Inv, AuthTypeOK
<1>2. /\ call'[c].at = "dropped" /\ call'[c].token = call[c].token
      /\ call'[c].pair = call[c].pair /\ call'[c] \in Exchange
  BY <1>1 DEF Exchange, Stages
<1>3. \A d \in Calls : d # c => call'[d] = call[d]
  BY <1>1
<1>4. call' \in [Calls -> Exchange]
  BY <1>1, <1>2, <1>3
<1>5. AuthTypeOK'
  BY <1>4 DEF Inv, AuthTypeOK
<1>6. call[c].at = "found" /\ call[c].token \in Token
  BY DEF Running, Inv, Holds
<1>7. Holds' /\ Numbered'
  BY <1>2, <1>3, <1>6 DEF Inv, Holds, Numbered
<1>8. OneTokenPerSession'
  BY DEF Inv, OneTokenPerSession
<1>9. Alone'
  <2> SUFFICES ASSUME NEW e \in Calls, call'[e].at = "dropped",
                      call'[e].token.root \notin forked'
               PROVE  /\ \A t \in rows' : t.root # call'[e].token.root
                      /\ \A d \in Calls : d # e /\ call'[d].at = "dropped"
                           => call'[d].token.root # call'[e].token.root
    BY DEF Alone
  <2>1. CASE e = c
    <3>1. call[c].token \in rows /\ rows' = rows \ {call[c].token}
      BY <2>1, <1>2
    <3>2. \A t \in rows' : t.root # call[c].token.root
      BY <2>1, <3>1, <1>2 DEF Inv, OneTokenPerSession
    <3>3. \A d \in Calls : d # c /\ call[d].at = "dropped"
                             => call[d].token.root # call[c].token.root
      BY <2>1, <3>1, <1>2 DEF Inv, Alone
    <3>4. QED
      BY <2>1, <3>2, <3>3, <1>2, <1>3
  <2>2. CASE e # c
    <3>1. /\ call'[e] = call[e] /\ call[e].at = "dropped"
          /\ call[e].token.root \notin forked
      BY <2>2, <1>3
    <3>2. \A t \in rows : t.root # call[e].token.root
      BY <3>1 DEF Inv, Alone
    <3>3. \A d \in Calls : d # e /\ call[d].at = "dropped"
                             => call[d].token.root # call[e].token.root
      BY <3>1 DEF Inv, Alone
    <3>4. call[c].token.root # call[e].token.root
      BY <3>1, <3>2
    <3>5. QED
      BY <3>1, <3>2, <3>3, <3>4, <1>2, <1>3
  <2>3. QED
    BY <2>1, <2>2
<1>10. QED
  BY <1>5, <1>7, <1>8, <1>9 DEF Inv

(* A new pair for a session that has no other one and will get no other.   *)
LEMMA GrantKeeps ==
  ASSUME Inv, NEW c \in Calls, NEW root \in Nat \ {0}, Grant(c, root), root <= issued + 1,
         \/ root \in forked
         \/ /\ \A t \in rows : t.root # root
            /\ \A d \in Calls : d # c /\ call[d].at = "dropped" => call[d].token.root # root
  PROVE  Inv'
<1> DEFINE pair == [id |-> issued + 1, root |-> root, born |-> now]
           a == Answered("ok", pair)
<1>1. /\ issued \in Nat /\ now \in Nat /\ rows \subseteq Token
      /\ call \in [Calls -> Exchange]
  BY DEF Inv, AuthTypeOK
<1>2. pair \in Token /\ pair.root = root
  BY <1>1 DEF Token
<1>3. /\ issued' = issued + 1 /\ rows' = rows \cup {pair} /\ call' = [call EXCEPT ![c] = a]
      /\ UNCHANGED <<now, faults, forked, ended>>
  BY DEF Grant
<1> HIDE DEF pair
<1>4. a \in Exchange /\ a.at = "ok" /\ a.token = NoToken /\ a.pair = pair
  BY <1>2, AnswerType DEF Finished
<1> HIDE DEF a
<1>5. AuthTypeOK'
  BY <1>1, <1>2, <1>3, <1>4 DEF Inv, AuthTypeOK
<1>6. call'[c] = a /\ \A d \in Calls : d # c => call'[d] = call[d]
  BY <1>1, <1>3
<1>7. NoToken.root = 0
  BY DEF NoToken
<1>8. Holds'
  BY <1>4, <1>6 DEF Inv, Holds
<1>9. Numbered'
  <2>1. \A t \in rows' : t.root <= issued'
    BY <1>1, <1>2, <1>3 DEF Inv, Numbered, Token
  <2>2. call'[c].token.root <= issued' /\ call'[c].pair.root <= issued'
    BY <1>1, <1>2, <1>3, <1>4, <1>6, <1>7
  <2>3. \A d \in Calls : call[d].token.root \in Nat /\ call[d].pair.root \in Nat
    <3>1. \A t \in Token \cup {NoToken} : t.root \in Nat
      BY <1>7 DEF Token
    <3>2. \A d \in Calls : /\ call[d].token \in Token \cup {NoToken}
                           /\ call[d].pair \in Token \cup {NoToken}
      BY <1>1 DEF Exchange
    <3>3. QED
      BY <3>1, <3>2
  <2>4. \A d \in Calls : d # c =>
          call'[d].token.root <= issued' /\ call'[d].pair.root <= issued'
    BY <1>1, <1>3, <1>6, <2>3 DEF Inv, Numbered
  <2>5. QED
    BY <2>1, <2>2, <2>4 DEF Numbered
<1>10. OneTokenPerSession'
  BY <1>2, <1>3 DEF Inv, OneTokenPerSession
<1>11. Alone'
  <2> SUFFICES ASSUME NEW e \in Calls, call'[e].at = "dropped",
                      call'[e].token.root \notin forked'
               PROVE  /\ \A t \in rows' : t.root # call'[e].token.root
                      /\ \A d \in Calls : d # e /\ call'[d].at = "dropped"
                           => call'[d].token.root # call'[e].token.root
    BY DEF Alone
  <2>1. e # c /\ call'[e] = call[e] /\ call[e].token.root \notin forked
    BY <1>3, <1>4, <1>6
  <2>2. /\ \A t \in rows : t.root # call[e].token.root
        /\ \A d \in Calls : d # e /\ call[d].at = "dropped"
                              => call[d].token.root # call[e].token.root
    BY <2>1 DEF Inv, Alone
  <2>3. call[e].token.root # root
    BY <2>1
  <2>4. QED
    BY <2>1, <2>2, <2>3, <1>2, <1>3, <1>4, <1>6
<1>12. QED
  BY <1>5, <1>8, <1>9, <1>10, <1>11 DEF Inv

(* A client may present any pair it knows: it was drawn.                   *)
LEMMA SendKeeps ==
  ASSUME Inv, NEW c \in Calls, ClientSends(c)
  PROVE  Inv'
<1>1. PICK op \in Ops, access \in Known, token \in Known :
        call' = [call EXCEPT ![c] = Request(op, access, token)]
  BY DEF ClientSends
<1> DEFINE r == Request(op, access, token)
<1>2. call \in [Calls -> Exchange] /\ rows \subseteq Token
  BY DEF Inv, AuthTypeOK
<1>3. Known \subseteq Token \cup {NoToken}
  BY <1>2 DEF Known, Exchange
<1>4. token.root <= issued /\ NoToken.root <= issued
  BY DEF Known, Inv, Numbered, NoToken, AuthTypeOK
<1>5. r \in Exchange /\ r.at = "sent" /\ r.token = token /\ r.pair = NoToken
  BY <1>3 DEF Request, Exchange, Stages
<1> HIDE DEF r
<1>6. call'[c] = r /\ \A d \in Calls : d # c => call'[d] = call[d]
  BY <1>1, <1>2 DEF r
<1>7. call' \in [Calls -> Exchange]
  BY <1>1, <1>2, <1>5 DEF r
<1>8. UNCHANGED <<now, issued, rows, faults, forked, ended>>
  BY DEF ClientSends
<1>9. AuthTypeOK'
  BY <1>7, <1>8 DEF Inv, AuthTypeOK
<1>10. \A d \in Calls :
        /\ call'[d].at \in {"found", "dropped"} => call'[d].token \in Token
        /\ call'[d].at = "dropped" => call[d].at = "dropped" /\ call'[d].token = call[d].token
        /\ call'[d].token.root <= issued /\ call'[d].pair.root <= issued
  BY <1>4, <1>5, <1>6 DEF Inv, Holds, Numbered
<1>11. QED
  BY <1>8, <1>9, <1>10, Quiet

(* A death of the process loses requests and nothing else.                 *)
LEMMA CrashKeeps == ASSUME Inv, Crash PROVE Inv'
<1> DEFINE a == Answered("lost", NoToken)
<1>1. a \in Exchange /\ a.at = "lost" /\ a.token = NoToken /\ a.pair = NoToken
  BY AnswerType DEF Finished
<1>2. /\ call \in [Calls -> Exchange] /\ faults \in Nat
      /\ call' = [c \in Calls |-> IF call[c].at \in Finished THEN call[c] ELSE a]
      /\ faults' = faults + 1 /\ UNCHANGED <<now, issued, rows, forked, ended>>
  BY DEF Inv, AuthTypeOK, Crash, Fault
<1> HIDE DEF a
<1>3. AuthTypeOK'
  BY <1>1, <1>2 DEF Inv, AuthTypeOK
<1>4. NoToken.root <= issued
  BY DEF NoToken, Inv, AuthTypeOK
<1>5. \A d \in Calls : call'[d] = a \/ call'[d] = call[d]
  BY <1>2
<1>6. \A d \in Calls :
        /\ call'[d].at \in {"found", "dropped"} => call'[d].token \in Token
        /\ call'[d].at = "dropped" => call[d].at = "dropped" /\ call'[d].token = call[d].token
        /\ call'[d].token.root <= issued /\ call'[d].pair.root <= issued
  BY <1>1, <1>4, <1>5 DEF Inv, Holds, Numbered
<1>7. QED
  BY <1>2, <1>3, <1>6, Quiet

(* Every step preserves the invariant.                                     *)
LEMMA NextInv == Inv /\ [AuthNext]_authVars => Inv'
<1> SUFFICES ASSUME Inv, [AuthNext]_authVars PROVE Inv'
  OBVIOUS
<1>1. now \in Nat /\ faults \in Nat /\ ended \subseteq Nat /\ issued \in Nat /\ forked \subseteq Nat
  BY DEF Inv, AuthTypeOK
<1>2. CASE Tick
  <2>1. AuthTypeOK'
    BY <1>1, <1>2 DEF Tick, Inv, AuthTypeOK
  <2>2. QED
    BY <2>1, <1>2, Quiet DEF Tick, Inv, Holds, Numbered
<1>3. CASE Crash
  BY <1>3, CrashKeeps
<1>4. CASE \E c \in Calls : ClientSends(c)
  BY <1>4, SendKeeps
<1>5. ASSUME NEW c \in Calls, AnswerLost(c) PROVE Inv'
  <2>1. faults' \in Nat /\ ended' \subseteq Nat /\ now' \in Nat
    BY <1>1, <1>5 DEF AnswerLost, Fault
  <2>2. Answer(c, "lost") /\ "lost" \in Finished /\ rows' \subseteq rows
        /\ forked' = forked /\ issued' = issued
    BY <1>5 DEF AnswerLost, Finished
  <2>3. QED
    BY <2>1, <2>2, AnswerKeeps
<1>6. ASSUME NEW c \in Calls, Serve(c) PROVE Inv'
  <2>1. CASE Login(c)
    <3>1. Grant(c, issued + 1) /\ issued + 1 \in Nat \ {0} /\ issued + 1 <= issued + 1
      BY <2>1, <1>1 DEF Login
    <3>2. \A t \in rows : t.root # issued + 1
      BY <1>1 DEF Inv, Numbered, AuthTypeOK, Token
    <3>3. \A d \in Calls : call[d].token.root # issued + 1
      BY <1>1 DEF Inv, Numbered, AuthTypeOK, Exchange, Token, NoToken
    <3>4. QED
      BY <3>1, <3>2, <3>3, GrantKeeps
  <2>2. CASE StoreToken(c)
    <3>1. call[c].at = "dropped" /\ Grant(c, call[c].token.root)
      BY <2>2 DEF StoreToken, Running
    <3>2. call[c].token \in Token /\ call[c].token.root <= issued
      BY <3>1 DEF Inv, Holds, Numbered
    <3>3. call[c].token.root \in Nat \ {0} /\ call[c].token.root <= issued + 1
      BY <3>2, <1>1 DEF Token
    <3>4. \/ call[c].token.root \in forked
          \/ /\ \A t \in rows : t.root # call[c].token.root
             /\ \A d \in Calls : d # c /\ call[d].at = "dropped"
                                   => call[d].token.root # call[c].token.root
      BY <3>1 DEF Inv, Alone
    <3>5. QED
      BY <3>1, <3>3, <3>4, GrantKeeps
  <2>3. CASE DropToken(c) \/ DropTokenFails(c)
    <3>1. Running(c, "refresh", "found") /\ Proceed(c, "dropped")
      BY <2>3 DEF DropToken, DropTokenFails
    <3>2. call[c].token.root \in Nat
      BY <3>1 DEF Running, Inv, Holds, Token
    <3>3. CASE DropToken(c)
      BY <3>1, <3>2, <3>3, <1>1, DropKeeps DEF DropToken
    <3>4. CASE DropTokenFails(c)
      <4>1. /\ forked' = forked \cup {call[c].token.root} /\ rows' = rows
            /\ UNCHANGED <<now, issued, ended>> /\ faults' \in Nat
        BY <3>4, <1>1 DEF DropTokenFails, Fault
      <4>2. forked \subseteq forked' /\ forked' \subseteq Nat /\ rows' \subseteq rows
        BY <4>1, <3>2, <1>1
      <4>3. call[c].token.root \in forked'
        BY <4>1
      <4>4. QED
        BY <4>1, <4>2, <4>3, <3>1, DropKeeps
    <3>5. QED
      BY <2>3, <3>3, <3>4
  <2>4. CASE FindToken(c)
    <3>1. CASE Accepted(call[c].token)
      <4>1. call[c].token \in Token
        BY <3>1 DEF Accepted, Inv, AuthTypeOK
      <4>2. QED
        BY <2>4, <3>1, <4>1, ProceedKeeps DEF FindToken
    <3>2. CASE ~Accepted(call[c].token)
      BY <2>4, <3>2, <1>1, AnswerKeeps DEF FindToken, Finished
    <3>3. QED
      BY <3>1, <3>2
  <2>5. CASE Authenticate(c)
    <3>1. \/ \E status \in Finished : Answer(c, status)
          \/ Proceed(c, "authed")
      BY <2>5 DEF Authenticate, Finished
    <3>2. UNCHANGED <<now, issued, rows, faults, forked, ended>>
      BY <2>5 DEF Authenticate
    <3>3. QED
      BY <3>1, <3>2, <1>1, AnswerKeeps, ProceedKeeps
  <2>6. CASE \/ LoginRefused(c) \/ LoginFails(c) \/ FindTokenFails(c) \/ StoreTokenFails(c)
             \/ Logout(c) \/ LogoutFails(c) \/ LogoutAll(c) \/ LogoutAllFails(c)
    <3>1. /\ \E status \in Finished : Answer(c, status)
          /\ rows' \subseteq rows /\ forked' = forked /\ issued' = issued
          /\ now' = now /\ faults' \in Nat
      BY <2>6, <1>1 DEF LoginRefused, LoginFails, FindTokenFails, StoreTokenFails,
         Logout, LogoutFails, LogoutAll, LogoutAllFails, Fault, Finished
    <3>2. \/ ended' = ended
          \/ ended' = ended \cup ((1 .. issued) \ Refreshing)
      <4>1. CASE LogoutAll(c)
        BY <4>1 DEF LogoutAll
      <4>2. CASE ~LogoutAll(c)
        BY <2>6, <4>2 DEF LoginRefused, LoginFails, FindTokenFails, StoreTokenFails,
           Logout, LogoutFails, LogoutAllFails
      <4>3. QED
        BY <4>1, <4>2
    <3>3. ended' \subseteq Nat
      <4>1. \A r \in (1 .. issued) \ Refreshing : r \in Nat
        BY <1>1
      <4>2. QED
        BY <3>2, <4>1, <1>1
    <3>4. QED
      BY <3>1, <3>3, <1>1, AnswerKeeps
  <2>7. QED
    BY <1>6, <2>1, <2>2, <2>3, <2>4, <2>5, <2>6 DEF Serve
<1>7. CASE UNCHANGED authVars
  BY <1>7 DEF authVars, Inv, AuthTypeOK, Holds, Numbered, OneTokenPerSession, Alone
<1>8. QED
  BY <1>2, <1>3, <1>4, <1>5, <1>6, <1>7 DEF AuthNext

LEMMA Invariance == AuthSpec => []Inv
<1>1. QED
  BY InitInv, NextInv, PTL DEF AuthSpec

(* Every reachable state is well-typed; in particular a refresh never goes *)
(* on without a token that was really issued.                              *)
THEOREM AuthTypeCorrect == AuthSpec => []AuthTypeOK
<1>1. Inv => AuthTypeOK
  BY DEF Inv
<1>2. QED
  BY <1>1, Invariance, PTL

(* A session never has two valid refresh tokens unless two refreshes found *)
(* the same row or a DELETE failed, for any number of concurrent requests. *)
THEOREM OneTokenCorrect == AuthSpec => []OneTokenPerSession
<1>1. Inv => OneTokenPerSession
  BY DEF Inv
<1>2. QED
  BY <1>1, Invariance, PTL

-----------------------------------------------------------------------------

(* What an ended session cannot have any more: a row, or a refresh that    *)
(* found one; and only sessions that began have ended.                     *)
Over ==
    /\ AllSessionsEnded
    /\ Refreshing \cap ended = {}
    /\ \A r \in ended : r <= issued

(* A step that ends no session keeps them over if every row that comes and *)
(* every refresh that begins is of a session with a row, or a refresh, or  *)
(* of one that begins now.                                                 *)
LEMMA OverKept ==
  ASSUME Inv, Over, ended' = ended, issued' >= issued, issued' \in Nat,
         \A t \in rows' : t \in rows \/ t.root \in Refreshing \/ t.root > issued,
         \A c \in Calls : call'[c].at \in {"found", "dropped"} =>
            \/ call'[c].token \in rows
            \/ call[c].at \in {"found", "dropped"} /\ call'[c].token = call[c].token
  PROVE  Over'
<1>1. issued \in Nat /\ ended \subseteq Nat
  BY DEF Inv, AuthTypeOK
<1>2. \A r \in ended : r <= issued' /\ ~(r > issued)
  BY <1>1 DEF Over
<1>3. AllSessionsEnded'
  BY <1>2 DEF Over, AllSessionsEnded
<1>4. \A c \in Calls : call'[c].at \in {"found", "dropped"} => call'[c].token.root \notin ended
  BY DEF Over, AllSessionsEnded, Refreshing
<1>5. QED
  BY <1>2, <1>3, <1>4 DEF Over, Refreshing

(* An answer begins no refresh, and the answered call is none.             *)
LEMMA AnswerStage ==
  ASSUME Inv, NEW c \in Calls, NEW a, a.at \notin {"found", "dropped"},
         call' = [call EXCEPT ![c] = a]
  PROVE  \A d \in Calls : call'[d].at \in {"found", "dropped"} =>
            call[d].at \in {"found", "dropped"} /\ call'[d].token = call[d].token
<1>1. call \in [Calls -> Exchange]
  BY DEF Inv, AuthTypeOK
<1>2. QED
  BY <1>1

(* A request that proceeds keeps its token.                                *)
LEMMA ProceedStage ==
  ASSUME Inv, NEW c \in Calls, NEW stage, Proceed(c, stage)
  PROVE  /\ call'[c].token = call[c].token /\ call'[c].at = stage
         /\ \A d \in Calls : d # c => call'[d] = call[d]
<1>1. call \in [Calls -> Exchange]
  BY DEF Inv, AuthTypeOK
<1>2. QED
  BY <1>1 DEF Proceed, Exchange

LEMMA OverStep == Inv /\ Over /\ [AuthNext]_authVars => Over'
<1> SUFFICES ASSUME Inv, Over, [AuthNext]_authVars PROVE Over'
  OBVIOUS
<1>1. issued \in Nat /\ ended \subseteq Nat /\ issued >= issued /\ issued + 1 >= issued
      /\ issued + 1 \in Nat /\ issued + 1 > issued
  BY DEF Inv, AuthTypeOK
<1>2. CASE Tick \/ UNCHANGED authVars
  BY <1>1, <1>2, OverKept DEF Tick, authVars
<1>3. CASE Crash
  <2>1. \A d \in Calls : call'[d] = call[d] \/ call'[d].at = "lost"
    BY <1>3 DEF Crash, Answered
  <2>2. QED
    BY <1>1, <1>3, <2>1, OverKept DEF Crash
<1>4. ASSUME NEW c \in Calls, ClientSends(c) PROVE Over'
  <2>1. PICK r : r.at = "sent" /\ call' = [call EXCEPT ![c] = r]
    BY <1>4 DEF ClientSends, Request
  <2>2. UNCHANGED <<issued, rows, ended>>
    BY <1>4 DEF ClientSends
  <2>3. QED
    BY <1>1, <2>1, <2>2, AnswerStage, OverKept
<1>5. ASSUME NEW c \in Calls, NEW status \in Finished, Answer(c, status),
             rows' \subseteq rows, issued' = issued, ended' = ended
      PROVE  Over'
  <2>1. Answered(status, NoToken).at \notin {"found", "dropped"}
    BY DEF Answered, Finished
  <2>2. QED
    BY <1>1, <1>5, <2>1, AnswerStage, OverKept DEF Answer
<1>6. ASSUME NEW c \in Calls, NEW root, Grant(c, root), root \in Refreshing \/ root > issued
      PROVE  Over'
  <2> DEFINE pair == [id |-> issued + 1, root |-> root, born |-> now]
  <2>1. /\ issued' = issued + 1 /\ rows' = rows \cup {pair} /\ ended' = ended
        /\ call' = [call EXCEPT ![c] = Answered("ok", pair)]
    BY <1>6 DEF Grant
  <2>2. pair.root = root /\ Answered("ok", pair).at = "ok"
    BY DEF Answered
  <2> HIDE DEF pair
  <2>3. \A t \in rows' : t \in rows \/ t.root \in Refreshing \/ t.root > issued
    BY <1>6, <2>1, <2>2
  <2>4. \A d \in Calls : call'[d].at \in {"found", "dropped"} =>
          call[d].at \in {"found", "dropped"} /\ call'[d].token = call[d].token
    BY <2>1, <2>2, AnswerStage
  <2>5. QED
    BY <1>1, <2>1, <2>3, <2>4, OverKept
<1>7. ASSUME NEW c \in Calls, NEW stage, Proceed(c, stage),
             stage \in {"found", "dropped"} =>
               call[c].token \in rows \/ call[c].at \in {"found", "dropped"},
             rows' \subseteq rows, issued' = issued, ended' = ended
      PROVE  Over'
  BY <1>1, <1>7, ProceedStage, OverKept
<1>8. ASSUME NEW c \in Calls, LogoutAll(c) PROVE Over'
  <2>1. /\ rows' = {} /\ ended' = ended \cup ((1 .. issued) \ Refreshing) /\ issued' = issued
        /\ call' = [call EXCEPT ![c] = Answered("ok", NoToken)]
    BY <1>8 DEF LogoutAll, Answer
  <2>2. Answered("ok", NoToken).at = "ok"
    BY DEF Answered
  <2>3. \A d \in Calls : call'[d].at \in {"found", "dropped"} =>
          call[d].at \in {"found", "dropped"} /\ call'[d].token = call[d].token
    BY <2>1, <2>2, AnswerStage
  <2>4. Refreshing' \subseteq Refreshing
    BY <2>3 DEF Refreshing
  <2>5. \A r \in ended' : r <= issued'
    BY <1>1, <2>1 DEF Over
  <2>6. QED
    BY <2>1, <2>4, <2>5 DEF Over, AllSessionsEnded
<1>9. ASSUME NEW c \in Calls, Serve(c) PROVE Over'
  <2>1. CASE Login(c)
    BY <1>1, <1>6, <2>1 DEF Login
  <2>2. CASE StoreToken(c)
    <3>1. Grant(c, call[c].token.root) /\ call[c].at = "dropped"
      BY <2>2 DEF StoreToken, Running
    <3>2. call[c].token.root \in Refreshing
      BY <3>1 DEF Refreshing
    <3>3. QED
      BY <1>6, <3>1, <3>2
  <2>3. CASE FindToken(c)
    BY <1>5, <1>7, <2>3 DEF FindToken, Accepted, Finished
  <2>4. CASE DropToken(c) \/ DropTokenFails(c)
    BY <1>7, <2>4 DEF DropToken, DropTokenFails, Running
  <2>5. CASE Authenticate(c)
    BY <1>5, <1>7, <2>5 DEF Authenticate, Finished
  <2>6. CASE LogoutAll(c)
    BY <1>8, <2>6
  <2>7. CASE \/ LoginRefused(c) \/ LoginFails(c) \/ FindTokenFails(c) \/ StoreTokenFails(c)
             \/ Logout(c) \/ LogoutFails(c) \/ LogoutAllFails(c)
    BY <1>5, <2>7 DEF LoginRefused, LoginFails, FindTokenFails, StoreTokenFails,
       Logout, LogoutFails, LogoutAllFails, Finished
  <2>8. QED
    BY <1>9, <2>1, <2>2, <2>3, <2>4, <2>5, <2>6, <2>7 DEF Serve
<1>10. ASSUME NEW c \in Calls, AnswerLost(c) PROVE Over'
  BY <1>5, <1>10 DEF AnswerLost, Finished
<1>11. QED
  BY <1>2, <1>3, <1>4, <1>9, <1>10 DEF AuthNext

(* A logout everywhere leaves no valid refresh token to any session of its *)
(* time, now or later, but to those that were being refreshed: for any     *)
(* number of concurrent requests, failures and deaths (LogoutAll).         *)
THEOREM SessionsEndCorrect == AuthSpec => []AllSessionsEnded
<1>1. AuthInit => Over
  BY DEF AuthInit, Over, AllSessionsEnded
<1>2. Over => AllSessionsEnded
  BY DEF Over
<1>3. QED
  BY <1>1, <1>2, Invariance, OverStep, PTL DEF AuthSpec

-----------------------------------------------------------------------------

(* What Sessions sees of a token.                                          *)
Seen(t) == [id |-> t.id, root |-> t.root]

LEMMA HeldSeen == Held = {Seen(t) : t \in rows \cup Presented}
BY DEF Held, Seen

(* A step that hands nothing out, and in which no token turns up that was  *)
(* not stored or presented, ends nothing but what it takes away.           *)
LEMMA EndStep ==
  ASSUME issued' = issued, rows' \subseteq rows,
         \A d \in Calls : call'[d].at \in {"found", "dropped"} =>
            \/ call'[d].token \in rows
            \/ call[d].at \in {"found", "dropped"} /\ call'[d].token = call[d].token
  PROVE  Promise!Next
<1>1. Presented' \subseteq rows \cup Presented
  BY DEF Presented
<1>2. Held' \subseteq Held
  BY <1>1 DEF Held
<1>3. QED
  BY <1>2 DEF Promise!Next, Promise!End

(* A pair handed out: a login's begins a session, a refresh's takes the    *)
(* place of the token that was looked up, or joins it.                     *)
LEMMA GrantStep ==
  ASSUME Inv, NEW c \in Calls, NEW root, Grant(c, root),
         \/ root = issued + 1 /\ call[c].at = "sent"
         \/ root = call[c].token.root /\ call[c].at = "dropped"
  PROVE  Promise!Next
<1> DEFINE pair == [id |-> issued + 1, root |-> root, born |-> now]
           others == {call[d].token :
                        d \in {e \in Calls : e # c /\ call[e].at \in {"found", "dropped"}}}
           rest == {Seen(t) : t \in rows \cup others}
<1>1. /\ issued' = issued + 1 /\ rows' = rows \cup {pair}
      /\ call' = [call EXCEPT ![c] = Answered("ok", pair)]
  BY DEF Grant
<1>2. Seen(pair) = [id |-> issued', root |-> root]
  BY <1>1 DEF Seen
<1>3. call \in [Calls -> Exchange]
  BY DEF Inv, AuthTypeOK
<1>4. call'[c].at = "ok" /\ \A d \in Calls : d # c => call'[d] = call[d]
  BY <1>1, <1>3 DEF Answered
<1>5. Presented' = others
  BY <1>4 DEF Presented
<1>6. Held' = rest \cup {[id |-> issued', root |-> root]}
  <2> HIDE DEF pair, others
  <2>1. Held' = {Seen(t) : t \in (rows \cup {pair}) \cup others}
    BY <1>1, <1>5 DEF Held, Seen
  <2>2. QED
    BY <2>1, <1>2
<1>7. CASE root = issued + 1 /\ call[c].at = "sent"
  <2>1. others = Presented
    BY <1>7 DEF Presented
  <2>2. rest = Held
    BY <2>1, HeldSeen
  <2>3. QED
    BY <1>1, <1>6, <1>7, <2>2 DEF Promise!Next, Promise!Begin
<1>8. CASE root = call[c].token.root /\ call[c].at = "dropped"
  <2>1. Presented = others \cup {call[c].token}
    BY <1>8 DEF Presented
  <2> HIDE DEF others
  <2>2. Held = rest \cup {Seen(call[c].token)}
    BY <2>1, HeldSeen
  <2>3. Seen(call[c].token).root = root
    BY <1>8 DEF Seen
  <2> DEFINE token == Seen(call[c].token)
  <2> HIDE DEF rest, token
  <2>4. Held = rest \cup {token} /\ token.root = root
    BY <2>2, <2>3 DEF token
  <2>5. rest \in {Held, Held \ {token}} /\ token \in Held
    BY <2>4
  <2>6. Promise!Exchange(token)
    BY <1>1, <1>6, <2>4, <2>5 DEF Promise!Exchange
  <2>7. QED
    BY <2>5, <2>6 DEF Promise!Next
<1>9. QED
  BY <1>7, <1>8

LEMMA PromiseStep == Inv /\ [AuthNext]_authVars => [Promise!Next]_<<issued, Held>>
<1> SUFFICES ASSUME Inv, [AuthNext]_authVars
             PROVE  Promise!Next \/ UNCHANGED <<issued, Held>>
  OBVIOUS
<1>1. CASE Tick \/ UNCHANGED authVars
  BY <1>1, EndStep DEF Tick, authVars
<1>2. CASE Crash
  <2>1. \A d \in Calls : call'[d] = call[d] \/ call'[d].at = "lost"
    BY <1>2 DEF Crash, Answered
  <2>2. QED
    BY <1>2, <2>1, EndStep DEF Crash
<1>3. ASSUME NEW c \in Calls, ClientSends(c) PROVE Promise!Next
  <2>1. PICK r : r.at = "sent" /\ call' = [call EXCEPT ![c] = r]
    BY <1>3 DEF ClientSends, Request
  <2>2. UNCHANGED <<issued, rows>>
    BY <1>3 DEF ClientSends
  <2>3. QED
    BY <2>1, <2>2, AnswerStage, EndStep
<1>4. ASSUME NEW c \in Calls, NEW status \in Finished, Answer(c, status),
             rows' \subseteq rows, issued' = issued
      PROVE  Promise!Next
  <2>1. Answered(status, NoToken).at \notin {"found", "dropped"}
    BY DEF Answered, Finished
  <2>2. QED
    BY <1>4, <2>1, AnswerStage, EndStep DEF Answer
<1>5. ASSUME NEW c \in Calls, NEW stage, Proceed(c, stage),
             stage \in {"found", "dropped"} =>
               call[c].token \in rows \/ call[c].at \in {"found", "dropped"},
             rows' \subseteq rows, issued' = issued
      PROVE  Promise!Next
  BY <1>5, ProceedStage, EndStep
<1>6. ASSUME NEW c \in Calls, Serve(c) PROVE Promise!Next
  <2>1. CASE Login(c)
    BY <2>1, GrantStep DEF Login, Running
  <2>2. CASE StoreToken(c)
    BY <2>2, GrantStep DEF StoreToken, Running
  <2>3. CASE FindToken(c)
    BY <1>4, <1>5, <2>3 DEF FindToken, Accepted, Finished
  <2>4. CASE DropToken(c) \/ DropTokenFails(c)
    BY <1>5, <2>4 DEF DropToken, DropTokenFails, Running
  <2>5. CASE Authenticate(c)
    BY <1>4, <1>5, <2>5 DEF Authenticate, Finished
  <2>6. CASE \/ LoginRefused(c) \/ LoginFails(c) \/ FindTokenFails(c) \/ StoreTokenFails(c)
             \/ Logout(c) \/ LogoutFails(c) \/ LogoutAll(c) \/ LogoutAllFails(c)
    BY <1>4, <2>6 DEF LoginRefused, LoginFails, FindTokenFails, StoreTokenFails,
       Logout, LogoutFails, LogoutAll, LogoutAllFails, Finished
  <2>7. QED
    BY <1>6, <2>1, <2>2, <2>3, <2>4, <2>5, <2>6 DEF Serve
<1>7. ASSUME NEW c \in Calls, AnswerLost(c) PROVE Promise!Next
  BY <1>4, <1>7 DEF AnswerLost, Finished
<1>8. QED
  BY <1>1, <1>2, <1>3, <1>6, <1>7 DEF AuthNext

(* AuthSession implements Sessions, for any number of concurrent requests, *)
(* failures and deaths: no token that was exchanged, logged out or lost is *)
(* honoured again, and none begins a session but a login's.                *)
THEOREM PromiseKept == AuthSpec => KeepsPromise
<1>1. AuthInit => Promise!Init
  <2> SUFFICES ASSUME AuthInit PROVE issued = 0 /\ Held = {}
    BY DEF Promise!Init
  <2>1. Presented = {}
    BY DEF AuthInit, Answered, Presented
  <2>2. QED
    BY <2>1 DEF AuthInit, Held
<1>2. QED
  BY <1>1, Invariance, PromiseStep, PTL DEF AuthSpec, KeepsPromise, Promise!Spec

-----------------------------------------------------------------------------

(* Times and the days they fall on.                                        *)
LEMMA Days ==
  ASSUME NEW s \in Nat, NEW t \in Nat
  PROVE  /\ DayOf(s) >= DayOf(t) => t < s + Day
         /\ DayOf(s) < DayOf(t) => s < t
<1> DEFINE p == DayOf(s)
           q == DayOf(t)
<1>1. p \in Nat /\ Day * p <= s /\ s < Day * (p + 1)
  BY AuthAssumption DEF DayOf
<1>2. q \in Nat /\ Day * q <= t /\ t < Day * (q + 1)
  BY AuthAssumption DEF DayOf
<1> HIDE DEF p, q
<1>3. ASSUME q <= p PROVE t < s + Day
  <2>1. Day * (q + 1) <= Day * (p + 1) /\ Day * (p + 1) = Day * p + Day
    BY <1>1, <1>2, <1>3, AuthAssumption
  <2>2. QED
    BY <1>1, <1>2, <2>1, AuthAssumption
<1>4. ASSUME p + 1 <= q PROVE s < t
  <2>1. Day * (p + 1) <= Day * q
    BY <1>1, <1>2, <1>4, AuthAssumption
  <2>2. QED
    BY <1>1, <1>2, <2>1, AuthAssumption
<1>5. QED
  BY <1>1, <1>2, <1>3, <1>4 DEF p, q

(* The refresh tokens of clients with any clock and any lifetime: none is  *)
(* honoured for a whole day after its time, though GetRefreshToken compares*)
(* texts of two formats, and a stored one is not turned down before it     *)
(* unless a statement failed.                                              *)
THEOREM WindowCorrect == AuthSpec => RefreshWindow
<1> DEFINE Window(c) ==
             Running(c, "refresh", "sent") =>
               /\ call'[c].at = "found" => now < ExpiresAt(call[c].token) + Day
               /\ call'[c].at = "denied" /\ faults' = faults /\ call[c].token \in rows
                    => ExpiresAt(call[c].token) <= now
<1>1. Inv /\ [AuthNext]_authVars => [\A c \in Calls : Window(c)]_authVars
  <2> SUFFICES ASSUME Inv, AuthNext, NEW c \in Calls, Running(c, "refresh", "sent")
               PROVE  /\ call'[c].at = "found" => now < ExpiresAt(call[c].token) + Day
                      /\ call'[c].at = "denied" /\ faults' = faults /\ call[c].token \in rows
                           => ExpiresAt(call[c].token) <= now
    BY DEF authVars
  <2>1. call \in [Calls -> Exchange] /\ now \in Nat /\ faults \in Nat /\ rows \subseteq Token
    BY DEF Inv, AuthTypeOK
  <2>2. call[c].at = "sent" /\ call[c].op = "refresh"
    BY DEF Running
  <2>3. call[c].token \in rows => ExpiresAt(call[c].token) \in Nat
    BY <2>1, AuthAssumption DEF ExpiresAt, Token
  <2>4. CASE FindToken(c)
    <3>1. CASE Accepted(call[c].token)
      <4>1. call'[c].at = "found"
        BY <2>1, <2>4, <3>1 DEF FindToken, Proceed, Exchange
      <4>2. QED
        BY <2>1, <2>3, <3>1, <4>1, Days DEF Accepted, Unexpired
    <3>2. CASE ~Accepted(call[c].token)
      <4>1. call'[c].at = "denied"
        BY <2>1, <2>4, <3>2 DEF FindToken, Answer, Answered
      <4>2. ASSUME call[c].token \in rows PROVE ExpiresAt(call[c].token) <= now
        <5>1. ~(DayOf(ExpiresAt(call[c].token)) >= DayOf(now))
          BY <3>2, <4>2 DEF Accepted, Unexpired
        <5>2. DayOf(ExpiresAt(call[c].token)) \in Nat /\ DayOf(now) \in Nat
          BY <2>1, <2>3, <4>2, AuthAssumption DEF DayOf
        <5>3. QED
          BY <2>1, <2>3, <4>2, <5>1, <5>2, Days
      <4>3. QED
        BY <4>1, <4>2
    <3>3. QED
      BY <3>1, <3>2
  <2>5. CASE FindTokenFails(c) \/ AnswerLost(c) \/ Crash
    <3>1. faults' # faults
      BY <2>1, <2>5 DEF FindTokenFails, AnswerLost, Crash, Fault
    <3>2. call'[c].at # "found"
      BY <2>1, <2>2, <2>5 DEF FindTokenFails, AnswerLost, Crash, Answer, Answered
    <3>3. QED
      BY <3>1, <3>2
  <2>6. ASSUME call'[c] = call[c] PROVE call'[c].at = "sent"
    BY <2>2, <2>6
  <2>7. CASE Tick
    BY <2>6, <2>7 DEF Tick
  <2>8. ASSUME NEW d \in Calls, d # c, Serve(d) \/ AnswerLost(d) \/ ClientSends(d)
        PROVE  call'[c] = call[c]
    <3>1. ASSUME NEW x, call' = [call EXCEPT ![d] = x] PROVE call'[c] = call[c]
      BY <2>1, <2>8, <3>1
    <3>2. ASSUME NEW stage, Proceed(d, stage) PROVE call'[c] = call[c]
      BY <2>1, <2>8, <3>2 DEF Proceed
    <3>3. ASSUME NEW root, Grant(d, root) PROVE call'[c] = call[c]
      BY <3>1, <3>3 DEF Grant
    <3>4. CASE Login(d) \/ StoreToken(d)
      BY <3>3, <3>4 DEF Login, StoreToken
    <3>5. CASE \/ LoginRefused(d) \/ LoginFails(d) \/ FindTokenFails(d) \/ StoreTokenFails(d)
               \/ Logout(d) \/ LogoutFails(d) \/ LogoutAll(d) \/ LogoutAllFails(d)
               \/ AnswerLost(d)
      BY <3>1, <3>5 DEF LoginRefused, LoginFails, FindTokenFails, StoreTokenFails,
         Logout, LogoutFails, LogoutAll, LogoutAllFails, AnswerLost, Answer
    <3>6. CASE FindToken(d) \/ Authenticate(d)
      BY <3>1, <3>2, <3>6 DEF FindToken, Authenticate, Answer
    <3>7. CASE DropToken(d) \/ DropTokenFails(d)
      BY <3>2, <3>7 DEF DropToken, DropTokenFails
    <3>8. CASE ClientSends(d)
      BY <3>1, <3>8 DEF ClientSends
    <3>9. QED
      BY <2>8, <3>4, <3>5, <3>6, <3>7, <3>8 DEF Serve
  <2>9. Serve(c) => FindToken(c) \/ FindTokenFails(c)
    BY <2>2 DEF Serve, Login, LoginRefused, LoginFails, DropToken, DropTokenFails, StoreToken,
       StoreTokenFails, Authenticate, Logout, LogoutFails, LogoutAll, LogoutAllFails, Running
  <2>10. ~ClientSends(c)
    BY <2>2 DEF ClientSends, Finished
  <2>11. CASE \E d \in Calls : Serve(d) \/ AnswerLost(d) \/ ClientSends(d)
    <3>1. PICK d \in Calls : Serve(d) \/ AnswerLost(d) \/ ClientSends(d)
      BY <2>11
    <3>2. CASE d = c
      BY <2>4, <2>5, <2>9, <2>10, <3>1, <3>2
    <3>3. CASE d # c
      <4>1. call'[c].at = "sent"
        BY <2>6, <2>8, <3>1, <3>3
      <4>2. QED
        BY <4>1
    <3>4. QED
      BY <3>2, <3>3
  <2>12. QED
    BY <2>5, <2>7, <2>11 DEF AuthNext
<1>2. QED
  BY <1>1, Invariance, PTL DEF AuthSpec, RefreshWindow
=============================================================================
