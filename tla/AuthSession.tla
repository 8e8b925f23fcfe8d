---------------------------- MODULE AuthSession ----------------------------
(***************************************************************************)
(* How the API hands out and takes back the tokens of an administrator.    *)
(*                                                                         *)
(* A login answers with a pair: an access token, a JWT valid for AccessTTL *)
(* that nothing can take back, and a refresh token, a row of               *)
(* refresh_tokens.  A refresh exchanges the refresh token for a new pair;  *)
(* it looks the row up, deletes it and inserts the new one in statements   *)
(* of their own, while other requests run theirs.  The two tokens of a     *)
(* pair are drawn together and are one record here, of which a request     *)
(* shows the access half in its header and the refresh half in its body.   *)
(*                                                                         *)
(* call[c] is one HTTP request or, once answered, its answer.  There is    *)
(* one administrator: the API creates no users.                            *)
(* Time is counted in ticks of which Day make a day (UTC).                 *)
(***************************************************************************)
EXTENDS Naturals

CONSTANTS
    Calls,      \* concurrent HTTP requests
    AccessTTL,  \* JWT_ACCESS_TTL
    RefreshTTL, \* JWT_REFRESH_TTL
    Day,        \* ticks in a day
    MaxIssued,  \* bound on the pairs arbitrary clients obtain
    MaxTime,    \* bound on the clock
    MaxFaults   \* bound on failing statements

ASSUME AuthAssumption ==
    /\ AccessTTL \in Nat /\ RefreshTTL \in Nat /\ Day \in Nat \ {0}
    /\ MaxIssued \in Nat /\ MaxTime \in Nat /\ MaxFaults \in Nat

VARIABLES
    now,     \* the clock
    issued,  \* how many pairs were drawn
    rows,    \* refresh_tokens
    call,    \* HTTP requests
    faults,  \* statements that failed
    forked,  \* history: sessions whose token may have been exchanged twice
    ended    \* history: sessions a logout-all has ended

authVars == <<now, issued, rows, call, faults, forked, ended>>

(* A pair: its number, the login its session began with, and its birthday. *)
Token == [id : Nat \ {0}, root : Nat \ {0}, born : Nat]
NoToken == [id |-> 0, root |-> 0, born |-> 0]

Ops == {"login", "refresh", "get", "logout", "logoutAll"}

(* Answers: 200, 401, any other status, and none (the connection broke).   *)
Finished == {"idle", "ok", "denied", "failed", "lost"}
Stages == Finished \cup {"sent", "found", "dropped", "authed"}

Exchange == [at : Stages, op : Ops, access : Token \cup {NoToken},
             token : Token \cup {NoToken}, pair : Token \cup {NoToken}]

Answered(status, pair) ==
    [at |-> status, op |-> "get", access |-> NoToken, token |-> NoToken, pair |-> pair]

AuthInit ==
    /\ now = 0 /\ issued = 0 /\ rows = {} /\ faults = 0
    /\ call = [c \in Calls |-> Answered("idle", NoToken)]
    /\ forked = {} /\ ended = {}

(* --------------------------- the caller's part -------------------------- *)

Request(op, access, token) ==
    [at |-> "sent", op |-> op, access |-> access, token |-> token, pair |-> NoToken]

Running(c, op, stage) == call[c].op = op /\ call[c].at = stage

Proceed(c, stage) == call' = [call EXCEPT ![c].at = stage]

Answer(c, status) == call' = [call EXCEPT ![c] = Answered(status, NoToken)]

Fault == faults < MaxFaults /\ faults' = faults + 1

(* ------------------------------- pairs ---------------------------------- *)

ExpiresAt(t) == t.born + RefreshTTL

DayOf(time) == time \div Day

(* A changed Unexpired: the blank is greater.                              *)
UnexpiredBlank(t) == DayOf(ExpiresAt(t)) > DayOf(now)

(* expires_at > datetime('now') compares texts: "2026-01-08T09:00:00Z"     *)
(* with "2026-01-08 12:00:00".  The days decide, and on one day T is       *)
(* greater than the blank.                                                 *)
Unexpired(t) == DayOf(ExpiresAt(t)) >= DayOf(now)

(* A changed Accepted: the WHERE clause without the token.                 *)
AcceptedUnseen(t) == Unexpired(t)

(* WHERE token = ? AND expires_at > datetime('now').                       *)
Accepted(t) == t \in rows /\ Unexpired(t)

ValidAccess(t) == t # NoToken /\ now < t.born + AccessTTL

(* INSERT INTO refresh_tokens, and the answer with the pair; root is the   *)
(* pair's own number when a session begins.                                *)
Grant(c, root) ==
    LET pair == [id |-> issued + 1, root |-> root, born |-> now]
    IN /\ issued' = issued + 1
       /\ rows' = rows \cup {pair}
       /\ call' = [call EXCEPT ![c] = Answered("ok", pair)]
       /\ UNCHANGED <<now, faults, forked, ended>>

(* ------------------------------- login ---------------------------------- *)

Login(c) == Running(c, "login", "sent") /\ Grant(c, issued + 1)

(* A wrong password (401), or the rate limiter's 429.                      *)
LoginRefused(c) ==
    /\ Running(c, "login", "sent")
    /\ \E status \in {"denied", "failed"} : Answer(c, status)
    /\ UNCHANGED <<now, issued, rows, faults, forked, ended>>

(* GetUserByEmail or StoreRefreshToken fails: 500.                         *)
LoginFails(c) ==
    /\ Running(c, "login", "sent") /\ Fault
    /\ Answer(c, "failed")
    /\ UNCHANGED <<now, issued, rows, forked, ended>>

(* ------------------------------ refresh --------------------------------- *)

FindToken(c) ==
    /\ Running(c, "refresh", "sent")
    /\ IF Accepted(call[c].token) THEN Proceed(c, "found") ELSE Answer(c, "denied")
    /\ UNCHANGED <<now, issued, rows, faults, forked, ended>>

(* Any error of GetRefreshToken is answered as an invalid token.           *)
FindTokenFails(c) ==
    /\ Running(c, "refresh", "sent") /\ Fault
    /\ Answer(c, "denied")
    /\ UNCHANGED <<now, issued, rows, forked, ended>>

(* A changed DropToken: the DELETE matches nothing.                        *)
DropTokenNot(c) ==
    /\ Running(c, "refresh", "found")
    /\ Proceed(c, "dropped")
    /\ forked' = IF call[c].token \in rows THEN forked
                 ELSE forked \cup {call[c].token.root}
    /\ UNCHANGED <<now, issued, rows, faults, ended>>

(* DELETE, which does not say whether it found the row.                    *)
DropToken(c) ==
    /\ Running(c, "refresh", "found")
    /\ Proceed(c, "dropped")
    /\ rows' = rows \ {call[c].token}
    /\ forked' = IF call[c].token \in rows THEN forked
                 ELSE forked \cup {call[c].token.root}
    /\ UNCHANGED <<now, issued, faults, ended>>

(* A failing DELETE is logged and otherwise ignored.                       *)
DropTokenFails(c) ==
    /\ Running(c, "refresh", "found") /\ Fault
    /\ Proceed(c, "dropped")
    /\ forked' = forked \cup {call[c].token.root}
    /\ UNCHANGED <<now, issued, rows, ended>>

StoreToken(c) ==
    Running(c, "refresh", "dropped") /\ Grant(c, call[c].token.root)

(* GetUserByID fails (401) or StoreRefreshToken does (500): the old token  *)
(* is gone and there is no new one.                                        *)
StoreTokenFails(c) ==
    /\ Running(c, "refresh", "dropped") /\ Fault
    /\ \E status \in {"denied", "failed"} : Answer(c, status)
    /\ UNCHANGED <<now, issued, rows, forked, ended>>

(* ------------------------- protected requests --------------------------- *)

(* AuthMiddleware.  "get" stands for every handler that leaves the tokens  *)
(* alone, and is answered at once.                                         *)
Authenticate(c) ==
    /\ call[c].op \in {"get", "logout", "logoutAll"} /\ call[c].at = "sent"
    /\ IF ~ValidAccess(call[c].access) THEN Answer(c, "denied")
       ELSE IF call[c].op = "get" THEN Answer(c, "ok") ELSE Proceed(c, "authed")
    /\ UNCHANGED <<now, issued, rows, faults, forked, ended>>

(* Deletes the refresh token in the body, whoever's header came with it.   *)
Logout(c) ==
    /\ Running(c, "logout", "authed")
    /\ rows' = rows \ {call[c].token}
    /\ Answer(c, "ok")
    /\ UNCHANGED <<now, issued, faults, forked, ended>>

(* The error is logged and the answer is 200.                              *)
LogoutFails(c) ==
    /\ Running(c, "logout", "authed") /\ Fault
    /\ Answer(c, "ok")
    /\ UNCHANGED <<now, issued, rows, forked, ended>>

(* The sessions whose token some refresh has found and not yet replaced.   *)
Refreshing == {call[c].token.root : c \in {d \in Calls : call[d].at \in {"found", "dropped"}}}

(* A changed LogoutAll: only the session that asks is ended.               *)
LogoutAllOwn(c) ==
    /\ Running(c, "logoutAll", "authed")
    /\ rows' = {t \in rows : t.root # call[c].access.root}
    /\ ended' = ended \cup ((1 .. issued) \ Refreshing)
    /\ Answer(c, "ok")
    /\ UNCHANGED <<now, issued, faults, forked>>

(* DELETE WHERE user_id = ?.                                               *)
LogoutAll(c) ==
    /\ Running(c, "logoutAll", "authed")
    /\ rows' = {}
    /\ ended' = ended \cup ((1 .. issued) \ Refreshing)
    /\ Answer(c, "ok")
    /\ UNCHANGED <<now, issued, faults, forked>>

LogoutAllFails(c) ==
    /\ Running(c, "logoutAll", "authed") /\ Fault
    /\ Answer(c, "failed")
    /\ UNCHANGED <<now, issued, rows, forked, ended>>

(* ---------------------------- environment ------------------------------- *)

(* The connection breaks before the handler runs or after it answered.     *)
AnswerLost(c) ==
    /\ call[c].at \in {"sent", "ok", "denied", "failed"} /\ Fault
    /\ Answer(c, "lost")
    /\ UNCHANGED <<now, issued, rows, forked, ended>>

(* The process dies in the middle of its requests; the database and the    *)
(* secret that signs access tokens outlive it.                             *)
Crash ==
    /\ \E c \in Calls : call[c].at \notin Finished
    /\ Fault
    /\ call' = [c \in Calls |-> IF call[c].at \in Finished THEN call[c]
                                ELSE Answered("lost", NoToken)]
    /\ UNCHANGED <<now, issued, rows, forked, ended>>

Tick ==
    /\ now < MaxTime
    /\ now' = now + 1
    /\ UNCHANGED <<issued, rows, call, faults, forked, ended>>

Serve(c) ==
    \/ Login(c) \/ LoginRefused(c) \/ LoginFails(c)
    \/ FindToken(c) \/ FindTokenFails(c) \/ DropToken(c) \/ DropTokenFails(c)
    \/ StoreToken(c) \/ StoreTokenFails(c)
    \/ Authenticate(c) \/ Logout(c) \/ LogoutFails(c)
    \/ LogoutAll(c) \/ LogoutAllFails(c)

(* What arbitrary clients present: a pair that is stored, though it may be *)
(* gone when the handler looks, one just obtained, or nothing.             *)
Known == rows \cup {call[c].pair : c \in Calls} \cup {NoToken}

ClientSends(c) ==
    /\ call[c].at \in Finished
    /\ \E op \in Ops, access, token \in Known :
         /\ op \in {"login", "refresh"} => access = NoToken /\ issued < MaxIssued
         /\ op \in {"login", "get", "logoutAll"} => token = NoToken
         /\ call' = [call EXCEPT ![c] = Request(op, access, token)]
    /\ UNCHANGED <<now, issued, rows, faults, forked, ended>>

AuthNext ==
    \/ Tick \/ Crash
    \/ \E c \in Calls : Serve(c) \/ AnswerLost(c) \/ ClientSends(c)

AuthSpec == AuthInit /\ [][AuthNext]_authVars

(* ----------------------------- properties ------------------------------- *)

(* Rows, requests and histories are of their types.                        *)
AuthTypeOK ==
    /\ now \in Nat /\ issued \in Nat /\ faults \in Nat
    /\ rows \subseteq Token /\ forked \subseteq Nat /\ ended \subseteq Nat
    /\ call \in [Calls -> Exchange]

(* A session is worth one refresh token: however refreshes, logouts and    *)
(* failures interleave, two valid tokens descend from the same login only  *)
(* if two refreshes found the same row before either deleted it, or a      *)
(* DELETE failed (RefreshToken's lookup and deletion in two statements).   *)
OneTokenPerSession ==
    \A s, t \in rows : s.root = t.root => s = t \/ s.root \in forked

(* A refresh token is honoured for RefreshTTL and never for a whole day    *)
(* longer: a stored one is turned down only when its time is over (or a    *)
(* statement failed), and one that is accepted is less than a day overdue  *)
(* (the comparison of expires_at in GetRefreshToken).                      *)
RefreshWindow ==
    [][\A c \in Calls :
         Running(c, "refresh", "sent") =>
           /\ call'[c].at = "found" => now < ExpiresAt(call[c].token) + Day
           /\ call'[c].at = "denied" /\ faults' = faults /\ call[c].token \in rows
                => ExpiresAt(call[c].token) <= now]_authVars

(* A logout everywhere ends every session of its time, for good, but those *)
(* a refresh has looked up already: that one stores a row afterwards       *)
(* (LogoutAll's single DELETE against the three statements of a refresh).  *)
AllSessionsEnded == \A t \in rows : t.root \notin ended

(* The tokens that are stored, or that a refresh has looked up and will still  *)
(* exchange.                                                                   *)
Presented == {call[c].token : c \in {d \in Calls : call[d].at \in {"found", "dropped"}}}
Held      == {[id |-> t.id, root |-> t.root] : t \in rows \cup Presented}

Promise == INSTANCE Sessions WITH drawn <- issued, held <- Held

(* The statements of concurrent requests, their failures and the deaths of the *)
(* process keep the promise of Sessions: no token is honoured that was not     *)
(* held, so that none comes back, and none begins or joins a session it does   *)
(* not belong to (RefreshToken's three statements against Logout's one).       *)
KeepsPromise == Promise!Spec
=============================================================================
