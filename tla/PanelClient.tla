---------------------------- MODULE PanelClient ----------------------------
(***************************************************************************)
(* The administrator's panel and the API's authentication together.        *)
(*                                                                         *)
(* Every tab of the browser runs the same script: requests carry the       *)
(* access token from local storage, which the tabs share; the first one    *)
(* answered 401 refreshes the tokens while those that follow wait in a     *)
(* queue, and then all are sent again, once.  A tab whose tokens cannot be *)
(* refreshed forgets them and leaves for /login, which is outside the      *)
(* application (its routes start with /admin) and unloads the page.        *)
(*                                                                         *)
(* JavaScript runs to completion between two answers, so an action is all  *)
(* that happens on one.  A slot c carries one request at a time and, while *)
(* that request leads a refresh, the refresh.  The queue is the set of its *)
(* requests: they are all resumed or refused together.                     *)
(***************************************************************************)
EXTENDS AuthSession, FiniteSets

CONSTANTS
    Tabs,      \* browser tabs
    Tab,       \* Tab[c]: the tab slot c belongs to
    MaxLogins  \* bound: a login is tried while there were fewer pairs and logins

ASSUME PanelAssumption == Tab \in [Calls -> Tabs] /\ MaxLogins \in Nat

VARIABLES
    storage,     \* the pair in local storage, or NoToken
    page,        \* "app", "login", or "away": at /login, nothing loaded
    refreshing,  \* isRefreshing
    req,         \* the requests of the tabs
    spent,       \* history: tokens a refresh deleted
    forsaken     \* history: a refresh goes on for a page that was reloaded, or for
                 \* tokens that a login has replaced since

panelVars == <<storage, page, refreshing, req, spent, forsaken>>
vars == <<authVars, panelVars>>

server == <<now, issued, rows, faults, forked, ended>>

Free == [state |-> "free", op |-> "get", retry |-> FALSE, body |-> NoToken]

SlotsOf(t) == {c \in Calls : Tab[c] = t}
Queue(t) == {c \in SlotsOf(t) : req[c].state = "queued"}
Leaders(t) == {c \in SlotsOf(t) : req[c].state = "leading"}

PanelInit ==
    /\ AuthInit
    /\ storage = NoToken
    /\ page = [t \in Tabs |-> "login"]
    /\ refreshing = [t \in Tabs |-> FALSE]
    /\ req = [c \in Calls |-> Free]
    /\ spent = {} /\ forsaken = FALSE

(* --------------------------- local storage ------------------------------ *)

SetTokens(pair) ==
    /\ storage' = pair
    /\ forsaken' = (forsaken /\ pair = storage)

ClearTokens == SetTokens(NoToken)

(* --------------------------- the interceptors --------------------------- *)

(* client(config): the header is read from local storage when it is sent.  *)
Send(S, pair) ==
    call' = [c \in Calls |-> IF c \in S THEN Request(req'[c].op, pair, req'[c].body)
                             ELSE call[c]]

Consume(c) == Answer(c, "idle")

(* A changed Finish: the request is removed from the tab.                  *)
FinishRemoving(c) == req' = [d \in DOMAIN req \ {c} |-> req[d]]

Finish(c) == req' = [req EXCEPT ![c] = Free]

(* window.location.href = '/login', or the user's reload: what the script  *)
(* remembered is gone; the answers to come find nobody.                    *)
Unload(t, where) ==
    /\ page' = [page EXCEPT ![t] = where]
    /\ refreshing' = [refreshing EXCEPT ![t] = FALSE]

Abandon(t, done) ==
    req' = [c \in Calls |->
              IF Tab[c] # t THEN req[c]
              ELSE IF c \notin done /\ req[c].state \in {"pending", "leading", "gone"}
                   THEN [Free EXCEPT !.state = "gone"] ELSE Free]

Begin(c, op) ==
    /\ req[c].state = "free"
    /\ page[Tab[c]] = IF op = "login" THEN "login" ELSE "app"
    /\ op = "login" => issued + Cardinality({d \in Calls : req[d].op = "login"}) < MaxLogins
    /\ op = "logout" => storage # NoToken
    /\ req' = [req EXCEPT ![c] =
                 [state |-> "pending", op |-> op, retry |-> FALSE,
                  body |-> IF op = "logout" THEN storage ELSE NoToken]]
    /\ Send({c}, storage)
    /\ UNCHANGED <<server, storage, page, refreshing, spent, forsaken>>

(* useLogout without a refresh token calls nothing.                        *)
LogoutLocally(t) ==
    /\ page[t] = "app" /\ storage = NoToken
    /\ page' = [page EXCEPT ![t] = "login"]
    /\ UNCHANGED <<authVars, storage, refreshing, req, spent, forsaken>>

(* A 2xx answer and what the hook that asked does with it.                 *)
Succeed(c) ==
    /\ req[c].state = "pending" /\ call[c].at = "ok"
    /\ Finish(c) /\ Consume(c)
    /\ IF req[c].op = "login"
       THEN /\ storage' = call[c].pair
            /\ forsaken' = (\E t \in Tabs : Leaders(t) # {})
            /\ page' = [page EXCEPT ![Tab[c]] = "app"]
       ELSE IF req[c].op \in {"logout", "logoutAll"}
       THEN ClearTokens /\ page' = [page EXCEPT ![Tab[c]] = "login"]
       ELSE UNCHANGED <<storage, page, forsaken>>
    /\ UNCHANGED <<server, refreshing, spent>>

(* Any other answer, and a 401 to a request sent for the second time.  A   *)
(* logout forgets the tokens whatever the answer, and stays on the page.   *)
Reject(c) ==
    /\ req[c].state = "pending"
    /\ \/ call[c].at \in {"failed", "lost"}
       \/ call[c].at = "denied" /\ req[c].retry
    /\ Finish(c) /\ Consume(c)
    /\ IF req[c].op = "logout" THEN ClearTokens ELSE UNCHANGED <<storage, forsaken>>
    /\ UNCHANGED <<server, page, refreshing, spent>>

Denied(c) == req[c].state = "pending" /\ call[c].at = "denied" /\ ~req[c].retry

Enqueue(c) ==
    /\ Denied(c) /\ refreshing[Tab[c]]
    /\ req' = [req EXCEPT ![c].state = "queued"]
    /\ Consume(c)
    /\ UNCHANGED <<server, storage, page, refreshing, spent, forsaken>>

(* A changed StartRefresh: isRefreshing is not looked at.                  *)
StartRefreshAlways(c) ==
    /\ Denied(c) /\ storage # NoToken
    /\ refreshing' = [refreshing EXCEPT ![Tab[c]] = TRUE]
    /\ req' = [req EXCEPT ![c].state = "leading", ![c].retry = TRUE]
    /\ call' = [call EXCEPT ![c] = Request("refresh", NoToken, storage)]
    /\ UNCHANGED <<server, storage, page, spent, forsaken>>

StartRefresh(c) ==
    /\ Denied(c) /\ ~refreshing[Tab[c]] /\ storage # NoToken
    /\ refreshing' = [refreshing EXCEPT ![Tab[c]] = TRUE]
    /\ req' = [req EXCEPT ![c].state = "leading", ![c].retry = TRUE]
    /\ call' = [call EXCEPT ![c] = Request("refresh", NoToken, storage)]
    /\ UNCHANGED <<server, storage, page, spent, forsaken>>

(* No refresh token: isRefreshing stays set, but the page goes away.       *)
LeaveForLogin(c) ==
    /\ Denied(c) /\ ~refreshing[Tab[c]] /\ storage = NoToken
    /\ Consume(c)
    /\ Abandon(Tab[c], {c}) /\ Unload(Tab[c], "away")
    /\ UNCHANGED <<server, storage, spent, forsaken>>

(* A changed Refreshed: setTokens is not called.                           *)
RefreshedUnsaved(c) ==
    /\ req[c].state = "leading" /\ call[c].at = "ok"
    /\ refreshing' = [refreshing EXCEPT ![Tab[c]] = FALSE]
    /\ LET again == {c} \cup Queue(Tab[c])
       IN /\ req' = [d \in Calls |-> IF d \in again
                       THEN [req[d] EXCEPT !.state = "pending", !.retry = TRUE]
                       ELSE req[d]]
          /\ Send(again, call[c].pair)
    /\ UNCHANGED <<server, storage, page, spent, forsaken>>

(* A changed Refreshed: the queue is not processed.                        *)
RefreshedAlone(c) ==
    /\ req[c].state = "leading" /\ call[c].at = "ok"
    /\ SetTokens(call[c].pair)
    /\ refreshing' = [refreshing EXCEPT ![Tab[c]] = FALSE]
    /\ LET again == {c}
       IN /\ req' = [d \in Calls |-> IF d \in again
                       THEN [req[d] EXCEPT !.state = "pending", !.retry = TRUE]
                       ELSE req[d]]
          /\ Send(again, call[c].pair)
    /\ UNCHANGED <<server, page, spent>>

Refreshed(c) ==
    /\ req[c].state = "leading" /\ call[c].at = "ok"
    /\ SetTokens(call[c].pair)
    /\ refreshing' = [refreshing EXCEPT ![Tab[c]] = FALSE]
    /\ LET again == {c} \cup Queue(Tab[c])
       IN /\ req' = [d \in Calls |-> IF d \in again
                       THEN [req[d] EXCEPT !.state = "pending", !.retry = TRUE]
                       ELSE req[d]]
          /\ Send(again, call[c].pair)
    /\ UNCHANGED <<server, page, spent>>

(* A changed RefreshFailed: clearTokens is not called.                     *)
RefreshFailedKeeping(c) ==
    /\ req[c].state = "leading" /\ call[c].at \in {"denied", "failed", "lost"}
    /\ Consume(c)
    /\ Abandon(Tab[c], {c}) /\ Unload(Tab[c], "away")
    /\ UNCHANGED <<server, storage, spent, forsaken>>

RefreshFailed(c) ==
    /\ req[c].state = "leading" /\ call[c].at \in {"denied", "failed", "lost"}
    /\ Consume(c)
    /\ ClearTokens
    /\ Abandon(Tab[c], {c}) /\ Unload(Tab[c], "away")
    /\ UNCHANGED <<server, spent>>

(* An answer to a page that is not there any more.                         *)
Discard(c) ==
    /\ req[c].state = "gone" /\ call[c].at \in Finished
    /\ Finish(c) /\ Consume(c)
    /\ UNCHANGED <<server, storage, page, refreshing, spent, forsaken>>

(* The user opens or reloads the panel.                                    *)
Open(t) ==
    /\ Abandon(t, {}) /\ Unload(t, IF storage = NoToken THEN "login" ELSE "app")
    /\ forsaken' = (forsaken \/ Leaders(t) # {})
    /\ UNCHANGED <<authVars, storage, spent>>

(* ProtectedRoute and PublicRoute, whenever the router renders.            *)
Redirect(t) ==
    /\ page[t] # "away"
    /\ page' = [page EXCEPT ![t] = IF storage = NoToken THEN "login" ELSE "app"]
    /\ UNCHANGED <<authVars, storage, refreshing, req, spent, forsaken>>

(* A step of the server, with what it deleted recorded.                    *)
ServerStep(c) ==
    /\ Serve(c) \/ AnswerLost(c)
    /\ spent' = IF Running(c, "refresh", "found") /\ call'[c].at = "dropped"
                THEN spent \cup {call[c].token} ELSE spent
    /\ UNCHANGED <<storage, page, refreshing, req, forsaken>>

Receive(c) ==
    \/ Succeed(c) \/ Reject(c) \/ Enqueue(c) \/ StartRefresh(c) \/ LeaveForLogin(c)
    \/ Refreshed(c) \/ RefreshFailed(c) \/ Discard(c)

PanelNext ==
    \/ (Tick \/ Crash) /\ UNCHANGED panelVars
    \/ \E c \in Calls : ServerStep(c) \/ Receive(c) \/ \E op \in Ops \ {"refresh"} : Begin(c, op)
    \/ \E t \in Tabs : LogoutLocally(t) \/ Open(t) \/ Redirect(t)

PanelSpec == PanelInit /\ [][PanelNext]_vars

(* Handlers run on and answers are handled; users need not do anything.    *)
Fairness == \A c \in Calls : WF_vars(ServerStep(c)) /\ WF_vars(Receive(c))

FairPanelSpec == PanelSpec /\ Fairness

(* ----------------------------- properties ------------------------------- *)

(* The panel's state and the server's are of their types.                  *)
PanelTypeOK ==
    /\ AuthTypeOK
    /\ storage \in Token \cup {NoToken} /\ spent \subseteq Token /\ forsaken \in BOOLEAN
    /\ page \in [Tabs -> {"app", "login", "away"}] /\ refreshing \in [Tabs -> BOOLEAN]
    /\ req \in [Calls -> [state : {"free", "pending", "queued", "leading", "gone"},
                          op : Ops, retry : BOOLEAN, body : Token \cup {NoToken}]]

(* A tab refreshes at most once at a time, and isRefreshing is set exactly *)
(* while it does: a request in failedQueue always has one whose answer     *)
(* will resume or refuse it (client.ts, isRefreshing and processQueue).    *)
RefreshIsLed ==
    \A t \in Tabs :
        /\ refreshing[t] <=> Leaders(t) # {}
        /\ \A c, d \in Leaders(t) : c = d
        /\ Queue(t) # {} => refreshing[t]

(* The refresh token in local storage has not been used up, unless some    *)
(* tab is refreshing, or was reloaded while it did so and the new pair got *)
(* lost (setTokens and clearTokens in the response interceptor, against    *)
(* the deletion in RefreshToken).                                          *)
HeldTokenNotSpent ==
    storage \in spent => forsaken \/ \E t \in Tabs : Leaders(t) # {}

(* With one tab, no failures and a refresh token that does not expire, an  *)
(* administrator is logged out only by a logout, in progress or done: the  *)
(* panel never loses its tokens otherwise, except after a reload or a      *)
(* login in the middle of a refresh (the queue keeps concurrent 401s from  *)
(* using the refresh token twice).                                         *)
SessionKept ==
    [][storage # NoToken /\ storage' = NoToken =>
         \/ forsaken
         \/ \E c \in Calls : req[c].op \in {"logout", "logoutAll"}
         \/ storage \notin rows \cup spent]_vars

(* Every request of a page is answered in the end, or the page goes away.  *)
RequestsSettle ==
    \A c \in Calls : req[c].state \in {"pending", "queued", "leading"}
                       ~> req[c].state \in {"free", "gone"}

(* logout() ends one session (REFACTORING.md:203): when the server has     *)
(* answered a logout of the panel, the refresh token the panel then        *)
(* forgets is not valid any more.                                          *)
LogoutEndsSession ==
    [][\A c \in Calls :
         req[c].state = "pending" /\ req[c].op = "logout" /\ call[c].at = "ok"
           /\ req'[c].state = "free" => storage \notin rows]_vars
=============================================================================
