----------------------------- MODULE ClientAuth -----------------------------
(***************************************************************************)
(* The authentication of the web client (lib/api.ts, app/page.tsx): tabs   *)
(* of one browser share the refresh cookie, and each keeps an access token *)
(* and the workspace it shows.  Requests overlap between and within tabs,  *)
(* and their responses may be lost.                                        *)
(*                                                                         *)
(* One user, who may lose memberships and may revoke all sessions from     *)
(* elsewhere.  The server's part (Sessions has its steps) is one step per  *)
(* request: a refresh token is used once, and its reuse revokes its        *)
(* family.  An access token is the workspace it is for, and may expire at  *)
(* any time, which is to say that a refresh may start at any time.         *)
(***************************************************************************)
EXTENDS Naturals, Sequences, FiniteSets

CONSTANTS
  Tab, Space, Op, NoTab, NoSpace,
  Home,      \* the workspace of the user's oldest membership
  MaxTokens  \* bound on refresh tokens

ASSUME ClientAuthAssumption ==
  NoTab \notin Tab /\ NoSpace \notin Space /\ Home \in Space /\ MaxTokens \in Nat

VARIABLES
  tokens,   \* the sessions, in the order of their creation
  cookie,   \* the refresh token of the browser, 0 for none
  access,   \* accessToken of each tab: its workspace
  shown,    \* currentWorkspaceId of each tab
  op,       \* requests under way, with what follows their response
  excused,  \* history: two requests with the cookie overlapped, or a response
            \* with a cookie was lost
  ended     \* history: tokens the server took away: rotated for a member who
            \* is gone, or revoked with all the others of the user

authVars == <<tokens, cookie, access, shown, op, excused, ended>>

NoOp == [pc |-> "idle", kind |-> "none", tab |-> NoTab, space |-> NoSpace,
         presented |-> 0, got |-> 0]
Fresh == Len(tokens) + 1

\* Requests of getOrStartRefresh that are under way.
Refreshing(t) == {o \in Op : op[o].tab = t /\ op[o].kind = "refresh"}

\* Mutant: every expired request refreshes for itself.
EachRefreshes(t) == TRUE

\* Single flight: concurrent expiries of a tab share one refresh.
MayRefresh(t) == Refreshing(t) = {}

\* fetch without credentials sends no cookie and stores none.
WithCookie(kind) == kind # "create"

\* Another request is using the cookie, and is not a refresh of this tab,
\* which this one would have shared.
Overlaps(t, kind) ==
  /\ WithCookie(kind)
  /\ \E o \in Op : /\ op[o].pc \in {"sent", "served"} /\ WithCookie(op[o].kind)
                   /\ ~(kind = "refresh" /\ op[o].kind = "refresh" /\ op[o].tab = t)

Send(o, t, kind, w) ==
  /\ op[o].pc = "idle"
  /\ op' = [op EXCEPT ![o] = [NoOp EXCEPT !.pc = "sent", !.kind = kind, !.tab = t, !.space = w,
                                !.presented = IF WithCookie(kind) THEN cookie ELSE 0]]
  /\ excused' = (excused \/ Overlaps(t, kind))
  /\ UNCHANGED <<tokens, cookie, access, shown, ended>>

StartRefresh(o, t) == access[t] # NoSpace /\ MayRefresh(t) /\ Send(o, t, "refresh", NoSpace)

\* The page is loaded, or the form is filled in: a login is always into the
\* oldest membership.
Boot(o, t) == access[t] = NoSpace /\ Send(o, t, "boot", NoSpace)
LogIn(o, t) == access[t] = NoSpace /\ Send(o, t, "login", Home)

\* switchWorkspace, acceptWorkspaceInvite, createWorkspace
Leave(o, t, kind, w) ==
  access[t] # NoSpace /\ w # shown[t] /\ Send(o, t, kind, w)

FamilyOf(i) == {j \in 1..Len(tokens) : tokens[j].family = tokens[i].family}
RevokeTokens(S) == [i \in 1..Len(tokens) |-> IF i \in S THEN [tokens[i] EXCEPT !.revoked = TRUE]
                                                        ELSE tokens[i]]
Answers(o, got) == op' = [op EXCEPT ![o].pc = "served", ![o].got = got]

\* A rotation: refresh and boot carry the workspace on, and look for the
\* membership only then: without one the answer is a 401 and no cookie.  A
\* switch names a workspace.
Rotate(o) ==
  LET i == op[o].presented
      next == IF op[o].kind = "switch" THEN op[o].space ELSE tokens[i].space
  IN /\ op[o].pc = "sent" /\ op[o].kind \in {"refresh", "boot", "switch"}
     /\ \/ /\ i > 0 /\ ~tokens[i].revoked /\ Len(tokens) < MaxTokens
           /\ tokens' = Append(RevokeTokens({i}), [tokens[i] EXCEPT !.space = next])
           /\ \/ Answers(o, Fresh) /\ UNCHANGED ended
              \/ op[o].kind # "switch" /\ Answers(o, 0) /\ ended' = ended \cup {i}
        \/ /\ i > 0 /\ tokens[i].revoked
           /\ tokens' = RevokeTokens(FamilyOf(i))
           /\ Answers(o, 0)
           /\ UNCHANGED ended
        \/ i = 0 /\ Answers(o, 0) /\ UNCHANGED <<tokens, ended>>
     /\ UNCHANGED <<cookie, access, shown, excused>>

\* A session of its own.
IssueSession(o) ==
  /\ op[o].pc = "sent" /\ op[o].kind \in {"login", "join", "create"}
  /\ Len(tokens) < MaxTokens
  /\ tokens' = Append(tokens, [space |-> op[o].space, family |-> Fresh, revoked |-> FALSE])
  /\ Answers(o, Fresh)
  /\ UNCHANGED <<cookie, access, shown, excused, ended>>

\* Logout-all in another browser, or a password reset.
RevokeAll ==
  /\ tokens' = RevokeTokens(1..Len(tokens))
  /\ ended' = ended \cup 1..Len(tokens)
  /\ UNCHANGED <<cookie, access, shown, op, excused>>

LoggedOut(t) ==
  /\ access' = [access EXCEPT ![t] = NoSpace]
  /\ shown' = [shown EXCEPT ![t] = NoSpace]

\* The response to a refresh: onRefreshed sets the token and nothing else,
\* onExpired logs the tab out.
RefreshReturns(o) ==
  /\ op[o].pc = "served" /\ op[o].kind = "refresh"
  /\ op' = [op EXCEPT ![o] = NoOp]
  /\ \/ /\ op[o].got > 0
        /\ cookie' = op[o].got
        /\ access' = [access EXCEPT ![op[o].tab] = tokens[op[o].got].space]
        /\ UNCHANGED shown
     \/ op[o].got = 0 /\ LoggedOut(op[o].tab) /\ UNCHANGED cookie
  /\ UNCHANGED <<tokens, excused, ended>>

\* Any other response: applyAuth asks who the token is for.
Returns(o) ==
  /\ op[o].pc = "served" /\ op[o].kind # "refresh"
  /\ cookie' = IF op[o].got > 0 /\ WithCookie(op[o].kind) THEN op[o].got ELSE cookie
  /\ op' = [op EXCEPT ![o] = IF op[o].got > 0 THEN [@ EXCEPT !.pc = "me"] ELSE NoOp]
  /\ UNCHANGED <<tokens, access, shown, excused, ended>>

\* fetchMe is answered, or fails and nothing is applied.
ApplyAuth(o) ==
  /\ op[o].pc = "me"
  /\ op' = [op EXCEPT ![o] = NoOp]
  /\ \/ LET w == tokens[op[o].got].space
        IN /\ access' = [access EXCEPT ![op[o].tab] = w]
           /\ shown' = [shown EXCEPT ![op[o].tab] = w]
     \/ UNCHANGED <<access, shown>>
  /\ UNCHANGED <<tokens, cookie, excused, ended>>

\* The network fails, before or after the server, or the server refuses before
\* it has done anything: a refresh then ends like a refused one.
Lost(o) ==
  /\ op[o].pc \in {"sent", "served"}
  /\ op' = [op EXCEPT ![o] = NoOp]
  /\ IF op[o].kind = "refresh" THEN LoggedOut(op[o].tab) ELSE UNCHANGED <<access, shown>>
  /\ excused' = (excused \/ (op[o].pc = "served" /\ WithCookie(op[o].kind)))
  /\ UNCHANGED <<tokens, cookie, ended>>

LogOut(t) ==
  /\ access[t] # NoSpace
  /\ tokens' = IF cookie = 0 THEN tokens ELSE RevokeTokens({cookie})
  /\ cookie' = 0
  /\ LoggedOut(t)
  /\ excused' = (excused \/ \E o \in Op : op[o].pc \in {"sent", "served"})
  /\ UNCHANGED <<op, ended>>

AuthInit ==
  /\ tokens = <<>> /\ cookie = 0 /\ excused = FALSE /\ ended = {}
  /\ access = [t \in Tab |-> NoSpace] /\ shown = [t \in Tab |-> NoSpace]
  /\ op = [o \in Op |-> NoOp]

AuthNext ==
  \/ \E o \in Op, t \in Tab :
       \/ StartRefresh(o, t) \/ Boot(o, t) \/ LogIn(o, t)
       \/ \E w \in Space, kind \in {"switch", "join", "create"} : Leave(o, t, kind, w)
  \/ \E o \in Op : Rotate(o) \/ IssueSession(o) \/ RefreshReturns(o) \/ Returns(o)
                   \/ ApplyAuth(o) \/ Lost(o)
  \/ \E t \in Tab : LogOut(t)
  \/ RevokeAll

AuthSpec == AuthInit /\ [][AuthNext]_authVars

----------------------------------------------------------------------------
\* The browser's cookie is a live session, unless the request that rotates it
\* is under way, or the server took that very session away (it rotated it for
\* a member who is gone, or all of the user's were revoked), or requests that
\* do not share one refresh (of other tabs, a switch, a login) once overlapped,
\* or a response was lost: the single flight of a tab never brings the reuse
\* detection upon its own session (getOrStartRefresh, rotate).
CookieIsLive ==
  cookie > 0 /\ tokens[cookie].revoked =>
    \/ excused
    \/ cookie \in ended
    \/ \E o \in Op : op[o].pc = "served" /\ op[o].presented = cookie

\* What page.tsx says of applyAuth: the view (there is none without a token
\* and a workspace) never shows a workspace the token does not represent.  A
\* refresh changes the token alone, to the workspace of the shared cookie.
ViewMatchesToken ==
  \A t \in Tab : access[t] # NoSpace /\ shown[t] # NoSpace => access[t] = shown[t]
=============================================================================
