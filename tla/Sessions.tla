-------------------------------- MODULE Sessions --------------------------------
(***************************************************************************)
(* The session of one user: refresh tokens in the database, the tabs of a  *)
(* browser that hold one each in memory and share one in a cookie, and the *)
(* calls between them.                                                     *)
(*                                                                         *)
(* TokenService runs no transaction: a rotation reads the token it was     *)
(* given, creates its replacement and revokes it by id, three statements;  *)
(* a sign-in checks the password, revokes what is alive and creates a      *)
(* token, three more.  ApiClient shares one refresh among the requests of  *)
(* its tab, and forgets the session when that refresh fails for any reason.*)
(*                                                                         *)
(* Access tokens are left out: a request of a tab may find its own expired *)
(* at any time.                                                            *)
(***************************************************************************)
EXTENDS Integers, FiniteSets

CONSTANTS
  Tabs,        \* tabs opened, reloads included
  MaxTokens,   \* bound: refresh tokens created
  MaxCalls,    \* bound: calls at a time
  MaxIncidents \* bound: passwords reset, and calls given up by the network

ASSUME SessionsAssumption ==
  /\ MaxTokens \in Nat \ {0}
  /\ MaxCalls \in Nat
  /\ MaxIncidents \in Nat
  /\ Tabs \cap {"nobody", "signIn", "signOut", "reset"} = {}

VARIABLES
  token,       \* table refresh_tokens
  created,     \* number of them
  tab,         \* what each tab holds and shows
  cookie,      \* af_refresh, 0 without
  call,        \* calls the API has not finished, or not answered yet
  resets,      \* passwords reset so far
  refused,     \* tabs refused a token that a rotation of their own had revoked
  losses

sessionVars == <<token, created, tab, cookie, call, resets, refused, losses>>

TokenIds == 1 .. MaxTokens
Revoker  == Tabs \cup {"nobody", "signIn", "signOut", "reset"}

(* Of the session a token belongs to, for the properties: of, how many     *)
(* resets there had been when its first token was created, and caught, the *)
(* last reset committed while a rotation of it had read and not created,   *)
(* 0 for none.                                                             *)
Token == [alive : BOOLEAN, revokedBy : Revoker, of : 0 .. MaxIncidents, caught : 0 .. MaxIncidents]

Tab == [shows : {"closed", "loading", "out", "in"}, holds : 0 .. MaxTokens]

(* A call, from the tab to the answer: the token it presents, the one it   *)
(* brings, how many resets there had been when a rotation read its token.  *)
Call == [from : Tabs, kind : {"refresh", "silent", "signIn", "signOut"},
         at : {"sent", "checked", "acted", "answered"}, presents : 0 .. MaxTokens,
         brings : 0 .. MaxTokens, seen : 0 .. MaxIncidents, lost : BOOLEAN]

NoToken == [alive |-> FALSE, revokedBy |-> "nobody", of |-> 0, caught |-> 0]

SessionsInit ==
  /\ token = [k \in TokenIds |-> NoToken]
  /\ created = 0
  /\ tab = [t \in Tabs |-> [shows |-> "closed", holds |-> 0]]
  /\ cookie = 0
  /\ call = {}
  /\ resets = 0
  /\ refused = {}
  /\ losses = 0

Pending(t, kind) == \E c \in call : c.from = t /\ c.kind = kind /\ ~c.lost

Send(t, kind, k) ==
  /\ Cardinality(call) < MaxCalls
  /\ call' = call \cup {[from |-> t, kind |-> kind, at |-> "sent", presents |-> k,
                         brings |-> 0, seen |-> 0, lost |-> FALSE]}

(* The API goes on with a call, or is done with it: an answer to a tab     *)
(* that gave up reaches nobody.                                            *)
Proceed(c, d) ==
  call' = (call \ {c}) \cup (IF d.lost /\ d.at = "answered" THEN {} ELSE {d})

(***************************************************************************)
(* The tab: SessionProvider and ApiClient                                  *)
(***************************************************************************)
Open(t) ==
  /\ tab[t].shows = "closed"
  /\ IF cookie = 0
       THEN /\ tab' = [tab EXCEPT ![t].shows = "out"]
            /\ UNCHANGED call
       ELSE /\ tab' = [tab EXCEPT ![t].shows = "loading"]
            /\ Send(t, "silent", cookie)
  /\ UNCHANGED <<token, created, cookie, resets, refused, losses>>

SignIn(t) ==
  /\ tab[t].shows = "out" /\ ~Pending(t, "signIn")
  /\ Send(t, "signIn", 0)
  /\ UNCHANGED <<token, created, tab, cookie, resets, refused, losses>>

(* Mutant: every request refreshes for itself.                             *)
MayAlwaysRefresh(t) == TRUE

MayRefresh(t) == ~Pending(t, "refresh")

(* A request finds its access token expired, or is answered 401.           *)
RefreshOnce(t) ==
  /\ tab[t].holds # 0
  /\ MayRefresh(t)
  /\ Send(t, "refresh", tab[t].holds)
  /\ UNCHANGED <<token, created, tab, cookie, resets, refused, losses>>

SignOut(t) ==
  /\ tab[t].shows = "in"
  /\ tab' = [tab EXCEPT ![t] = [shows |-> "out", holds |-> 0]]
  /\ Send(t, "signOut", tab[t].holds)
  /\ UNCHANGED <<token, created, cookie, resets, refused, losses>>

(* What a failed call of each kind leaves of the tab.                      *)
Failed(t, kind) ==
  CASE kind = "refresh" -> [shows |-> "out", holds |-> 0]
    [] kind = "silent"  -> [tab[t] EXCEPT !.shows = "out"]
    [] OTHER            -> tab[t]

(* A refresh stores its token whatever the tab shows by then.              *)
Succeeded(t, kind, k) ==
  CASE kind = "refresh" -> [tab[t] EXCEPT !.holds = k]
    [] kind = "signOut" -> tab[t]
    [] OTHER            -> [shows |-> "in", holds |-> k]

Answer(c) ==
  LET t == c.from IN
  /\ c \in call /\ c.at = "answered"
  /\ call' = call \ {c}
  /\ IF c.brings = 0 /\ c.kind # "signOut"
       THEN /\ tab' = [tab EXCEPT ![t] = Failed(t, c.kind)]
            /\ cookie' = IF c.kind = "silent" THEN 0 ELSE cookie
       ELSE /\ tab' = [tab EXCEPT ![t] = Succeeded(t, c.kind, c.brings)]
            /\ cookie' = c.brings
  /\ UNCHANGED <<token, created, resets, refused, losses>>

(* The tab gives up; the API may go on.                                    *)
Lose(c) ==
  /\ c \in call /\ ~c.lost /\ resets + losses < MaxIncidents
  /\ losses' = losses + 1
  /\ Proceed(c, [c EXCEPT !.lost = TRUE])
  /\ tab' = [tab EXCEPT ![c.from] = Failed(c.from, c.kind)]
  /\ UNCHANGED <<token, created, cookie, resets, refused>>

(***************************************************************************)
(* TokenService and AuthService                                            *)
(***************************************************************************)
Alive == {k \in TokenIds : token[k].alive}

Revoke(S, who) ==
  [k \in TokenIds |-> IF k \in S THEN [token[k] EXCEPT !.alive = FALSE, !.revokedBy = who]
                      ELSE token[k]]

Mint(of, caught) ==
  /\ created < MaxTokens
  /\ created' = created + 1
  /\ token' = [token EXCEPT ![created + 1] =
                 [alive |-> TRUE, revokedBy |-> "nobody", of |-> of, caught |-> caught]]

Rotating(c) == c.kind \in {"refresh", "silent"}

(* rotate: is the token alive?                                             *)
RotateRead(c) ==
  LET old == token[c.presents] IN
  /\ c \in call /\ Rotating(c) /\ c.at = "sent"
  /\ IF old.alive
       THEN /\ Proceed(c, [c EXCEPT !.at = "checked", !.seen = resets])
            /\ UNCHANGED refused
       ELSE /\ Proceed(c, [c EXCEPT !.at = "answered"])
            /\ refused' = refused \cup ({c.from} \cap {old.revokedBy})
  /\ UNCHANGED <<token, created, tab, cookie, resets, losses>>

RotateCreate(c) ==
  /\ c \in call /\ Rotating(c) /\ c.at = "checked"
  /\ LET old == token[c.presents] IN
       Mint(old.of, IF c.seen < resets THEN resets ELSE old.caught)
  /\ Proceed(c, [c EXCEPT !.at = "acted", !.brings = created + 1])
  /\ UNCHANGED <<tab, cookie, resets, refused, losses>>

RotateRevoke(c) ==
  /\ c \in call /\ Rotating(c) /\ c.at = "acted"
  /\ token' = Revoke({c.presents}, c.from)
  /\ Proceed(c, [c EXCEPT !.at = "answered"])
  /\ UNCHANGED <<created, tab, cookie, resets, refused, losses>>

(* login, googleSignIn: who is it?                                         *)
SignInCheck(c) ==
  /\ c \in call /\ c.kind = "signIn" /\ c.at = "sent"
  /\ Proceed(c, [c EXCEPT !.at = "checked"])
  /\ UNCHANGED <<token, created, tab, cookie, resets, refused, losses>>

(* issueTokens: revokeOtherSessions, persistRefreshToken.                  *)
SignInRevoke(c) ==
  /\ c \in call /\ c.kind = "signIn" /\ c.at = "checked"
  /\ token' = Revoke(Alive, "signIn")
  /\ Proceed(c, [c EXCEPT !.at = "acted"])
  /\ UNCHANGED <<created, tab, cookie, resets, refused, losses>>

SignInCreate(c) ==
  /\ c \in call /\ c.kind = "signIn" /\ c.at = "acted"
  /\ Mint(resets, 0)
  /\ Proceed(c, [c EXCEPT !.at = "answered", !.brings = created + 1])
  /\ UNCHANGED <<tab, cookie, resets, refused, losses>>

Logout(c) ==
  /\ c \in call /\ c.kind = "signOut" /\ c.at = "sent"
  /\ token' = Revoke({c.presents} \cap Alive, "signOut")
  /\ Proceed(c, [c EXCEPT !.at = "answered"])
  /\ UNCHANGED <<created, tab, cookie, resets, refused, losses>>

(* Mutant: the browser that resets keeps its session.                      *)
RevokeOthers == token' = Revoke(Alive \ {cookie}, "reset")

RevokeAll == token' = Revoke(Alive, "reset")

(* confirmPasswordReset: one transaction, for the request that claims the  *)
(* link.                                                                   *)
ConfirmPasswordReset ==
  /\ resets + losses < MaxIncidents
  /\ resets' = resets + 1
  /\ RevokeAll
  /\ UNCHANGED <<created, tab, cookie, call, refused, losses>>

Browsing ==
  \/ \E t \in Tabs : Open(t) \/ SignIn(t) \/ RefreshOnce(t) \/ SignOut(t)
  \/ \E c \in call : Answer(c) \/ Lose(c)

Serving ==
  \/ \E c \in call :
       \/ RotateRead(c) \/ RotateCreate(c) \/ RotateRevoke(c)
       \/ SignInCheck(c) \/ SignInRevoke(c) \/ SignInCreate(c)
       \/ Logout(c)
  \/ ConfirmPasswordReset

SessionsNext == Browsing \/ Serving

SessionsSpec == SessionsInit /\ [][SessionsNext]_sessionVars

(***************************************************************************)
(* Properties                                                              *)
(***************************************************************************)
SessionsTypeOK ==
  /\ token \in [TokenIds -> Token]
  /\ created \in 0 .. MaxTokens
  /\ tab \in [Tabs -> Tab]
  /\ cookie \in 0 .. MaxTokens
  /\ call \in SUBSET Call
  /\ resets \in 0 .. MaxIncidents
  /\ refused \in SUBSET Tabs
  /\ losses \in 0 .. MaxIncidents

(* "Concurrent requests share a single in-flight refresh": however many    *)
(* requests, sign-ins, sign-outs and lost answers a tab goes through, it   *)
(* never presents a token that a rotation of its own has used up.          *)
NeverRefusesItself == refused = {}

(* A session alive after a reset began after it, or was being rotated when *)
(* that very reset was committed: by no other sequence of rotations,       *)
(* sign-ins, sign-outs and lost answers does an older one live on.         *)
SurvivorsWereCaught ==
  \A k \in Alive : token[k].of = resets \/ token[k].caught = resets

(* "revokes ALL active refresh tokens (a reset means `I recovered my       *)
(* account` - old sessions must fall)" (auth.service.ts:428): no session   *)
(* from before the last reset is alive.                                    *)
OldSessionsFall ==
  \A k \in Alive : token[k].of = resets
=============================================================================
