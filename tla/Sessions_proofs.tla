---------------------------- MODULE Sessions_proofs ----------------------------
(* Proofs about the sessions of a user.                                    *)
EXTENDS Sessions, TLAPS

(***************************************************************************)
(* Types                                                                   *)
(***************************************************************************)
LEMMA CallFields ==
  ASSUME NEW c \in Call
  PROVE  /\ c.from \in Tabs /\ c.presents \in 0 .. MaxTokens /\ c.brings \in 0 .. MaxTokens
         /\ c.seen \in 0 .. MaxIncidents /\ c.lost \in BOOLEAN
         /\ c.kind \in {"refresh", "silent", "signIn", "signOut"}
         /\ c.at \in {"sent", "checked", "acted", "answered"}
  BY DEF Call

LEMMA ProceedTyped ==
  ASSUME call \in SUBSET Call, NEW c \in call, NEW d \in Call, Proceed(c, d)
  PROVE  call' \in SUBSET Call
  BY DEF Proceed

LEMMA SendTyped ==
  ASSUME call \in SUBSET Call, NEW t \in Tabs, NEW k \in 0 .. MaxTokens, SessionsAssumption,
         NEW kind \in {"refresh", "silent", "signIn", "signOut"}, Send(t, kind, k)
  PROVE  call' \in SUBSET Call
<1>1. 0 \in 0 .. MaxTokens /\ 0 \in 0 .. MaxIncidents
  BY DEF SessionsAssumption
<1> DEFINE x == [from |-> t, kind |-> kind, at |-> "sent", presents |-> k,
                 brings |-> 0, seen |-> 0, lost |-> FALSE]
<1>2. x \in Call
  BY <1>1 DEF Call
<1> QED
  BY <1>2 DEF Send

LEMMA RevokeTyped ==
  ASSUME token \in [TokenIds -> Token], NEW S, NEW who \in Revoker,
         token' = Revoke(S, who)
  PROVE  token' \in [TokenIds -> Token]
  BY DEF Revoke, Token

LEMMA MintTyped ==
  ASSUME token \in [TokenIds -> Token], created \in 0 .. MaxTokens, SessionsAssumption,
         NEW of \in 0 .. MaxIncidents, NEW caught \in 0 .. MaxIncidents, Mint(of, caught)
  PROVE  /\ token' \in [TokenIds -> Token]
         /\ created' \in 0 .. MaxTokens /\ created + 1 \in TokenIds /\ created + 1 \in 0 .. MaxTokens
<1>1. created + 1 \in TokenIds /\ created + 1 \in 0 .. MaxTokens
  BY DEF Mint, TokenIds, SessionsAssumption
<1>2. [alive |-> TRUE, revokedBy |-> "nobody", of |-> of, caught |-> caught] \in Token
  BY DEF Token, Revoker
<1> QED
  BY <1>1, <1>2 DEF Mint

LEMMA TabTyped ==
  ASSUME tab \in [Tabs -> Tab], NEW t \in Tabs, NEW k \in 0 .. MaxTokens, SessionsAssumption,
         NEW kind \in {"refresh", "silent", "signIn", "signOut"}
  PROVE  Failed(t, kind) \in Tab /\ Succeeded(t, kind, k) \in Tab
<1>1. tab[t] \in Tab /\ 0 \in 0 .. MaxTokens
  BY DEF SessionsAssumption
<1>2. [shows |-> "out", holds |-> 0] \in Tab /\ [shows |-> "in", holds |-> k] \in Tab
  BY <1>1 DEF Tab
<1>3. [tab[t] EXCEPT !.shows = "out"] \in Tab /\ [tab[t] EXCEPT !.holds = k] \in Tab
  BY <1>1 DEF Tab
<1> QED
  BY <1>1, <1>2, <1>3 DEF Failed, Succeeded

(* Only a token is presented for another.                                  *)
PresentsToken == \A c \in call : Rotating(c) => c.presents \in TokenIds

SessionsTypeInv == SessionsTypeOK /\ PresentsToken

LEMMA SessionsTypeInit == SessionsInit => SessionsTypeOK
<1>1. ASSUME SessionsInit PROVE SessionsTypeOK
  <2>1. 0 \in 0 .. MaxTokens /\ 0 \in 0 .. MaxIncidents
    BY SessionsAssumption DEF SessionsAssumption
  <2>2. NoToken \in Token /\ [shows |-> "closed", holds |-> 0] \in Tab
    BY <2>1 DEF NoToken, Token, Revoker, Tab
  <2> QED
    BY <1>1, <2>1, <2>2 DEF SessionsInit, SessionsTypeOK
<1> QED
  BY <1>1

LEMMA BrowsingTyped == SessionsTypeOK /\ Browsing => SessionsTypeOK'
<1> SUFFICES ASSUME SessionsTypeOK, Browsing PROVE SessionsTypeOK'
  OBVIOUS
<1> USE SessionsAssumption
<1> USE DEF SessionsTypeOK
<1>1. ASSUME NEW t \in Tabs, Open(t) PROVE SessionsTypeOK'
  <2>1. [tab[t] EXCEPT !.shows = "out"] \in Tab /\ [tab[t] EXCEPT !.shows = "loading"] \in Tab
    BY DEF Tab
  <2>2. tab' \in [Tabs -> Tab]
    BY <1>1, <2>1 DEF Open
  <2>3. call' \in SUBSET Call
    BY <1>1, SendTyped DEF Open
  <2> QED
    BY <1>1, <2>2, <2>3 DEF Open
<1>2. ASSUME NEW t \in Tabs, SignIn(t) PROVE SessionsTypeOK'
  <2>1. 0 \in 0 .. MaxTokens
    BY DEF SessionsAssumption
  <2> QED
    BY <1>2, <2>1, SendTyped DEF SignIn
<1>3. ASSUME NEW t \in Tabs, RefreshOnce(t) PROVE SessionsTypeOK'
  <2>1. tab[t].holds \in 0 .. MaxTokens
    BY DEF Tab
  <2> QED
    BY <1>3, <2>1, SendTyped DEF RefreshOnce
<1>4. ASSUME NEW t \in Tabs, SignOut(t) PROVE SessionsTypeOK'
  <2>1. tab[t].holds \in 0 .. MaxTokens /\ [shows |-> "out", holds |-> 0] \in Tab
    BY DEF Tab, SessionsAssumption
  <2> QED
    BY <1>4, <2>1, SendTyped DEF SignOut
<1>5. ASSUME NEW c \in call, Answer(c) PROVE SessionsTypeOK'
  <2>1. c \in Call
    OBVIOUS
  <2>2. Failed(c.from, c.kind) \in Tab /\ Succeeded(c.from, c.kind, c.brings) \in Tab
    BY <2>1, CallFields, TabTyped
  <2>3. tab' \in [Tabs -> Tab] /\ call' \in SUBSET Call
    BY <1>5, <2>2 DEF Answer
  <2>4. cookie' \in 0 .. MaxTokens
    BY <1>5, <2>1, CallFields DEF Answer, SessionsAssumption
  <2> QED
    BY <1>5, <2>3, <2>4 DEF Answer
<1>6. ASSUME NEW c \in call, Lose(c) PROVE SessionsTypeOK'
  <2>1. c \in Call /\ [c EXCEPT !.lost = TRUE] \in Call
    BY DEF Call
  <2>2. Failed(c.from, c.kind) \in Tab
    <3>1. 0 \in 0 .. MaxTokens
      BY DEF SessionsAssumption
    <3> QED
      BY <2>1, <3>1, CallFields, TabTyped
  <2>3. tab' \in [Tabs -> Tab] /\ call' \in SUBSET Call
    BY <1>6, <2>1, <2>2, ProceedTyped DEF Lose
  <2>4. losses' \in 0 .. MaxIncidents
    BY <1>6 DEF Lose, SessionsAssumption
  <2> QED
    BY <1>6, <2>3, <2>4 DEF Lose
<1> QED
  BY <1>1, <1>2, <1>3, <1>4, <1>5, <1>6 DEF Browsing

LEMMA CallTyped ==
  ASSUME NEW c \in Call, NEW of \in 0 .. MaxIncidents, NEW k \in 0 .. MaxTokens
  PROVE  /\ [c EXCEPT !.at = "checked", !.seen = of] \in Call
         /\ [c EXCEPT !.at = "checked"] \in Call
         /\ [c EXCEPT !.at = "answered"] \in Call /\ [c EXCEPT !.at = "acted"] \in Call
         /\ [c EXCEPT !.at = "acted", !.brings = k] \in Call
         /\ [c EXCEPT !.at = "answered", !.brings = k] \in Call
  BY DEF Call

(* Both statements that create a token write numbers of resets to it.      *)
LEMMA CreateMints ==
  ASSUME SessionsTypeInv, NEW c \in call, RotateCreate(c)
  PROVE  \E of, caught \in 0 .. MaxIncidents : Mint(of, caught)
<1>1. c.presents \in TokenIds
  BY DEF RotateCreate, SessionsTypeInv, PresentsToken
<1>2. /\ token[c.presents].of \in 0 .. MaxIncidents
      /\ token[c.presents].caught \in 0 .. MaxIncidents
      /\ resets \in 0 .. MaxIncidents
  BY <1>1 DEF SessionsTypeInv, SessionsTypeOK, Token
<1> QED
  BY <1>2 DEF RotateCreate

LEMMA SignInMints ==
  ASSUME SessionsTypeInv, NEW c \in call, SignInCreate(c)
  PROVE  \E of, caught \in 0 .. MaxIncidents : Mint(of, caught)
<1>1. resets \in 0 .. MaxIncidents /\ 0 \in 0 .. MaxIncidents
  BY SessionsAssumption DEF SessionsTypeInv, SessionsTypeOK, SessionsAssumption
<1> QED
  BY <1>1 DEF SignInCreate

LEMMA ServingTyped == SessionsTypeInv /\ Serving => SessionsTypeOK'
<1> SUFFICES ASSUME SessionsTypeInv, Serving PROVE SessionsTypeOK'
  OBVIOUS
<1> USE SessionsAssumption
<1> USE DEF SessionsTypeOK, SessionsTypeInv
<1>0. ASSUME NEW c \in call PROVE c \in Call
  OBVIOUS
<1>a. {"nobody", "signIn", "signOut", "reset"} \subseteq Revoker /\ Tabs \subseteq Revoker
  BY DEF Revoker
<1>1. ASSUME NEW c \in call, RotateRead(c) PROVE SessionsTypeOK'
  <2>1. c.presents \in TokenIds /\ c.from \in Tabs
    BY <1>1, <1>0, CallFields DEF RotateRead, PresentsToken
  <2>3. call' \in SUBSET Call
    <3>1. 0 \in 0 .. MaxTokens
      BY DEF SessionsAssumption
    <3> QED
      BY <1>1, <1>0, <3>1, CallTyped, ProceedTyped DEF RotateRead
  <2>4. refused' \in SUBSET Tabs
    BY <1>1, <2>1 DEF RotateRead
  <2> QED
    BY <1>1, <2>3, <2>4 DEF RotateRead
<1>2. ASSUME NEW c \in call, RotateCreate(c) PROVE SessionsTypeOK'
  <2>1. \E of, caught \in 0 .. MaxIncidents : Mint(of, caught)
    BY <1>2, CreateMints
  <2>2. /\ token' \in [TokenIds -> Token] /\ created' \in 0 .. MaxTokens
        /\ created + 1 \in 0 .. MaxTokens
    BY <2>1, MintTyped
  <2>3. call' \in SUBSET Call
    BY <1>2, <1>0, <2>2, CallTyped, ProceedTyped DEF RotateCreate
  <2> QED
    BY <1>2, <2>2, <2>3 DEF RotateCreate
<1>3. ASSUME NEW c \in call, RotateRevoke(c) PROVE SessionsTypeOK'
  <2>1. c.from \in Revoker /\ c.seen \in 0 .. MaxIncidents /\ c.brings \in 0 .. MaxTokens
    BY <1>0, <1>a, CallFields
  <2>2. token' \in [TokenIds -> Token]
    BY <1>3, <2>1, RevokeTyped DEF RotateRevoke
  <2>3. call' \in SUBSET Call
    BY <1>3, <1>0, <2>1, CallTyped, ProceedTyped DEF RotateRevoke
  <2> QED
    BY <1>3, <2>2, <2>3 DEF RotateRevoke
<1>4. ASSUME NEW c \in call, SignInCheck(c) PROVE SessionsTypeOK'
  <2>1. call' \in SUBSET Call
    BY <1>4, <1>0, CallTyped, CallFields, ProceedTyped DEF SignInCheck
  <2> QED
    BY <1>4, <2>1 DEF SignInCheck
<1>5. ASSUME NEW c \in call, SignInRevoke(c) PROVE SessionsTypeOK'
  <2>1. call' \in SUBSET Call
    BY <1>5, <1>0, CallTyped, CallFields, ProceedTyped DEF SignInRevoke
  <2>2. token' \in [TokenIds -> Token]
    BY <1>5, <1>a, RevokeTyped DEF SignInRevoke
  <2> QED
    BY <1>5, <2>1, <2>2 DEF SignInRevoke
<1>6. ASSUME NEW c \in call, SignInCreate(c) PROVE SessionsTypeOK'
  <2>1. \E of, caught \in 0 .. MaxIncidents : Mint(of, caught)
    BY <1>6, SignInMints
  <2>2. /\ token' \in [TokenIds -> Token] /\ created' \in 0 .. MaxTokens
        /\ created + 1 \in 0 .. MaxTokens
    BY <2>1, MintTyped
  <2>3. call' \in SUBSET Call
    BY <1>6, <1>0, <2>2, CallTyped, ProceedTyped DEF SignInCreate
  <2> QED
    BY <1>6, <2>2, <2>3 DEF SignInCreate
<1>7. ASSUME NEW c \in call, Logout(c) PROVE SessionsTypeOK'
  <2>1. call' \in SUBSET Call
    BY <1>7, <1>0, CallTyped, CallFields, ProceedTyped DEF Logout
  <2>2. token' \in [TokenIds -> Token]
    BY <1>7, <1>a, RevokeTyped DEF Logout
  <2> QED
    BY <1>7, <2>1, <2>2 DEF Logout
<1>8. ASSUME ConfirmPasswordReset PROVE SessionsTypeOK'
  <2>1. token' \in [TokenIds -> Token]
    BY <1>8, <1>a, RevokeTyped DEF ConfirmPasswordReset, RevokeAll
  <2>2. resets' \in 0 .. MaxIncidents
    BY <1>8 DEF ConfirmPasswordReset, SessionsAssumption
  <2> QED
    BY <1>8, <2>1, <2>2 DEF ConfirmPasswordReset
<1> QED
  BY <1>1, <1>2, <1>3, <1>4, <1>5, <1>6, <1>7, <1>8 DEF Serving

(***************************************************************************)
(* A tab never presents twice                                              *)
(***************************************************************************)
(* The refresh that the requests of a tab wait for.                        *)
Covered(t, k) ==
  \E w \in call : w.from = t /\ w.kind = "refresh" /\ ~w.lost /\ w.presents = k

TabInv(t) == tab[t].holds <= created /\ (tab[t].shows = "closed" => tab[t].holds = 0)

CallInv(c) ==
  /\ c.lost => c.at # "answered"
  /\ c.presents <= created /\ c.brings <= created
  /\ tab[c.from].shows # "closed"
  /\ c.brings # 0 => tab[c.from].holds # c.brings
  /\ Rotating(c) /\ tab[c.from].holds = c.presents => Covered(c.from, c.presents)

(* Two calls of one tab bring different tokens and present different ones. *)
PairInv(c, d) ==
  c.from = d.from =>
    /\ c.brings # 0 /\ c.brings = d.brings => c = d
    /\ Rotating(c) => d.brings # c.presents
    /\ Rotating(c) /\ Rotating(d) /\ c.presents = d.presents => c = d

(* The tab t, which has used up the token k, presents it no more.          *)
UsedUp(t, k) ==
  /\ k <= created
  /\ tab[t].shows # "closed"
  /\ tab[t].holds = k => Covered(t, k)
  /\ \A c \in call : c.from = t =>
       c.brings # k /\ (Rotating(c) /\ c.presents = k => c.at # "sent")

OnceInv ==
  /\ refused = {}
  /\ cookie <= created
  /\ \A t \in Tabs : TabInv(t)
  /\ \A c \in call : CallInv(c)
  /\ \A c, d \in call : PairInv(c, d)
  /\ \A t \in Tabs, k \in TokenIds : token[k].revokedBy = t => UsedUp(t, k)

SameCall(c, d) == d.from = c.from /\ d.kind = c.kind /\ d.presents = c.presents

LEMMA Ranges ==
  ASSUME SessionsTypeInv
  PROVE  /\ created \in Nat /\ cookie \in Nat
         /\ \A t \in Tabs : tab[t].holds \in Nat
         /\ \A c \in call : /\ c \in Call /\ c.from \in Tabs /\ c.lost \in BOOLEAN
                            /\ c.presents \in Nat /\ c.brings \in Nat
                            /\ Rotating(c) => c.presents \in TokenIds
         /\ \A k \in TokenIds : k \in Nat /\ k # 0
<1> USE DEF SessionsTypeInv, SessionsTypeOK
<1>1. \A t \in Tabs : tab[t].holds \in Nat
  BY DEF Tab
<1>2. \A c \in call : c \in Call
  OBVIOUS
<1>3. \A c \in call : /\ c.from \in Tabs /\ c.lost \in BOOLEAN
                      /\ c.presents \in Nat /\ c.brings \in Nat
  BY <1>2, CallFields
<1> QED
  BY <1>1, <1>2, <1>3 DEF PresentsToken, TokenIds

(* The API goes on with a call: what a later statement of it revokes is    *)
(* what it presents, what it creates is new.                               *)
LEMMA GoesOn ==
  ASSUME SessionsTypeInv, OnceInv, NEW c \in call, NEW d \in Call, Proceed(c, d),
         SameCall(c, d), d.lost = c.lost, d.at # "sent",
         created' \in {created, created + 1},
         d.brings = c.brings \/ (d.brings = created + 1 /\ created' = created + 1),
         tab' = tab, cookie' = cookie, refused' = refused,
         \A k \in TokenIds, t \in Tabs : token'[k].revokedBy = t =>
           \/ token[k].revokedBy = t
           \/ (t = c.from /\ k = c.presents /\ Rotating(c))
  PROVE  OnceInv'
<1> USE Ranges
<1>1. /\ created <= created' /\ created' \in Nat /\ d.brings <= created'
      /\ call' \subseteq (call \ {c}) \cup {d}
      /\ call \ {c} \subseteq call'
      /\ ~d.lost => d \in call'
      /\ d \in call' => ~(d.lost /\ d.at = "answered")
  BY DEF Proceed, OnceInv, CallInv
<1>2. \A t, k : Covered(t, k) => Covered(t, k)'
  BY <1>1 DEF Covered, SameCall
<1>3. Rotating(c) <=> Rotating(d)
  BY DEF SameCall, Rotating
<1>4. \A t \in Tabs : TabInv(t)'
  <2> TAKE t \in Tabs
  <2>1. TabInv(t)
    BY DEF OnceInv
  <2> QED
    BY <2>1, <1>1 DEF TabInv
<1>5. \A x \in call' : CallInv(x)'
  <2> TAKE x \in call'
  <2>1. CASE x \in call \ {c}
    <3>1. CallInv(x)
      BY <2>1 DEF OnceInv
    <3>2. x.presents \in Nat /\ x.brings \in Nat
      BY <2>1
    <3> QED
      BY <3>1, <3>2, <1>1, <1>2 DEF CallInv, Rotating
  <2>2. CASE x = d
    <3>1. CallInv(c) /\ TabInv(c.from)
      BY DEF OnceInv
    <3>2. d.brings # 0 => tab[d.from].holds # d.brings
      BY <3>1 DEF CallInv, TabInv, SameCall
    <3> QED
      BY <2>2, <3>1, <3>2, <1>1, <1>2, <1>3 DEF CallInv, SameCall, Rotating
  <2> QED
    BY <1>1, <2>1, <2>2
<1>6. \A x, y \in call' : PairInv(x, y)'
  <2> TAKE x, y \in call'
  <2>1. CASE x \in call \ {c} /\ y \in call \ {c}
    BY <2>1 DEF OnceInv, PairInv, Rotating
  <2>2. CASE x = d /\ y = d
    <3>1. CallInv(c) /\ PairInv(c, c)
      BY DEF OnceInv
    <3> QED
      BY <2>2, <3>1, <1>3 DEF PairInv, CallInv, SameCall, Rotating
  <2>3. CASE x = d /\ y \in call \ {c}
    <3>1. PairInv(c, y) /\ PairInv(y, c) /\ CallInv(y) /\ y # c
      BY <2>3 DEF OnceInv
    <3> QED
      BY <2>3, <3>1, <1>3 DEF PairInv, CallInv, SameCall, Rotating
  <2>4. CASE x \in call \ {c} /\ y = d
    <3>1. PairInv(c, x) /\ PairInv(x, c) /\ CallInv(x) /\ x # c
      BY <2>4 DEF OnceInv
    <3> QED
      BY <2>4, <3>1, <1>3 DEF PairInv, CallInv, SameCall, Rotating
  <2> QED
    BY <1>1, <2>1, <2>2, <2>3, <2>4
<1>7. \A t \in Tabs, k \in TokenIds : token'[k].revokedBy = t => UsedUp(t, k)'
  <2> SUFFICES ASSUME NEW t \in Tabs, NEW k \in TokenIds, token'[k].revokedBy = t
               PROVE  UsedUp(t, k)'
    OBVIOUS
  <2>1. CASE token[k].revokedBy = t
    <3>1. UsedUp(t, k)
      BY <2>1 DEF OnceInv
    <3>2. \A x \in call' : x.from = t =>
            x.brings # k /\ (Rotating(x) /\ x.presents = k => x.at # "sent")
      BY <3>1, <1>1, <1>3 DEF UsedUp, SameCall
    <3> QED
      BY <3>1, <3>2, <1>1, <1>2 DEF UsedUp, Rotating
  <2>2. CASE t = c.from /\ k = c.presents /\ Rotating(c)
    <3>1. CallInv(c)
      BY DEF OnceInv
    <3>2. \A y \in call : PairInv(c, y)
      BY DEF OnceInv
    <3>3. d.brings # k
      BY <3>1, <3>2, <2>2 DEF PairInv, CallInv
    <3>4. \A x \in call' : x.from = t =>
            x.brings # k /\ (Rotating(x) /\ x.presents = k => x.at # "sent")
      BY <3>2, <3>3, <2>2, <1>1 DEF PairInv
    <3> QED
      BY <3>1, <3>4, <2>2, <1>1, <1>2 DEF UsedUp, CallInv, Rotating
  <2> QED
    BY <2>1, <2>2
<1> QED
  BY <1>1, <1>4, <1>5, <1>6, <1>7 DEF OnceInv

(* A tab sends a call; to rotate a token, one that it never presented.     *)
LEMMA Sending ==
  ASSUME SessionsTypeInv, OnceInv, NEW t \in Tabs, NEW k \in Nat, NEW n \in Tab,
         NEW kind \in {"refresh", "silent", "signIn", "signOut"},
         k <= created, Send(t, kind, k), tab' = [tab EXCEPT ![t] = n],
         n.shows # "closed", n.holds \in {0, tab[t].holds},
         UNCHANGED <<token, created, cookie, refused>>,
         kind \in {"refresh", "silent"} =>
           /\ k # 0
           /\ k \in TokenIds => token[k].revokedBy # t
           /\ \A d \in call : d.from = t =>
                d.brings # k /\ (Rotating(d) => d.presents # k),
         kind = "silent" => n.holds # k
  PROVE  OnceInv'
<1> DEFINE x == [from |-> t, kind |-> kind, at |-> "sent", presents |-> k,
                 brings |-> 0, seen |-> 0, lost |-> FALSE]
<1> USE Ranges
<1>1. call' = call \cup {x}
  BY DEF Send
<1>2. \A u, i : Covered(u, i) => Covered(u, i)'
  BY <1>1 DEF Covered
<1>3. /\ tab'[t] = n
      /\ \A u \in Tabs \ {t} : tab'[u] = tab[u]
  BY DEF SessionsTypeInv, SessionsTypeOK
<1>4. \A u \in Tabs : TabInv(u)'
  <2> TAKE u \in Tabs
  <2>1. TabInv(u)
    BY DEF OnceInv
  <2> QED
    BY <2>1, <1>3 DEF TabInv
<1>5. \A y \in call : tab'[y.from].holds \in {0, tab[y.from].holds}
                      /\ tab'[y.from].shows # "closed"
  <2> TAKE y \in call
  <2>1. CallInv(y)
    BY DEF OnceInv
  <2> QED
    BY <2>1, <1>3 DEF CallInv
<1>6. \A y \in call' : CallInv(y)'
  <2> TAKE y \in call'
  <2>1. CASE y \in call
    <3>1. CallInv(y)
      BY <2>1 DEF OnceInv
    <3>2. tab'[y.from].holds \in {0, tab[y.from].holds} /\ tab'[y.from].shows # "closed"
      BY <2>1, <1>5
    <3> QED
      BY <2>1, <3>1, <3>2, <1>2 DEF CallInv, Rotating
  <2>2. CASE y = x
    <3>1. kind = "refresh" => Covered(t, k)'
      <4>1. x \in call' /\ x.from = t /\ x.kind = kind /\ ~x.lost /\ x.presents = k
        BY <1>1
      <4> QED
        BY ONLY <4>1 DEF Covered
    <3> QED
      BY <2>2, <3>1, <1>3 DEF CallInv, Rotating
  <2> QED
    BY <1>1, <2>1, <2>2
<1>7. \A y, z \in call' : PairInv(y, z)'
  <2> TAKE y, z \in call'
  <2>1. CASE y \in call /\ z \in call
    BY <2>1 DEF OnceInv, PairInv, Rotating
  <2>2. CASE y = x /\ z = x
    BY <2>2 DEF PairInv, Rotating
  <2>3. CASE y = x /\ z \in call
    BY <2>3 DEF PairInv, Rotating
  <2>4. CASE y \in call /\ z = x
    BY <2>4 DEF PairInv, Rotating
  <2> QED
    BY <1>1, <2>1, <2>2, <2>3, <2>4
<1>8. \A u \in Tabs, i \in TokenIds : token'[i].revokedBy = u => UsedUp(u, i)'
  <2> SUFFICES ASSUME NEW u \in Tabs, NEW i \in TokenIds, token[i].revokedBy = u
               PROVE  UsedUp(u, i)'
    OBVIOUS
  <2>1. UsedUp(u, i)
    BY DEF OnceInv
  <2>2. tab'[u].shows # "closed" /\ (tab'[u].holds = i => Covered(u, i)')
    BY <2>1, <1>2, <1>3 DEF UsedUp
  <2>3. \A y \in call' : y.from = u =>
          y.brings # i /\ (Rotating(y) /\ y.presents = i => y.at # "sent")
    BY <2>1, <1>1 DEF UsedUp, Rotating
  <2> QED
    BY <2>1, <2>2, <2>3 DEF UsedUp, Rotating
<1> QED
  BY <1>4, <1>6, <1>7, <1>8 DEF OnceInv

(* A call ends for its tab: with an answer that the tab takes in, or, the  *)
(* call going on as d, without one.                                        *)
LEMMA Ending ==
  ASSUME SessionsTypeInv, OnceInv, NEW c \in call, NEW d \in Call, NEW n \in Tab,
         SameCall(c, d), d.brings = c.brings, d.at = c.at,
         call \ {c} \subseteq call', call' \subseteq (call \ {c}) \cup {d},
         d \in call' \ (call \ {c}) => d.at # "answered" /\ n.holds \in {0, tab[c.from].holds},
         tab' = [tab EXCEPT ![c.from] = n], n.shows # "closed",
         n.holds \in {0, tab[c.from].holds, c.brings},
         c.kind = "refresh" => n.holds # c.presents,
         UNCHANGED <<token, created, refused>>, cookie' \in {0, cookie, c.brings}
  PROVE  OnceInv'
<1> DEFINE t == c.from
<1> USE Ranges
<1>1. /\ tab'[t] = n /\ t \in Tabs
      /\ \A u \in Tabs \ {t} : tab'[u] = tab[u]
  BY DEF SessionsTypeInv, SessionsTypeOK
<1>2. CallInv(c) /\ TabInv(t) /\ cookie <= created
  BY DEF OnceInv
<1>3. n.holds \in Nat /\ n.holds <= created /\ cookie' <= created
  BY <1>2 DEF CallInv, TabInv
<1>4. \A u \in Tabs, i \in TokenIds : Covered(u, i) /\ tab'[u].holds = i => Covered(u, i)'
  <2> SUFFICES ASSUME NEW u \in Tabs, NEW i \in TokenIds, Covered(u, i), tab'[u].holds = i
               PROVE  Covered(u, i)'
    OBVIOUS
  <2>1. PICK w \in call : w.from = u /\ w.kind = "refresh" /\ ~w.lost /\ w.presents = i
    BY DEF Covered
  <2>2. w # c
    BY <2>1, <1>1
  <2> QED
    BY <2>1, <2>2 DEF Covered
<1>5. \A u \in Tabs : TabInv(u)'
  <2> TAKE u \in Tabs
  <2>1. TabInv(u)
    BY DEF OnceInv
  <2> QED
    BY <2>1, <1>1, <1>3 DEF TabInv
<1>6. \A x \in call \ {c} : CallInv(x)'
  <2> TAKE x \in call \ {c}
  <2>1. CallInv(x) /\ PairInv(x, c) /\ PairInv(c, x)
    BY DEF OnceInv
  <2>2. x.from \in Tabs /\ (Rotating(x) => x.presents \in TokenIds)
    OBVIOUS
  <2>3. tab'[x.from].shows # "closed"
    BY <2>1, <2>2, <1>1 DEF CallInv
  <2>4. x.brings # 0 => tab'[x.from].holds # x.brings
    BY <2>1, <2>2, <1>1 DEF CallInv, PairInv
  <2>5. Rotating(x) /\ tab'[x.from].holds = x.presents => Covered(x.from, x.presents)
    BY <2>1, <2>2, <1>1 DEF CallInv, PairInv
  <2>6. Rotating(x) /\ tab'[x.from].holds = x.presents => Covered(x.from, x.presents)'
    BY <2>2, <2>5, <1>4
  <2> QED
    BY <2>1, <2>3, <2>4, <2>6 DEF CallInv, Rotating
<1>7. \A x \in call' : CallInv(x)'
  <2> TAKE x \in call'
  <2>1. CASE x = d /\ d \notin call \ {c}
    <3>1. d.at # "answered" /\ n.holds \in {0, tab[t].holds}
      BY <2>1
    <3>2. Rotating(c) <=> Rotating(d)
      BY DEF SameCall, Rotating
    <3>3. Rotating(c) /\ tab'[t].holds = c.presents => Covered(t, c.presents)'
      BY <3>1, <1>1, <1>2, <1>4 DEF CallInv
    <3>4. c.brings # 0 => tab'[t].holds # c.brings
      BY <3>1, <1>1, <1>2 DEF CallInv
    <3> QED
      BY <2>1, <3>1, <3>2, <3>3, <3>4, <1>1, <1>2 DEF CallInv, SameCall, Rotating
  <2> QED
    BY <2>1, <1>6
<1>8. \A x, y \in call' : PairInv(x, y)'
  <2> TAKE x, y \in call'
  <2>1. Rotating(c) <=> Rotating(d)
    BY DEF SameCall, Rotating
  <2>2. CASE x \in call \ {c} /\ y \in call \ {c}
    BY <2>2 DEF OnceInv, PairInv, Rotating
  <2>3. CASE x = d /\ y = d
    <3>1. PairInv(c, c)
      BY DEF OnceInv
    <3> QED
      BY <2>3, <3>1, <2>1 DEF PairInv, SameCall, Rotating
  <2>4. CASE x = d /\ y \in call \ {c}
    <3>1. PairInv(c, y) /\ y # c
      BY <2>4 DEF OnceInv
    <3> QED
      BY <2>4, <3>1, <2>1 DEF PairInv, SameCall, Rotating
  <2>5. CASE x \in call \ {c} /\ y = d
    <3>1. PairInv(x, c) /\ x # c
      BY <2>5 DEF OnceInv
    <3> QED
      BY <2>5, <3>1, <2>1 DEF PairInv, SameCall, Rotating
  <2> QED
    BY <2>2, <2>3, <2>4, <2>5
<1>9. \A u \in Tabs, i \in TokenIds : token'[i].revokedBy = u => UsedUp(u, i)'
  <2> SUFFICES ASSUME NEW u \in Tabs, NEW i \in TokenIds, token[i].revokedBy = u
               PROVE  UsedUp(u, i)'
    OBVIOUS
  <2>1. UsedUp(u, i)
    BY DEF OnceInv
  <2>2. Rotating(c) <=> Rotating(d)
    BY DEF SameCall, Rotating
  <2>3. \A y \in call' : y.from = u =>
          y.brings # i /\ (Rotating(y) /\ y.presents = i => y.at # "sent")
    BY <2>1, <2>2 DEF UsedUp, SameCall
  <2>4. tab'[u].holds = i => Covered(u, i)
    BY <2>1, <1>1 DEF UsedUp
  <2>5. tab'[u].shows # "closed"
    BY <2>1, <1>1 DEF UsedUp
  <2> QED
    BY <2>1, <2>3, <2>4, <2>5, <1>4 DEF UsedUp, Rotating
<1> QED
  BY <1>3, <1>5, <1>7, <1>8, <1>9 DEF OnceInv

LEMMA OnceInit == SessionsInit => OnceInv
<1> SUFFICES ASSUME SessionsInit PROVE OnceInv
  OBVIOUS
<1>1. \A t \in Tabs, k \in TokenIds : token[k].revokedBy # t
  BY SessionsAssumption DEF SessionsInit, NoToken, SessionsAssumption
<1> QED
  BY <1>1 DEF SessionsInit, OnceInv, TabInv

LEMMA BrowsingOnce == SessionsTypeInv /\ OnceInv /\ Browsing => OnceInv'
<1> SUFFICES ASSUME SessionsTypeInv, OnceInv, Browsing PROVE OnceInv'
  OBVIOUS
<1> USE Ranges
<1>0. \A t \in Tabs : tab[t] \in Tab /\ TabInv(t)
  BY DEF SessionsTypeInv, SessionsTypeOK, OnceInv
<1>1. ASSUME NEW t \in Tabs, Open(t) PROVE OnceInv'
  <2>1. \A d \in call : d.from # t
    BY <1>1 DEF Open, OnceInv, CallInv
  <2>2. \A k \in TokenIds : token[k].revokedBy # t
    BY <1>1 DEF Open, OnceInv, UsedUp
  <2>3. tab[t].holds = 0
    BY <1>0, <1>1 DEF Open, TabInv
  <2>4. CASE cookie = 0
    <3>1. call' = call /\ tab' = [tab EXCEPT ![t] = [tab[t] EXCEPT !.shows = "out"]]
      BY <1>1, <2>4 DEF Open
    <3>2. /\ tab'[t].holds = 0
          /\ \A u \in Tabs \ {t} : tab'[u] = tab[u]
      BY <3>1, <2>3, <1>0 DEF SessionsTypeInv, SessionsTypeOK, Tab
    <3>3. \A u, i : Covered(u, i)' <=> Covered(u, i)
      BY <3>1 DEF Covered
    <3>4. \A u \in Tabs : TabInv(u)'
      BY <3>2, <1>0, <1>1 DEF TabInv, Open
    <3>5. \A x \in call' : CallInv(x)'
      <4> TAKE x \in call'
      <4>1. CallInv(x) /\ x.from # t /\ x.from \in Tabs
        BY <3>1, <2>1 DEF OnceInv
      <4>2. tab'[x.from] = tab[x.from]
        BY <4>1, <3>2
      <4> QED
        BY <4>1, <4>2, <3>3, <1>1 DEF CallInv, Open, Rotating
    <3>6. \A x, y \in call' : PairInv(x, y)'
      BY <3>1 DEF OnceInv, PairInv, Rotating
    <3>7. \A u \in Tabs, i \in TokenIds : token'[i].revokedBy = u => UsedUp(u, i)'
      <4> SUFFICES ASSUME NEW u \in Tabs, NEW i \in TokenIds, token'[i].revokedBy = u
                   PROVE  UsedUp(u, i)'
        OBVIOUS
      <4>1. UsedUp(u, i) /\ u # t
        BY <1>1, <2>2 DEF Open, OnceInv
      <4>2. tab'[u] = tab[u]
        BY <4>1, <3>2
      <4> QED
        BY <4>1, <4>2, <3>1, <3>3, <1>1 DEF UsedUp, Open, Rotating
    <3> QED
      BY <3>4, <3>5, <3>6, <3>7, <1>1 DEF OnceInv, Open
  <2>5. CASE cookie # 0
    <3> DEFINE n == [tab[t] EXCEPT !.shows = "loading"]
    <3>1. n \in Tab /\ n.shows = "loading" /\ n.holds = 0
      BY <1>0, <2>3 DEF Tab
    <3>2. tab' = [tab EXCEPT ![t] = n] /\ Send(t, "silent", cookie)
      BY <1>1, <2>5 DEF Open
    <3>3. cookie <= created
      BY DEF OnceInv
    <3>4. UNCHANGED <<token, created, cookie, refused>>
      BY <1>1 DEF Open
    <3> HIDE DEF n
    <3> QED
      BY <3>1, <3>2, <3>3, <3>4, <2>1, <2>2, <2>5, Sending
  <2> QED
    BY <2>4, <2>5
<1>2. ASSUME NEW t \in Tabs, SignIn(t) PROVE OnceInv'
  <2>1. tab' = [tab EXCEPT ![t] = tab[t]]
    BY <1>2 DEF SignIn, SessionsTypeInv, SessionsTypeOK
  <2>2. UNCHANGED <<token, created, cookie, refused>> /\ Send(t, "signIn", 0)
        /\ tab[t].shows # "closed" /\ 0 <= created
    BY <1>2 DEF SignIn
  <2> QED
    BY <2>1, <2>2, <1>0, Sending
<1>3. ASSUME NEW t \in Tabs, RefreshOnce(t) PROVE OnceInv'
  <2> DEFINE k == tab[t].holds
  <2>1. tab' = [tab EXCEPT ![t] = tab[t]]
    BY <1>3 DEF RefreshOnce, SessionsTypeInv, SessionsTypeOK
  <2>2. UNCHANGED <<token, created, cookie, refused>> /\ Send(t, "refresh", k) /\ k # 0
    BY <1>3 DEF RefreshOnce
  <2>3. k <= created /\ tab[t].shows # "closed"
    BY <1>0, <2>2 DEF TabInv
  <2>4. ~Covered(t, k)
    BY <1>3 DEF RefreshOnce, MayRefresh, Pending, Covered
  <2>5. k \in TokenIds => token[k].revokedBy # t
    BY <2>4 DEF OnceInv, UsedUp
  <2>6. \A d \in call : d.from = t => d.brings # k /\ (Rotating(d) => d.presents # k)
    BY <2>4, <2>2 DEF OnceInv, CallInv
  <2>7. tab[t].holds \in {0, tab[t].holds} /\ k \in Nat
    OBVIOUS
  <2> HIDE DEF k
  <2> QED
    BY <2>1, <2>2, <2>3, <2>5, <2>6, <2>7, <1>0, Sending
<1>4. ASSUME NEW t \in Tabs, SignOut(t) PROVE OnceInv'
  <2> DEFINE n == [shows |-> "out", holds |-> 0]
  <2>1. n \in Tab /\ n.shows # "closed" /\ n.holds \in {0, tab[t].holds}
    BY SessionsAssumption DEF Tab, SessionsAssumption
  <2>2. UNCHANGED <<token, created, cookie, refused>> /\ Send(t, "signOut", tab[t].holds)
        /\ tab' = [tab EXCEPT ![t] = n]
    BY <1>4 DEF SignOut
  <2>3. tab[t].holds <= created
    BY <1>0 DEF TabInv
  <2> HIDE DEF n
  <2> QED
    BY <2>1, <2>2, <2>3, Sending
<1>5. ASSUME NEW c \in call, Answer(c) PROVE OnceInv'
  <2> DEFINE t == c.from
  <2>1. c \in Call /\ t \in Tabs /\ CallInv(c) /\ PairInv(c, c) /\ tab[t] \in Tab
    BY <1>0 DEF OnceInv
  <2>2. Failed(t, c.kind) \in Tab /\ Succeeded(t, c.kind, c.brings) \in Tab
    BY <2>1, CallFields, TabTyped, SessionsAssumption DEF SessionsTypeInv, SessionsTypeOK
  <2>3. call' = call \ {c} /\ UNCHANGED <<token, created, refused>> /\ cookie' \in {0, cookie, c.brings}
    BY <1>5 DEF Answer
  <2>4. PICK n \in {Failed(t, c.kind), Succeeded(t, c.kind, c.brings)} :
          /\ tab' = [tab EXCEPT ![t] = n]
          /\ n = Failed(t, c.kind) \/ c.brings # 0 \/ c.kind = "signOut"
    BY <1>5 DEF Answer
  <2>5. /\ n.shows # "closed" /\ n.holds \in {0, tab[t].holds, c.brings}
        /\ c.kind = "refresh" => n.holds \in {0, c.brings} /\ (n.holds = 0 \/ c.brings # 0)
    BY <2>1, <2>4 DEF Failed, Succeeded, CallInv, Tab
  <2>6. c.kind = "refresh" => n.holds # c.presents
    BY <2>1, <2>5 DEF PairInv, Rotating
  <2>7. SameCall(c, c)
    BY DEF SameCall
  <2>8. n \in Tab
    BY <2>2, <2>4
  <2> QED
    BY <2>1, <2>3, <2>4, <2>5, <2>6, <2>7, <2>8, Ending
<1>6. ASSUME NEW c \in call, Lose(c) PROVE OnceInv'
  <2> DEFINE t == c.from
             d == [c EXCEPT !.lost = TRUE]
             n == Failed(t, c.kind)
  <2>1. c \in Call /\ t \in Tabs /\ CallInv(c) /\ tab[t] \in Tab
    BY <1>0 DEF OnceInv
  <2>2. d \in Call /\ SameCall(c, d) /\ d.brings = c.brings /\ d.at = c.at /\ d.lost
    BY <2>1 DEF Call, SameCall
  <2>3. n \in Tab
    BY <2>1, CallFields, TabTyped, SessionsAssumption DEF SessionsTypeInv, SessionsTypeOK
  <2>4. /\ call \ {c} \subseteq call' /\ call' \subseteq (call \ {c}) \cup {d}
        /\ d \in call' \ (call \ {c}) => d.at # "answered"
    BY <1>6, <2>2 DEF Lose, Proceed
  <2>5. n.shows # "closed" /\ n.holds \in {0, tab[t].holds} /\ (c.kind = "refresh" => n.holds = 0)
    BY <2>1 DEF Failed, CallInv, Tab
  <2>6. c.kind = "refresh" => n.holds # c.presents
    BY <2>1, <2>5 DEF Rotating
  <2>7. UNCHANGED <<token, created, refused>> /\ cookie' = cookie /\ tab' = [tab EXCEPT ![t] = n]
    BY <1>6 DEF Lose
  <2> HIDE DEF n, d
  <2> QED
    BY <2>1, <2>2, <2>3, <2>4, <2>5, <2>6, <2>7, Ending
<1> QED
  BY <1>1, <1>2, <1>3, <1>4, <1>5, <1>6 DEF Browsing

LEMMA GoesOnSame ==
  ASSUME NEW c \in Call, NEW a, NEW n
  PROVE  /\ SameCall(c, [c EXCEPT !.at = a]) /\ SameCall(c, [c EXCEPT !.lost = a])
         /\ SameCall(c, [c EXCEPT !.at = a, !.seen = n])
         /\ SameCall(c, [c EXCEPT !.at = a, !.brings = n])
  BY DEF Call, SameCall

LEMMA PresentsKept == SessionsTypeInv /\ SessionsNext => PresentsToken'
<1> SUFFICES ASSUME SessionsTypeInv, SessionsNext PROVE PresentsToken'
  OBVIOUS
<1> USE DEF SessionsTypeInv, PresentsToken
<1>1. ASSUME NEW c \in call, NEW d, Proceed(c, d), SameCall(c, d)
      PROVE  PresentsToken'
  BY <1>1 DEF Proceed, SameCall, Rotating
<1>2. \A k \in 0 .. MaxTokens : k # 0 => k \in TokenIds
  BY SessionsAssumption DEF TokenIds, SessionsAssumption
<1>3. cookie \in 0 .. MaxTokens /\ \A t \in Tabs : tab[t].holds \in 0 .. MaxTokens
  BY DEF SessionsTypeOK, Tab
<1>4. \A c \in call : c \in Call
  BY DEF SessionsTypeOK
<1>5. ASSUME NEW t \in Tabs, Open(t) \/ SignIn(t) \/ RefreshOnce(t) \/ SignOut(t)
      PROVE  PresentsToken'
  BY <1>5, <1>2, <1>3 DEF Open, SignIn, RefreshOnce, SignOut, Send, Rotating
<1>6. ASSUME NEW c \in call, Answer(c) PROVE PresentsToken'
  BY <1>6 DEF Answer, Rotating
<1>7. ASSUME NEW c \in call,
             \/ Lose(c) \/ RotateRead(c) \/ RotateCreate(c) \/ RotateRevoke(c)
             \/ SignInCheck(c) \/ SignInRevoke(c) \/ SignInCreate(c) \/ Logout(c)
      PROVE  PresentsToken'
  <2> USE <1>4, GoesOnSame
  <2>1. CASE Lose(c)
    BY <2>1, <1>1 DEF Lose
  <2>2. CASE RotateRead(c)
    BY <2>2, <1>1 DEF RotateRead
  <2>3. CASE RotateCreate(c)
    BY <2>3, <1>1 DEF RotateCreate
  <2>4. CASE RotateRevoke(c)
    BY <2>4, <1>1 DEF RotateRevoke
  <2>5. CASE SignInCheck(c)
    BY <2>5, <1>1 DEF SignInCheck
  <2>6. CASE SignInRevoke(c)
    BY <2>6, <1>1 DEF SignInRevoke
  <2>7. CASE SignInCreate(c)
    BY <2>7, <1>1 DEF SignInCreate
  <2>8. CASE Logout(c)
    BY <2>8, <1>1 DEF Logout
  <2> QED
    BY <1>7, <2>1, <2>2, <2>3, <2>4, <2>5, <2>6, <2>7, <2>8
<1>8. ASSUME ConfirmPasswordReset PROVE PresentsToken'
  BY <1>8 DEF ConfirmPasswordReset, Rotating
<1> QED
  BY <1>5, <1>6, <1>7, <1>8 DEF SessionsNext, Browsing, Serving

LEMMA SessionsTypeInvInit == SessionsInit => SessionsTypeInv
  BY SessionsTypeInit DEF SessionsTypeInv, PresentsToken, SessionsInit

LEMMA SessionsTypeInvKept == SessionsTypeInv /\ [SessionsNext]_sessionVars => SessionsTypeInv'
<1> SUFFICES ASSUME SessionsTypeInv, [SessionsNext]_sessionVars PROVE SessionsTypeInv'
  OBVIOUS
<1>1. CASE SessionsNext
  BY <1>1, BrowsingTyped, ServingTyped, PresentsKept DEF SessionsTypeInv, SessionsNext
<1>2. CASE UNCHANGED sessionVars
  BY <1>2 DEF sessionVars, SessionsTypeInv, SessionsTypeOK, PresentsToken, Rotating, Alive
<1> QED
  BY <1>1, <1>2

(* Every token, tab, cookie and call keeps the shape it was declared with, *)
(* whatever the interleaving of the tabs, the API and the resets.          *)
THEOREM SessionsTypeCorrect == SessionsSpec => []SessionsTypeOK
<1>1. SessionsTypeInv => SessionsTypeOK
  BY DEF SessionsTypeInv
<1> QED
  BY <1>1, SessionsTypeInvInit, SessionsTypeInvKept, PTL DEF SessionsSpec

(***************************************************************************)
(* The API, statement by statement                                         *)
(***************************************************************************)
LEMMA ServerNotTab ==
  \A t \in Tabs : t # "nobody" /\ t # "signIn" /\ t # "signOut" /\ t # "reset"
  BY SessionsAssumption DEF SessionsAssumption

LEMMA RevokeMarks ==
  ASSUME token \in [TokenIds -> Token], NEW S, NEW who, token' = Revoke(S, who)
  PROVE  \A k \in TokenIds : token'[k].revokedBy = (IF k \in S THEN who ELSE token[k].revokedBy)
  BY DEF Revoke, Token

LEMMA MintMarks ==
  ASSUME token \in [TokenIds -> Token], NEW of, NEW caught, Mint(of, caught)
  PROVE  \A k \in TokenIds : token'[k].revokedBy \in {token[k].revokedBy, "nobody"}
  BY DEF Mint

LEMMA ServingOnce == SessionsTypeInv /\ OnceInv /\ Serving => OnceInv'
<1> SUFFICES ASSUME SessionsTypeInv, OnceInv, Serving PROVE OnceInv'
  OBVIOUS
<1> USE Ranges, ServerNotTab
<1>0. token \in [TokenIds -> Token] /\ created \in 0 .. MaxTokens
  BY DEF SessionsTypeInv, SessionsTypeOK
<1>a. 0 \in 0 .. MaxTokens /\ 0 \in 0 .. MaxIncidents
  BY SessionsAssumption DEF SessionsAssumption
<1>1. ASSUME NEW c \in call, RotateRead(c) PROVE OnceInv'
  <2>1. c \in Call /\ c.presents \in TokenIds /\ resets \in 0 .. MaxIncidents
    BY <1>1, <1>0 DEF RotateRead, SessionsTypeInv, SessionsTypeOK
  <2>2. refused' = refused
    <3>1. ASSUME token[c.presents].revokedBy = c.from PROVE FALSE
      BY <2>1, <3>1, <1>1 DEF OnceInv, UsedUp, RotateRead
    <3> QED
      BY <3>1, <1>1 DEF RotateRead
  <2>3. UNCHANGED <<token, created, tab, cookie>>
    BY <1>1 DEF RotateRead
  <2>4. CASE token[c.presents].alive
    <3> DEFINE d == [c EXCEPT !.at = "checked", !.seen = resets]
    <3>1. d \in Call /\ SameCall(c, d)
      BY <2>1, <1>a, CallTyped, GoesOnSame
    <3>2. d.lost = c.lost /\ d.at = "checked" /\ d.brings = c.brings
      BY <2>1 DEF Call
    <3>3. Proceed(c, d)
      BY <1>1, <2>4 DEF RotateRead
    <3> HIDE DEF d
    <3> QED
      BY <2>2, <2>3, <3>1, <3>2, <3>3, GoesOn
  <2>5. CASE ~token[c.presents].alive
    <3> DEFINE d == [c EXCEPT !.at = "answered"]
    <3>1. d \in Call /\ SameCall(c, d)
      BY <2>1, <1>a, CallTyped, GoesOnSame
    <3>2. d.lost = c.lost /\ d.at = "answered" /\ d.brings = c.brings
      BY <2>1 DEF Call
    <3>3. Proceed(c, d)
      BY <1>1, <2>5 DEF RotateRead
    <3> HIDE DEF d
    <3> QED
      BY <2>2, <2>3, <3>1, <3>2, <3>3, GoesOn
  <2> QED
    BY <2>4, <2>5
<1>2. ASSUME NEW c \in call, RotateCreate(c) PROVE OnceInv'
  <2> DEFINE d == [c EXCEPT !.at = "acted", !.brings = created + 1]
  <2>1. c \in Call /\ \E of, caught \in 0 .. MaxIncidents : Mint(of, caught)
    BY <1>2, CreateMints
  <2>2. created + 1 \in 0 .. MaxTokens
    BY <2>1, <1>0, SessionsAssumption, MintTyped
  <2>3. d \in Call /\ SameCall(c, d)
    BY <2>1, <2>2, <1>a, CallTyped, GoesOnSame
  <2>4. d.lost = c.lost /\ d.at = "acted" /\ d.brings = created + 1
    BY <2>1 DEF Call
  <2>5. \A k \in TokenIds, t \in Tabs : token'[k].revokedBy = t => token[k].revokedBy = t
    BY <2>1, <1>0, MintMarks
  <2>6. Proceed(c, d) /\ created' = created + 1 /\ UNCHANGED <<tab, cookie, refused>>
    BY <1>2 DEF RotateCreate, Mint
  <2> HIDE DEF d
  <2> QED
    BY <2>3, <2>4, <2>5, <2>6, GoesOn
<1>3. ASSUME NEW c \in call, RotateRevoke(c) PROVE OnceInv'
  <2> DEFINE d == [c EXCEPT !.at = "answered"]
  <2>1. d \in Call /\ SameCall(c, d)
    BY <1>a, CallTyped, GoesOnSame
  <2>2. d.lost = c.lost /\ d.at = "answered" /\ d.brings = c.brings
    BY DEF Call
  <2>3. \A k \in TokenIds, t \in Tabs : token'[k].revokedBy = t =>
          token[k].revokedBy = t \/ (t = c.from /\ k = c.presents /\ Rotating(c))
    <3>1. token' = Revoke({c.presents}, c.from) /\ Rotating(c)
      BY <1>3 DEF RotateRevoke
    <3>2. \A k \in TokenIds : token'[k].revokedBy =
            IF k \in {c.presents} THEN c.from ELSE token[k].revokedBy
      BY ONLY <1>0, <3>1, RevokeMarks
    <3> QED
      BY ONLY <3>1, <3>2
  <2>4. Proceed(c, d) /\ UNCHANGED <<created, tab, cookie, refused>>
    BY <1>3 DEF RotateRevoke
  <2> HIDE DEF d
  <2> QED
    BY <2>1, <2>2, <2>3, <2>4, GoesOn
<1>4. ASSUME NEW c \in call, SignInCheck(c) PROVE OnceInv'
  <2> DEFINE d == [c EXCEPT !.at = "checked"]
  <2>1. d \in Call /\ SameCall(c, d)
    BY <1>a, CallTyped, GoesOnSame
  <2>2. d.lost = c.lost /\ d.at = "checked" /\ d.brings = c.brings
    BY DEF Call
  <2>3. Proceed(c, d) /\ UNCHANGED <<token, created, tab, cookie, refused>>
    BY <1>4 DEF SignInCheck
  <2> HIDE DEF d
  <2> QED
    BY <2>1, <2>2, <2>3, GoesOn
<1>5. ASSUME NEW c \in call, SignInRevoke(c) PROVE OnceInv'
  <2> DEFINE d == [c EXCEPT !.at = "acted"]
  <2>1. d \in Call /\ SameCall(c, d)
    BY <1>a, CallTyped, GoesOnSame
  <2>2. d.lost = c.lost /\ d.at = "acted" /\ d.brings = c.brings
    BY DEF Call
  <2>3. \A k \in TokenIds, t \in Tabs : token'[k].revokedBy = t => token[k].revokedBy = t
    BY <1>5, <1>0, RevokeMarks DEF SignInRevoke
  <2>4. Proceed(c, d) /\ UNCHANGED <<created, tab, cookie, refused>>
    BY <1>5 DEF SignInRevoke
  <2> HIDE DEF d
  <2> QED
    BY <2>1, <2>2, <2>3, <2>4, GoesOn
<1>6. ASSUME NEW c \in call, SignInCreate(c) PROVE OnceInv'
  <2> DEFINE d == [c EXCEPT !.at = "answered", !.brings = created + 1]
  <2>1. c \in Call /\ \E of, caught \in 0 .. MaxIncidents : Mint(of, caught)
    BY <1>6, SignInMints
  <2>2. created + 1 \in 0 .. MaxTokens
    BY <2>1, <1>0, SessionsAssumption, MintTyped
  <2>3. d \in Call /\ SameCall(c, d)
    BY <2>1, <2>2, <1>a, CallTyped, GoesOnSame
  <2>4. d.lost = c.lost /\ d.at = "answered" /\ d.brings = created + 1
    BY <2>1 DEF Call
  <2>5. \A k \in TokenIds, t \in Tabs : token'[k].revokedBy = t => token[k].revokedBy = t
    BY <2>1, <1>0, MintMarks
  <2>6. Proceed(c, d) /\ created' = created + 1 /\ UNCHANGED <<tab, cookie, refused>>
    BY <1>6 DEF SignInCreate, Mint
  <2> HIDE DEF d
  <2> QED
    BY <2>3, <2>4, <2>5, <2>6, GoesOn
<1>7. ASSUME NEW c \in call, Logout(c) PROVE OnceInv'
  <2> DEFINE d == [c EXCEPT !.at = "answered"]
  <2>1. d \in Call /\ SameCall(c, d)
    BY <1>a, CallTyped, GoesOnSame
  <2>2. d.lost = c.lost /\ d.at = "answered" /\ d.brings = c.brings
    BY DEF Call
  <2>3. \A k \in TokenIds, t \in Tabs : token'[k].revokedBy = t => token[k].revokedBy = t
    <3> DEFINE S == {c.presents} \cap Alive
    <3>1. token' = Revoke(S, "signOut")
      BY <1>7 DEF Logout
    <3> HIDE DEF S
    <3> QED
      BY <3>1, <1>0, RevokeMarks
  <2>4. Proceed(c, d) /\ UNCHANGED <<created, tab, cookie, refused>>
    BY <1>7 DEF Logout
  <2> HIDE DEF d
  <2> QED
    BY <2>1, <2>2, <2>3, <2>4, GoesOn
<1>8. ASSUME ConfirmPasswordReset PROVE OnceInv'
  <2>1. \A k \in TokenIds, t \in Tabs : token'[k].revokedBy = t => token[k].revokedBy = t
    BY <1>8, <1>0, RevokeMarks DEF ConfirmPasswordReset, RevokeAll
  <2>2. UNCHANGED <<created, tab, cookie, call, refused>>
    BY <1>8 DEF ConfirmPasswordReset
  <2>3. \A t \in Tabs : TabInv(t)'
    BY <2>2 DEF OnceInv, TabInv
  <2>4. \A c \in call' : CallInv(c)'
    BY <2>2 DEF OnceInv, CallInv, Covered, Rotating
  <2>5. \A c, e \in call' : PairInv(c, e)'
    BY <2>2 DEF OnceInv, PairInv, Rotating
  <2>6. \A t \in Tabs, k \in TokenIds : token'[k].revokedBy = t => UsedUp(t, k)'
    BY <2>1, <2>2 DEF OnceInv, UsedUp, Covered, Rotating
  <2> QED
    BY <2>2, <2>3, <2>4, <2>5, <2>6 DEF OnceInv
<1> QED
  BY <1>1, <1>2, <1>3, <1>4, <1>5, <1>6, <1>7, <1>8 DEF Serving

LEMMA OnceInvKept == SessionsTypeInv /\ OnceInv /\ [SessionsNext]_sessionVars => OnceInv'
<1> SUFFICES ASSUME SessionsTypeInv, OnceInv, [SessionsNext]_sessionVars PROVE OnceInv'
  OBVIOUS
<1>1. CASE SessionsNext
  BY <1>1, BrowsingOnce, ServingOnce DEF SessionsNext
<1>2. CASE UNCHANGED sessionVars
  BY <1>2 DEF sessionVars, OnceInv, TabInv, CallInv, PairInv, UsedUp, Covered, Rotating
<1> QED
  BY <1>1, <1>2

(* ApiClient's shared refresh is enough, for any number of tabs, calls,    *)
(* resets and lost answers: the token a tab presents to be rotated is      *)
(* never one that a rotation of its own has revoked.                       *)
THEOREM NeverRefusedByItself == SessionsSpec => []NeverRefusesItself
<1>1. OnceInv => NeverRefusesItself
  BY DEF OnceInv, NeverRefusesItself
<1>2. SessionsSpec => [](SessionsTypeInv /\ OnceInv)
  BY SessionsTypeInvInit, OnceInit, SessionsTypeInvKept, OnceInvKept, PTL DEF SessionsSpec
<1> QED
  BY <1>1, <1>2, PTL

(***************************************************************************)
(* What lives past a reset                                                 *)
(***************************************************************************)
(* The token k belongs to a session begun since the last reset, or being   *)
(* rotated when it was committed.                                          *)
Current(k) == token[k].of = resets \/ token[k].caught = resets

(* A rotation replaces a token that was alive when it read it: if there    *)
(* has been no reset since, what it creates is as current as that one.     *)
RotationInv(c) ==
  Rotating(c) /\ c.at = "checked" =>
    c.seen <= resets /\ (c.seen = resets => Current(c.presents))

ResetInv ==
  /\ \A k \in TokenIds : token[k].alive => Current(k)
  /\ \A c \in call : RotationInv(c)

LEMMA RevokeCurrent ==
  ASSUME token \in [TokenIds -> Token], NEW S, NEW who, token' = Revoke(S, who)
  PROVE  \A k \in TokenIds : /\ token'[k].alive => k \notin S /\ token[k].alive
                             /\ token'[k].of = token[k].of
                             /\ token'[k].caught = token[k].caught
  BY DEF Revoke, Token

LEMMA BrowsingCurrent == SessionsTypeOK /\ ResetInv /\ Browsing => ResetInv'
<1> SUFFICES ASSUME SessionsTypeOK, ResetInv, Browsing PROVE ResetInv'
  OBVIOUS
<1> USE DEF ResetInv, RotationInv, Current, Rotating
<1>0. \A c \in call : c \in Call
  BY DEF SessionsTypeOK
<1>1. ASSUME NEW t \in Tabs, Open(t) PROVE ResetInv'
  BY <1>1 DEF Open, Send
<1>2. ASSUME NEW t \in Tabs, SignIn(t) \/ RefreshOnce(t) \/ SignOut(t) PROVE ResetInv'
  BY <1>2 DEF SignIn, RefreshOnce, SignOut, Send
<1>3. ASSUME NEW c \in call, Answer(c) PROVE ResetInv'
  BY <1>3 DEF Answer
<1>4. ASSUME NEW c \in call, Lose(c) PROVE ResetInv'
  <2> DEFINE d == [c EXCEPT !.lost = TRUE]
  <2>1. d.at = c.at /\ d.kind = c.kind /\ d.seen = c.seen /\ d.presents = c.presents
    BY <1>0 DEF Call
  <2>2. call' \subseteq call \cup {d} /\ UNCHANGED <<token, resets>>
    BY <1>4 DEF Lose, Proceed
  <2> HIDE DEF d
  <2> QED
    BY <2>1, <2>2
<1> QED
  BY <1>1, <1>2, <1>3, <1>4 DEF Browsing

(* The API goes on with a call, and lets live only what was alive already, *)
(* or what is current.                                                     *)
LEMMA GoesOnCurrent ==
  ASSUME PresentsToken, ResetInv, NEW c \in call, NEW d, Proceed(c, d), resets' = resets,
         RotationInv(d)',
         \A k \in TokenIds : Current(k) => Current(k)',
         \A k \in TokenIds : token'[k].alive => token[k].alive \/ Current(k)'
  PROVE  ResetInv'
<1>1. call' \subseteq call \cup {d}
  BY DEF Proceed
<1>2. \A b \in call : RotationInv(b)'
  <2> SUFFICES ASSUME NEW b \in call, Rotating(b), b.at = "checked"
               PROVE  b.seen <= resets /\ (b.seen = resets => Current(b.presents)')
    BY DEF RotationInv, Rotating
  <2>1. RotationInv(b) /\ b.presents \in TokenIds
    BY DEF ResetInv, PresentsToken
  <2> QED
    BY <2>1 DEF RotationInv
<1> QED
  BY <1>1, <1>2 DEF ResetInv

LEMMA RevokingCurrent ==
  ASSUME SessionsTypeInv, ResetInv, NEW c \in call, NEW d, Proceed(c, d), resets' = resets,
         ~Rotating(d) \/ d.at # "checked", NEW S, NEW who, token' = Revoke(S, who)
  PROVE  ResetInv'
<1>1. \A k \in TokenIds : (Current(k) => Current(k)') /\ (token'[k].alive => token[k].alive)
  BY RevokeCurrent DEF SessionsTypeInv, SessionsTypeOK, Current
<1>2. RotationInv(d)'
  BY DEF RotationInv, Rotating
<1> QED
  BY <1>1, <1>2, GoesOnCurrent DEF SessionsTypeInv

LEMMA MintingCurrent ==
  ASSUME SessionsTypeInv, ResetInv, NEW c \in call, NEW d, Proceed(c, d), resets' = resets,
         d.at # "checked", NEW of, NEW caught, Mint(of, caught), of = resets \/ caught = resets
  PROVE  ResetInv'
<1>1. \A k \in TokenIds : token'[k] = token[k] \/ Current(k)'
  BY DEF Mint, Current, SessionsTypeInv, SessionsTypeOK
<1>2. \A k \in TokenIds : (Current(k) => Current(k)') /\ (token'[k].alive => token[k].alive \/ Current(k)')
  BY <1>1 DEF Current
<1>3. RotationInv(d)'
  BY DEF RotationInv
<1> QED
  BY <1>2, <1>3, GoesOnCurrent DEF SessionsTypeInv

LEMMA ServingCurrent == SessionsTypeInv /\ ResetInv /\ Serving => ResetInv'
<1> SUFFICES ASSUME SessionsTypeInv, ResetInv, Serving PROVE ResetInv'
  OBVIOUS
<1>0. /\ token \in [TokenIds -> Token] /\ \A c \in call : c \in Call
      /\ PresentsToken /\ resets \in Nat
  BY SessionsAssumption DEF SessionsTypeInv, SessionsTypeOK, SessionsAssumption
<1>1. ASSUME NEW c \in call, RotateRead(c) PROVE ResetInv'
  <2>1. c.presents \in TokenIds /\ c \in Call /\ UNCHANGED <<token, resets>>
    BY <1>0, <1>1 DEF RotateRead, PresentsToken
  <2>2. CASE token[c.presents].alive
    <3>1. Proceed(c, [c EXCEPT !.at = "checked", !.seen = resets])
      BY <1>1, <2>2 DEF RotateRead
    <3>2. PICK d : d = [c EXCEPT !.at = "checked", !.seen = resets]
      OBVIOUS
    <3>3. d.seen = resets /\ d.presents = c.presents /\ Proceed(c, d)
      BY <2>1, <3>1, <3>2 DEF Call
    <3>4. Current(d.presents)
      BY <2>1, <2>2, <3>3 DEF ResetInv
    <3>5. RotationInv(d)'
      BY <1>0, <2>1, <3>3, <3>4 DEF RotationInv, Current
    <3> QED
      BY <1>0, <2>1, <3>3, <3>5, GoesOnCurrent DEF Current
  <2>3. CASE ~token[c.presents].alive
    <3> DEFINE d == [c EXCEPT !.at = "answered"]
    <3>1. Proceed(c, d)
      BY <1>1, <2>3 DEF RotateRead
    <3>2. d.at = "answered"
      BY <2>1 DEF Call
    <3> HIDE DEF d
    <3>3. RotationInv(d)'
      BY <3>2 DEF RotationInv
    <3> QED
      BY <1>0, <2>1, <3>1, <3>3, GoesOnCurrent DEF Current
  <2> QED
    BY <2>2, <2>3
<1>2. ASSUME NEW c \in call, RotateCreate(c) PROVE ResetInv'
  <2> DEFINE d == [c EXCEPT !.at = "acted", !.brings = created + 1]
             old == token[c.presents]
             caught == IF c.seen < resets THEN resets ELSE old.caught
  <2>1. d.at = "acted"
    BY <1>0 DEF Call
  <2>2. Proceed(c, d) /\ Mint(old.of, caught) /\ resets' = resets
    BY <1>2 DEF RotateCreate
  <2>3. c.seen \in Nat /\ c.seen <= resets /\ (c.seen = resets => Current(c.presents))
    BY <1>0, <1>2, CallFields, SessionsAssumption DEF RotateCreate, ResetInv, RotationInv, SessionsAssumption
  <2>4. old.of = resets \/ caught = resets
    BY <1>0, <2>3 DEF Current
  <2> HIDE DEF d, old, caught
  <2> QED
    BY <2>1, <2>2, <2>4, MintingCurrent
<1>3. ASSUME NEW c \in call, SignInCreate(c) PROVE ResetInv'
  <2> DEFINE d == [c EXCEPT !.at = "answered", !.brings = created + 1]
  <2>1. d.at = "answered"
    BY <1>0 DEF Call
  <2>2. Proceed(c, d) /\ Mint(resets, 0) /\ resets' = resets
    BY <1>3 DEF SignInCreate
  <2> HIDE DEF d
  <2> QED
    BY <2>1, <2>2, MintingCurrent
<1>4. ASSUME NEW c \in call, SignInCheck(c) PROVE ResetInv'
  <2> DEFINE d == [c EXCEPT !.at = "checked"]
  <2>1. ~Rotating(d)
    BY <1>0, <1>4 DEF Call, SignInCheck, Rotating
  <2>2. Proceed(c, d) /\ UNCHANGED <<token, resets>>
    BY <1>4 DEF SignInCheck
  <2> HIDE DEF d
  <2>3. RotationInv(d)'
    BY <2>1 DEF RotationInv, Rotating
  <2> QED
    BY <1>0, <2>2, <2>3, GoesOnCurrent DEF Current
<1>5. ASSUME NEW c \in call, SignInRevoke(c) PROVE ResetInv'
  <2> DEFINE d == [c EXCEPT !.at = "acted"]
  <2>1. d.at = "acted"
    BY <1>0 DEF Call
  <2>2. Proceed(c, d) /\ token' = Revoke(Alive, "signIn") /\ resets' = resets
    BY <1>5 DEF SignInRevoke
  <2> HIDE DEF d
  <2> QED
    BY <2>1, <2>2, RevokingCurrent
<1>6. ASSUME NEW c \in call, RotateRevoke(c) \/ Logout(c) PROVE ResetInv'
  <2> DEFINE d == [c EXCEPT !.at = "answered"]
  <2>1. d.at = "answered"
    BY <1>0 DEF Call
  <2>2. Proceed(c, d) /\ (\E S, who : token' = Revoke(S, who)) /\ resets' = resets
    BY <1>6 DEF RotateRevoke, Logout
  <2> HIDE DEF d
  <2> QED
    BY <2>1, <2>2, RevokingCurrent
<1>7. ASSUME ConfirmPasswordReset PROVE ResetInv'
  <2>1. token' = Revoke(Alive, "reset") /\ call' = call /\ resets' = resets + 1
    BY <1>7 DEF ConfirmPasswordReset, RevokeAll
  <2>2. \A k \in TokenIds : ~token'[k].alive
    BY <2>1, <1>0, RevokeCurrent DEF Alive
  <2>3. \A c \in call : RotationInv(c)'
    <3> SUFFICES ASSUME NEW c \in call, Rotating(c), c.at = "checked"
                 PROVE  c.seen <= resets' /\ c.seen # resets'
      BY DEF RotationInv, Rotating
    <3>1. c.seen \in Nat /\ c.seen <= resets
      BY <1>0, CallFields, SessionsAssumption DEF ResetInv, RotationInv, SessionsAssumption
    <3> QED
      BY <1>0, <2>1, <3>1
  <2> QED
    BY <2>1, <2>2, <2>3 DEF ResetInv
<1> QED
  BY <1>1, <1>2, <1>3, <1>4, <1>5, <1>6, <1>7 DEF Serving

LEMMA ResetInvKept == SessionsTypeInv /\ ResetInv /\ [SessionsNext]_sessionVars => ResetInv'
<1> SUFFICES ASSUME SessionsTypeInv, ResetInv, [SessionsNext]_sessionVars PROVE ResetInv'
  OBVIOUS
<1>1. CASE SessionsNext
  BY <1>1, BrowsingCurrent, ServingCurrent DEF SessionsNext, SessionsTypeInv
<1>2. CASE UNCHANGED sessionVars
  BY <1>2 DEF sessionVars, ResetInv, RotationInv, Current, Rotating
<1> QED
  BY <1>1, <1>2

(* For any number of resets: a session from before the last one is alive   *)
(* only if that very reset was committed between the statements of one of  *)
(* its rotations.                                                          *)
THEOREM OnlyCaughtSessionsSurvive == SessionsSpec => []SurvivorsWereCaught
<1>1. ResetInv => SurvivorsWereCaught
  BY DEF ResetInv, Current, SurvivorsWereCaught, Alive
<1>2. SessionsInit => ResetInv
  BY DEF SessionsInit, NoToken, ResetInv
<1>3. SessionsSpec => [](SessionsTypeInv /\ ResetInv)
  BY <1>2, SessionsTypeInvInit, SessionsTypeInvKept, ResetInvKept, PTL DEF SessionsSpec
<1> QED
  BY <1>1, <1>3, PTL
=============================================================================
