--------------------------- MODULE SessionsProofs ---------------------------
(***************************************************************************)
(* Proofs about Sessions, for sets of users, wallets, nonces, tokens and    *)
(* requests of any size.                                                    *)
(***************************************************************************)
EXTENDS Sessions, TLAPS

---------------------------------------------------------------------------
(* The inductive invariant. *)

(* Places where the request knows its user. *)
UserPC == {"check_wallet", "bind_wallet", "upsert", "contact", "find_pubkey", "issue"}

(* What a request on its way to a session has given up. *)
Spent(o, r) ==
    \/ o \in Nonces /\ nonce[o] = "gone"
    \/ o \in Tokens /\ token[o] = "gone"
    \/ o = r

RequestInv(r) ==
    /\ pc[r] = "idle" => loc[r] = EmptyLocal
    /\ pc[r] \in WalletPC => loc[r].pubkey \in Wallets /\ loc[r].origin \in Nonces
    /\ pc[r] \in OAuthPC => loc[r].pubkey = None /\ loc[r].origin = r
    /\ pc[r] \in UserPC => loc[r].user \in Users
    /\ pc[r] = "issue" /\ loc[r].pubkey # None => wallet_of[loc[r].pubkey] = loc[r].user
    /\ Active(r) => Spent(loc[r].origin, r)
    /\ Active(r) /\ loc[r].origin \in Tokens => loc[r].user = token_user[loc[r].origin]

TokenInv(t) ==
    /\ token[t] = "unused" => origin[t] = None
    /\ token[t] # "unused" => token_user[t] \in Users
    /\ origin[t] \in Nonces => nonce[origin[t]] = "gone"
    /\ origin[t] \in Tokens => token[origin[t]] = "gone"
    /\ origin[t] \in Requests => pc[origin[t]] = "done"

IInv == /\ TypeOK
        /\ \A r \in Requests : RequestInv(r)
        /\ \A t \in Tokens : TokenInv(t)
        /\ SessionsAreNotForked
        /\ AccessTokensNameOwnWallet

---------------------------------------------------------------------------
(* What every step leaves alone: bound wallets, spent nonces and tokens, and *)
(* the rows of tokens once inserted.                                        *)
Grows ==
    /\ \A w \in Wallets : wallet_of[w] # None => wallet_of'[w] = wallet_of[w]
    /\ \A n \in Nonces : nonce[n] = "gone" => nonce'[n] = "gone"
    /\ \A t \in Tokens : token[t] = "gone" => token'[t] = "gone"
    /\ \A t \in Tokens : token[t] # "unused" =>
           /\ token'[t] # "unused"
           /\ token_user'[t] = token_user[t]
           /\ origin'[t] = origin[t]

(* No session is made: all steps but Issue. *)
NoSession ==
    /\ \A t \in Tokens : token[t] = "unused" => token'[t] = "unused"
    /\ UNCHANGED <<token_user, origin, jwts>>

(* A request that a step does not move keeps its part of the invariant. *)
LEMMA RequestKept ==
    ASSUME IInv, Grows, NEW r \in Requests, pc'[r] = pc[r], loc'[r] = loc[r]
    PROVE  RequestInv(r)'
<1> USE DEF IInv
<1>0. loc[r] \in Local /\ pc[r] \in PC /\ RequestInv(r)
  BY DEF TypeOK
<1>1. Active(r)' = Active(r)
  BY DEF Active
<1>2. pc'[r] = "issue" /\ loc'[r].pubkey # None =>
          wallet_of'[loc'[r].pubkey] = loc'[r].user
  <2> SUFFICES ASSUME pc[r] = "issue", loc[r].pubkey # None
               PROVE  wallet_of'[loc[r].pubkey] = loc[r].user
    OBVIOUS
  <2>1. loc[r].pubkey \in Wallets
    BY <1>0 DEF Local
  <2>2. wallet_of[loc[r].pubkey] = loc[r].user /\ loc[r].user \in Users
    BY <1>0 DEF RequestInv, UserPC
  <2> QED
    BY <2>1, <2>2, SessionsAssumption DEF Grows
<1>3. Active(r) => Spent(loc[r].origin, r)'
  BY <1>0 DEF RequestInv, Spent, Grows
<1>4. Active(r) /\ loc[r].origin \in Tokens => loc[r].user = token_user'[loc[r].origin]
  <2> SUFFICES ASSUME Active(r), loc[r].origin \in Tokens
               PROVE  token_user'[loc[r].origin] = token_user[loc[r].origin]
    BY <1>0 DEF RequestInv
  <2>1. token[loc[r].origin] = "gone"
    BY <1>0, SessionsAssumption DEF RequestInv, Spent
  <2> QED
    BY <2>1 DEF Grows
<1> QED
  BY <1>0, <1>1, <1>2, <1>3, <1>4 DEF RequestInv

(* Sessions and access tokens keep their part when none is made and no      *)
(* answered request comes back.                                             *)
LEMMA SessionsKept ==
    ASSUME IInv, Grows, NoSession,
           \A r \in Requests : pc[r] = "done" => pc'[r] = "done"
    PROVE  /\ \A t \in Tokens : TokenInv(t)'
           /\ AccessTokensNameOwnWallet'
<1> USE DEF IInv
<1>1. \A t \in Tokens : TokenInv(t)'
  <2> SUFFICES ASSUME NEW t \in Tokens PROVE TokenInv(t)'
    OBVIOUS
  <2>1. TokenInv(t) /\ origin' = origin /\ token_user' = token_user
    BY DEF NoSession
  <2>2. (token'[t] = "unused") = (token[t] = "unused")
    BY DEF NoSession, Grows
  <2> QED
    BY <2>1, <2>2 DEF TokenInv, Grows
<1>2. AccessTokensNameOwnWallet'
  <2> SUFFICES ASSUME NEW j \in jwts, j.pubkey # None
               PROVE  wallet_of'[j.pubkey] = j.user
    BY DEF AccessTokensNameOwnWallet, NoSession
  <2>1. j \in Claims
    BY DEF TypeOK
  <2>2. j.pubkey \in Wallets /\ j.user \in Users
    BY <2>1 DEF Claims
  <2>3. wallet_of[j.pubkey] = j.user
    BY DEF AccessTokensNameOwnWallet
  <2> QED
    BY <2>2, <2>3, SessionsAssumption DEF Grows
<1> QED
  BY <1>1, <1>2

(* A step of no request: the keeper, time, a challenge, a logout. *)
LEMMA RowFrame ==
    ASSUME IInv, TypeOK', Grows, NoSession, UNCHANGED <<pc, loc>>
    PROVE  IInv'
<1>1. \A r \in Requests : RequestInv(r)'
  BY RequestKept
<1>2. (\A t \in Tokens : TokenInv(t)') /\ AccessTokensNameOwnWallet'
  BY SessionsKept
<1>3. SessionsAreNotForked'
  BY DEF IInv, SessionsAreNotForked, Active, NoSession
<1> QED
  BY <1>1, <1>2, <1>3 DEF IInv

(* Nobody has what request r gives up. *)
Unclaimed(o, r) ==
    /\ \A t \in Tokens : origin[t] # o
    /\ \A q \in Requests \ {r} : Active(q) => loc[q].origin # o

(* A step of one request that makes no session: it keeps what it gave up,   *)
(* or gives up something nobody else has, or ends.                          *)
LEMMA RequestFrame ==
    ASSUME IInv, TypeOK', Grows, NoSession,
           NEW r \in Requests, pc[r] # "done",
           \A q \in Requests \ {r} : pc'[q] = pc[q] /\ loc'[q] = loc[q],
           RequestInv(r)',
           \/ ~Active(r)'
           \/ Active(r) /\ loc'[r].origin = loc[r].origin
           \/ Unclaimed(loc'[r].origin, r)
    PROVE  IInv'
<1>1. \A q \in Requests : RequestInv(q)'
  BY RequestKept
<1>2. (\A t \in Tokens : TokenInv(t)') /\ AccessTokensNameOwnWallet'
  BY SessionsKept
<1>3. SessionsAreNotForked'
  <2>1. \A q \in Requests \ {r} : Active(q)' = Active(q)
    BY DEF Active
  <2>2. origin' = origin /\ token_user' = token_user
    BY DEF NoSession
  <2>3. Active(r)' => Unclaimed(loc'[r].origin, r)
    BY DEF IInv, SessionsAreNotForked, Unclaimed
  <2>4. ASSUME NEW q \in Requests, Active(q)'
        PROVE  /\ \A t \in Tokens : origin'[t] # loc'[q].origin
               /\ \A p \in Requests : Active(p)' /\ loc'[p].origin = loc'[q].origin => p = q
    BY <2>1, <2>2, <2>3, <2>4 DEF IInv, SessionsAreNotForked, Unclaimed
  <2> QED
    BY <2>2, <2>4 DEF IInv, SessionsAreNotForked
<1> QED
  BY <1>1, <1>2, <1>3 DEF IInv

---------------------------------------------------------------------------
(* One lemma per action. *)

(* A new nonce was never anybody's origin. *)
LEMMA ChallengeStep ==
    ASSUME IInv, NEW n \in Nonces, Challenge(n) PROVE IInv'
<1>1. TypeOK'
  BY DEF IInv, Challenge, TypeOK, RowLife, identityVars, tokenVars
<1>2. Grows /\ NoSession
  BY DEF IInv, TypeOK, Challenge, Grows, NoSession, identityVars, tokenVars
<1> QED
  BY <1>1, <1>2, RowFrame DEF Challenge

(* Only live nonces age, so a spent one stays spent. *)
LEMMA NonceAgesStep ==
    ASSUME IInv, NEW n \in Nonces, NonceAges(n) PROVE IInv'
<1>1. TypeOK'
  BY DEF IInv, NonceAges, TypeOK, RowLife, identityVars, tokenVars
<1>2. Grows /\ NoSession
  BY DEF IInv, TypeOK, NonceAges, Grows, NoSession, identityVars, tokenVars
<1> QED
  BY <1>1, <1>2, RowFrame DEF NonceAges

(* Only live tokens age, so a spent one stays spent. *)
LEMMA TokenAgesStep ==
    ASSUME IInv, NEW t \in Tokens, TokenAges(t) PROVE IInv'
<1>1. TypeOK'
  BY DEF IInv, TokenAges, TypeOK, RowLife, identityVars, tokenVars
<1>2. Grows /\ NoSession
  BY DEF IInv, TypeOK, TokenAges, Grows, NoSession, identityVars, tokenVars
<1> QED
  BY <1>1, <1>2, RowFrame DEF TokenAges

(* logout spends a token; its sessions and successors keep their rows. *)
LEMMA LogoutStep ==
    ASSUME IInv, NEW t \in Tokens, logout(t) PROVE IInv'
<1>1. TypeOK'
  BY DEF IInv, logout, ConsumeToken, TypeOK, RowLife, identityVars, tokenVars
<1>2. Grows /\ NoSession
  BY DEF IInv, TypeOK, logout, ConsumeToken, Grows, NoSession, identityVars, tokenVars
<1> QED
  BY <1>1, <1>2, RowFrame DEF logout

(* Contacts decide nothing about sessions. *)
LEMMA UpdateContactsStep ==
    ASSUME IInv, NEW j \in jwts, NEW e \in Emails \cup {None}, UpdateContacts(j, e)
    PROVE  IInv'
<1>1. TypeOK'
  BY DEF IInv, UpdateContacts, TypeOK, tokenVars
<1>2. Grows /\ NoSession
  BY DEF IInv, TypeOK, UpdateContacts, Grows, NoSession, tokenVars
<1> QED
  BY <1>1, <1>2, RowFrame DEF UpdateContacts

(* The keeper's DELETE takes stale nonces only. *)
LEMMA KeeperCleansNoncesStep ==
    ASSUME IInv, KeeperCleansNonces PROVE IInv'
<1>1. TypeOK'
  BY DEF IInv, KeeperCleansNonces, TypeOK, RowLife, identityVars, tokenVars
<1>2. Grows /\ NoSession
  BY DEF IInv, TypeOK, KeeperCleansNonces, Grows, NoSession, identityVars, tokenVars
<1> QED
  BY <1>1, <1>2, RowFrame DEF KeeperCleansNonces

(* The keeper's DELETE takes stale tokens only. *)
LEMMA KeeperCleansTokensStep ==
    ASSUME IInv, KeeperCleansTokens PROVE IInv'
<1>1. TypeOK'
  BY DEF IInv, KeeperCleansTokens, TypeOK, RowLife, identityVars, tokenVars
<1>2. Grows /\ NoSession
  BY DEF IInv, TypeOK, KeeperCleansTokens, Grows, NoSession, identityVars, tokenVars
<1> QED
  BY <1>1, <1>2, RowFrame DEF KeeperCleansTokens

(* The locals of a request after the assignments the code makes. *)
LEMMA EmptyLocalTyped == EmptyLocal \in Local /\ EmptyLocal.pubkey = None
BY DEF EmptyLocal, Local

(* Assigning the user keeps the wallet and what was given up. *)
LEMMA SetUser ==
    ASSUME NEW l \in Local, NEW u \in Users \cup {None}
    PROVE  LET m == [l EXCEPT !.user = u] IN
           /\ m \in Local /\ m.user = u
           /\ m.pubkey = l.pubkey /\ m.origin = l.origin
BY DEF Local

(* Assigning the wallet keeps the user and what was given up. *)
LEMMA SetPubkey ==
    ASSUME NEW l \in Local, NEW w \in Wallets \cup {None}
    PROVE  LET m == [l EXCEPT !.pubkey = w] IN
           /\ m \in Local /\ m.pubkey = w
           /\ m.user = l.user /\ m.origin = l.origin
BY DEF Local

(* A request moves by itself. *)
LEMMA GotoEffect ==
    ASSUME TypeOK, NEW r \in Requests, NEW label \in PC, NEW l \in Local,
           Goto(r, label, l)
    PROVE  /\ pc' \in [Requests -> PC] /\ pc'[r] = label
           /\ loc' \in [Requests -> Local] /\ loc'[r] = l
           /\ \A q \in Requests \ {r} : pc'[q] = pc[q] /\ loc'[q] = loc[q]
BY DEF TypeOK, Goto

(* An answered request has nothing left to keep. *)
LEMMA ReturnEffect ==
    ASSUME TypeOK, NEW r \in Requests, Return(r)
    PROVE  /\ pc' \in [Requests -> PC] /\ loc' \in [Requests -> Local]
           /\ \A q \in Requests \ {r} : pc'[q] = pc[q] /\ loc'[q] = loc[q]
           /\ ~Active(r)' /\ RequestInv(r)'
<1>1. Goto(r, "done", EmptyLocal) /\ "done" \in PC
  BY DEF Return, PC
<1>2. /\ pc' \in [Requests -> PC] /\ pc'[r] = "done"
      /\ loc' \in [Requests -> Local]
      /\ \A q \in Requests \ {r} : pc'[q] = pc[q] /\ loc'[q] = loc[q]
  BY <1>1, EmptyLocalTyped, GotoEffect
<1>3. ~Active(r)'
  BY <1>2 DEF Active
<1> QED
  BY <1>2, <1>3 DEF RequestInv, WalletPC, OAuthPC, UserPC

(* verify takes a live nonce, which nobody has given up before. *)
LEMMA VerifyConsumeStep ==
    ASSUME IInv, NEW r \in Requests, NEW n \in Nonces, NEW w \in Wallets,
           VerifyConsume(r, n, w)
    PROVE  IInv'
<1>0. TypeOK /\ loc[r] \in Local /\ RequestInv(r) /\ pc[r] # "done"
  BY DEF IInv, TypeOK, VerifyConsume
<1>1. Grows /\ NoSession
  BY DEF IInv, TypeOK, VerifyConsume, ConsumeNonce, Grows, NoSession, identityVars,
     tokenVars
<1> DEFINE l == [loc[r] EXCEPT !.pubkey = w, !.origin = n]
<1>2. /\ l \in Local /\ "find_wallet" \in PC /\ Goto(r, "find_wallet", l)
      /\ l.pubkey = w /\ l.origin = n
  BY <1>0 DEF IInv, RequestInv, TypeOK, VerifyConsume, Local, Origins, PC, WalletPC,
     OAuthPC, Claims, EmptyLocal, TokenInv
<1> HIDE DEF l
<1>3. /\ pc' \in [Requests -> PC] /\ pc'[r] = "find_wallet"
      /\ loc' \in [Requests -> Local] /\ loc'[r] = l
      /\ \A q \in Requests \ {r} : pc'[q] = pc[q] /\ loc'[q] = loc[q]
  BY <1>0, <1>2, GotoEffect
<1>4. TypeOK'
  BY <1>0, <1>3 DEF TypeOK, VerifyConsume, ConsumeNonce, RowLife, identityVars,
     tokenVars
<1>5. RequestInv(r)'
  BY <1>0, <1>2, <1>3, SessionsAssumption DEF TypeOK, VerifyConsume, ConsumeNonce,
     RequestInv, Spent, Active, WalletPC, OAuthPC, UserPC, identityVars, tokenVars
<1>6. Unclaimed(l.origin, r)
  <2>1. \A x \in Tokens : origin[x] # n
    BY SessionsAssumption DEF IInv, TokenInv, VerifyConsume
  <2>2. \A q \in Requests \ {r} : Active(q) => loc[q].origin # n
    BY SessionsAssumption DEF IInv, RequestInv, Spent, VerifyConsume
  <2> QED
    BY <1>2, <2>1, <2>2 DEF Unclaimed
<1> QED
  BY <1>0, <1>1, <1>3, <1>4, <1>5, <1>6, RequestFrame

(* link_wallet does the same, for the user of its access token. *)
LEMMA LinkConsumeStep ==
    ASSUME IInv, NEW r \in Requests, NEW n \in Nonces, NEW w \in Wallets,
           NEW j \in jwts, LinkConsume(r, n, w, j)
    PROVE  IInv'
<1>0. TypeOK /\ loc[r] \in Local /\ RequestInv(r) /\ pc[r] # "done"
  BY DEF IInv, TypeOK, LinkConsume
<1>1. Grows /\ NoSession
  BY DEF IInv, TypeOK, LinkConsume, ConsumeNonce, Grows, NoSession, identityVars,
     tokenVars
<1> DEFINE l == [loc[r] EXCEPT !.user = j.user, !.pubkey = w, !.origin = n]
<1>2. /\ l \in Local /\ "check_wallet" \in PC /\ Goto(r, "check_wallet", l)
      /\ l.user \in Users /\ l.pubkey = w /\ l.origin = n
  BY <1>0 DEF IInv, RequestInv, TypeOK, LinkConsume, Local, Origins, PC, WalletPC,
     OAuthPC, Claims, EmptyLocal, TokenInv
<1> HIDE DEF l
<1>3. /\ pc' \in [Requests -> PC] /\ pc'[r] = "check_wallet"
      /\ loc' \in [Requests -> Local] /\ loc'[r] = l
      /\ \A q \in Requests \ {r} : pc'[q] = pc[q] /\ loc'[q] = loc[q]
  BY <1>0, <1>2, GotoEffect
<1>4. TypeOK'
  BY <1>0, <1>3 DEF TypeOK, LinkConsume, ConsumeNonce, RowLife, identityVars, tokenVars
<1>5. RequestInv(r)'
  BY <1>0, <1>2, <1>3, SessionsAssumption DEF TypeOK, LinkConsume, ConsumeNonce,
     RequestInv, Spent, Active, WalletPC, OAuthPC, UserPC, identityVars, tokenVars
<1>6. Unclaimed(l.origin, r)
  <2>1. \A x \in Tokens : origin[x] # n
    BY SessionsAssumption DEF IInv, TokenInv, LinkConsume
  <2>2. \A q \in Requests \ {r} : Active(q) => loc[q].origin # n
    BY SessionsAssumption DEF IInv, RequestInv, Spent, LinkConsume
  <2> QED
    BY <1>2, <2>1, <2>2 DEF Unclaimed
<1> QED
  BY <1>0, <1>1, <1>3, <1>4, <1>5, <1>6, RequestFrame

(* A callback gives up itself: it is handled once. *)
LEMMA OAuthFindStep ==
    ASSUME IInv, NEW r \in Requests, NEW p \in Providers, NEW i \in ProviderIds,
           NEW e \in Emails, OAuthFind(r, p, i, e)
    PROVE  IInv'
<1>0. TypeOK /\ loc[r] \in Local /\ RequestInv(r) /\ pc[r] # "done"
  BY DEF IInv, TypeOK, OAuthFind
<1>1. Grows /\ NoSession
  BY DEF IInv, TypeOK, OAuthFind, Grows, NoSession, identityVars, tokenVars
<1> DEFINE l == [loc[r] EXCEPT !.user = oauth[p][i], !.provider = p,
                            !.provider_id = i, !.email = e, !.origin = r]
<1>2. /\ l \in Local /\ "conflict" \in PC /\ Goto(r, "conflict", l)
      /\ l.pubkey = None /\ l.origin = r
  <2>1. oauth[p][i] \in Users \cup {None} /\ Goto(r, "conflict", l)
    BY <1>0 DEF TypeOK, OAuthFind
  <2>2. loc[r].pubkey = None
    BY <1>0, EmptyLocalTyped DEF RequestInv, OAuthFind
  <2> QED
    BY <1>0, <2>1, <2>2 DEF Local, Origins, PC, OAuthPC
<1> HIDE DEF l
<1>3. /\ pc' \in [Requests -> PC] /\ pc'[r] = "conflict"
      /\ loc' \in [Requests -> Local] /\ loc'[r] = l
      /\ \A q \in Requests \ {r} : pc'[q] = pc[q] /\ loc'[q] = loc[q]
  BY <1>0, <1>2, GotoEffect
<1>4. TypeOK'
  BY <1>0, <1>3 DEF TypeOK, OAuthFind, RowLife, identityVars, tokenVars
<1>5. RequestInv(r)'
  BY <1>0, <1>2, <1>3, SessionsAssumption DEF TypeOK, OAuthFind, RequestInv, Spent,
     Active, WalletPC, OAuthPC, UserPC, identityVars, tokenVars
<1>6. Unclaimed(l.origin, r)
  <2>1. \A x \in Tokens : origin[x] # r
    BY SessionsAssumption DEF IInv, TokenInv, OAuthFind
  <2>2. \A q \in Requests \ {r} : Active(q) => loc[q].origin # r
    BY SessionsAssumption DEF IInv, RequestInv, Spent, OAuthFind
  <2> QED
    BY <1>2, <2>1, <2>2 DEF Unclaimed
<1> QED
  BY <1>0, <1>1, <1>3, <1>4, <1>5, <1>6, RequestFrame

(* refresh takes a live token, which has no successor yet. *)
LEMMA RefreshConsumeStep ==
    ASSUME IInv, NEW r \in Requests, NEW t \in Tokens, RefreshConsume(r, t)
    PROVE  IInv'
<1>0. TypeOK /\ loc[r] \in Local /\ RequestInv(r) /\ pc[r] # "done"
  BY DEF IInv, TypeOK, RefreshConsume
<1>1. Grows /\ NoSession
  BY DEF IInv, TypeOK, RefreshConsume, ConsumeToken, Grows, NoSession, identityVars,
     tokenVars
<1> DEFINE l == [loc[r] EXCEPT !.user = token_user[t], !.origin = t]
<1>2. /\ l \in Local /\ "find_pubkey" \in PC /\ Goto(r, "find_pubkey", l)
      /\ l.user = token_user[t] /\ l.user \in Users /\ l.origin = t
  BY <1>0 DEF IInv, RequestInv, TypeOK, RefreshConsume, Local, Origins, PC, WalletPC,
     OAuthPC, Claims, EmptyLocal, TokenInv
<1> HIDE DEF l
<1>3. /\ pc' \in [Requests -> PC] /\ pc'[r] = "find_pubkey"
      /\ loc' \in [Requests -> Local] /\ loc'[r] = l
      /\ \A q \in Requests \ {r} : pc'[q] = pc[q] /\ loc'[q] = loc[q]
  BY <1>0, <1>2, GotoEffect
<1>4. TypeOK'
  BY <1>0, <1>3 DEF TypeOK, RefreshConsume, ConsumeToken, RowLife, identityVars,
     tokenVars
<1>5. RequestInv(r)'
  BY <1>0, <1>2, <1>3, SessionsAssumption DEF TypeOK, RefreshConsume, ConsumeToken,
     RequestInv, Spent, Active, WalletPC, OAuthPC, UserPC, identityVars, tokenVars
<1>6. Unclaimed(l.origin, r)
  <2>1. \A x \in Tokens : origin[x] # t
    BY SessionsAssumption DEF IInv, TokenInv, RefreshConsume
  <2>2. \A q \in Requests \ {r} : Active(q) => loc[q].origin # t
    BY SessionsAssumption DEF IInv, RequestInv, Spent, RefreshConsume
  <2> QED
    BY <1>2, <2>1, <2>2 DEF Unclaimed
<1> QED
  BY <1>0, <1>1, <1>3, <1>4, <1>5, <1>6, RequestFrame

(* A wallet found belongs to the user found with it. *)
LEMMA FindWalletStep ==
    ASSUME IInv, NEW r \in Requests, FindWallet(r)
    PROVE  IInv'
<1>0. TypeOK /\ loc[r] \in Local /\ RequestInv(r) /\ pc[r] # "done"
  BY DEF IInv, TypeOK, FindWallet
<1>1. Grows /\ NoSession
  BY DEF IInv, TypeOK, FindWallet, WalletTaken, Grows, NoSession, identityVars,
     tokenVars
<1>2. CASE WalletTaken(loc[r].pubkey)
  <2> DEFINE l == [loc[r] EXCEPT !.user = wallet_of[loc[r].pubkey]]
  <2>1. /\ l \in Local /\ "issue" \in PC /\ Goto(r, "issue", l)
        /\ l.origin = loc[r].origin
        /\ l.user \in Users /\ l.pubkey \in Wallets /\ wallet_of[l.pubkey] = l.user
    BY <1>0, <1>2, SetUser DEF IInv, TypeOK, RequestInv, FindWallet, WalletTaken, PC,
       WalletPC, OAuthPC, UserPC
  <2> HIDE DEF l
  <2>2. /\ pc' \in [Requests -> PC] /\ pc'[r] = "issue"
        /\ loc' \in [Requests -> Local] /\ loc'[r] = l
        /\ \A q \in Requests \ {r} : pc'[q] = pc[q] /\ loc'[q] = loc[q]
    BY <1>0, <2>1, GotoEffect
  <2>3. TypeOK'
    BY <1>0, <1>2, <2>2 DEF TypeOK, FindWallet, WalletTaken, identityVars, tokenVars
  <2>4. RequestInv(r)'
    BY <1>0, <1>2, <2>1, <2>2, SessionsAssumption DEF TypeOK, FindWallet, WalletTaken,
       RequestInv, Spent, Active, WalletPC, OAuthPC, UserPC, identityVars, tokenVars
  <2> QED
    BY <1>0, <1>1, <2>1, <2>2, <2>3, <2>4, RequestFrame DEF FindWallet, Active
<1>3. CASE ~WalletTaken(loc[r].pubkey)
  <2> DEFINE l == loc[r]
  <2>1. /\ l \in Local /\ "create_for_wallet" \in PC /\ Goto(r, "create_for_wallet", l)
        /\ l.origin = loc[r].origin
        /\ l = loc[r]
    BY <1>0, <1>3 DEF IInv, TypeOK, RequestInv, FindWallet, WalletTaken, PC, WalletPC,
       OAuthPC, UserPC
  <2> HIDE DEF l
  <2>2. /\ pc' \in [Requests -> PC] /\ pc'[r] = "create_for_wallet"
        /\ loc' \in [Requests -> Local] /\ loc'[r] = l
        /\ \A q \in Requests \ {r} : pc'[q] = pc[q] /\ loc'[q] = loc[q]
    BY <1>0, <2>1, GotoEffect
  <2>3. TypeOK'
    BY <1>0, <1>3, <2>2 DEF TypeOK, FindWallet, WalletTaken, identityVars, tokenVars
  <2>4. RequestInv(r)'
    BY <1>0, <1>3, <2>1, <2>2, SessionsAssumption DEF TypeOK, FindWallet, WalletTaken,
       RequestInv, Spent, Active, WalletPC, OAuthPC, UserPC, identityVars, tokenVars
  <2> QED
    BY <1>0, <1>1, <2>1, <2>2, <2>3, <2>4, RequestFrame DEF FindWallet, Active
<1> QED
  BY <1>2, <1>3

(* link_wallet goes on only with a wallet it did not find. *)
LEMMA CheckWalletStep ==
    ASSUME IInv, NEW r \in Requests, CheckWallet(r)
    PROVE  IInv'
<1>0. TypeOK /\ loc[r] \in Local /\ RequestInv(r) /\ pc[r] # "done"
  BY DEF IInv, TypeOK, CheckWallet
<1>1. Grows /\ NoSession
  BY DEF IInv, TypeOK, CheckWallet, WalletTaken, Grows, NoSession, identityVars,
     tokenVars
<1>2. CASE Return(r)
  <2>1. TypeOK'
    BY <1>0, <1>2, ReturnEffect DEF TypeOK, CheckWallet, WalletTaken, identityVars,
       tokenVars
  <2> QED
    BY <1>0, <1>1, <1>2, <2>1, ReturnEffect, RequestFrame
<1>3. CASE ~WalletTaken(loc[r].pubkey)
  <2> DEFINE l == loc[r]
  <2>1. /\ l \in Local /\ "bind_wallet" \in PC /\ Goto(r, "bind_wallet", l)
        /\ l.origin = loc[r].origin
        /\ l = loc[r]
    BY <1>0, <1>3 DEF IInv, TypeOK, RequestInv, CheckWallet, WalletTaken, PC,
       WalletPC, OAuthPC, UserPC
  <2> HIDE DEF l
  <2>2. /\ pc' \in [Requests -> PC] /\ pc'[r] = "bind_wallet"
        /\ loc' \in [Requests -> Local] /\ loc'[r] = l
        /\ \A q \in Requests \ {r} : pc'[q] = pc[q] /\ loc'[q] = loc[q]
    BY <1>0, <2>1, GotoEffect
  <2>3. TypeOK'
    BY <1>0, <1>3, <2>2 DEF TypeOK, CheckWallet, WalletTaken, identityVars, tokenVars
  <2>4. RequestInv(r)'
    BY <1>0, <1>3, <2>1, <2>2, SessionsAssumption DEF TypeOK, CheckWallet,
       WalletTaken, RequestInv, Spent, Active, WalletPC, OAuthPC, UserPC,
       identityVars, tokenVars
  <2> QED
    BY <1>0, <1>1, <2>1, <2>2, <2>3, <2>4, RequestFrame DEF CheckWallet, Active
<1> QED
  BY <1>2, <1>3 DEF CheckWallet

(* The INSERT goes through only if the wallet is still free. *)
LEMMA BindWalletStep ==
    ASSUME IInv, NEW r \in Requests, BindWallet(r)
    PROVE  IInv'
<1>0. TypeOK /\ loc[r] \in Local /\ RequestInv(r) /\ pc[r] # "done"
  BY DEF IInv, TypeOK, BindWallet
<1>1. Grows /\ NoSession
  BY DEF IInv, TypeOK, BindWallet, WalletTaken, insert_wallet, Grows, NoSession,
     identityVars, tokenVars
<1>2. CASE ~WalletTaken(loc[r].pubkey)
  <2> DEFINE l == loc[r]
  <2>1. /\ l \in Local /\ "issue" \in PC /\ Goto(r, "issue", l)
        /\ l.origin = loc[r].origin
        /\ l.user \in Users /\ l.pubkey \in Wallets /\ l = loc[r]
    BY <1>0, <1>2 DEF IInv, TypeOK, RequestInv, BindWallet, WalletTaken,
       insert_wallet, PC, WalletPC, OAuthPC, UserPC
  <2> HIDE DEF l
  <2>2. /\ pc' \in [Requests -> PC] /\ pc'[r] = "issue"
        /\ loc' \in [Requests -> Local] /\ loc'[r] = l
        /\ \A q \in Requests \ {r} : pc'[q] = pc[q] /\ loc'[q] = loc[q]
    BY <1>0, <2>1, GotoEffect
  <2>3. TypeOK'
    <3>1. wallet_of' \in [Wallets -> Users \cup {None}]
      BY <1>0, <1>2, <2>1 DEF TypeOK, BindWallet, insert_wallet
    <3> QED
      BY <1>0, <2>2, <3>1 DEF TypeOK, BindWallet, identityVars, tokenVars
  <2>4. RequestInv(r)'
    BY <1>0, <1>2, <2>1, <2>2, SessionsAssumption DEF TypeOK, BindWallet, WalletTaken,
       insert_wallet, RequestInv, Spent, Active, WalletPC, OAuthPC, UserPC,
       identityVars, tokenVars
  <2> QED
    BY <1>0, <1>1, <2>1, <2>2, <2>3, <2>4, RequestFrame DEF BindWallet, Active
<1>3. CASE WalletTaken(loc[r].pubkey)
  <2>0. Return(r)
    BY <1>3 DEF BindWallet
  <2>1. TypeOK'
    BY <1>0, <1>3, <2>0, ReturnEffect DEF TypeOK, BindWallet, identityVars, tokenVars
  <2> QED
    BY <1>0, <1>1, <2>0, <2>1, ReturnEffect, RequestFrame
<1> QED
  BY <1>2, <1>3

(* A new account has no wallet; the request remembers its id. *)
LEMMA CreateAccountStep ==
    ASSUME IInv, NEW r \in Requests, NEW u \in Users, CreateAccount(r, u)
    PROVE  IInv'
<1>0. TypeOK /\ loc[r] \in Local /\ RequestInv(r) /\ pc[r] # "done"
  BY DEF IInv, TypeOK, CreateAccount
<1>1. Grows /\ NoSession
  BY DEF IInv, TypeOK, CreateAccount, Grows, NoSession, identityVars, tokenVars
<1>2. CASE pc[r] = "create_for_wallet"
  <2> DEFINE l == [loc[r] EXCEPT !.user = u]
  <2>1. /\ l \in Local /\ "bind_wallet" \in PC /\ Goto(r, "bind_wallet", l)
        /\ l.origin = loc[r].origin
        /\ l.user \in Users /\ l.pubkey \in Wallets /\ l.origin \in Nonces
    BY <1>0, <1>2, SetUser DEF IInv, TypeOK, RequestInv, CreateAccount, PC, WalletPC,
       OAuthPC, UserPC
  <2> HIDE DEF l
  <2>2. /\ pc' \in [Requests -> PC] /\ pc'[r] = "bind_wallet"
        /\ loc' \in [Requests -> Local] /\ loc'[r] = l
        /\ \A q \in Requests \ {r} : pc'[q] = pc[q] /\ loc'[q] = loc[q]
    BY <1>0, <2>1, GotoEffect
  <2>3. TypeOK'
    BY <1>0, <1>2, <2>2 DEF TypeOK, CreateAccount, identityVars, tokenVars
  <2>4. RequestInv(r)'
    BY <1>0, <1>2, <2>1, <2>2, SessionsAssumption DEF TypeOK, CreateAccount,
       RequestInv, Spent, Active, WalletPC, OAuthPC, UserPC, identityVars, tokenVars
  <2> QED
    BY <1>0, <1>1, <2>1, <2>2, <2>3, <2>4, RequestFrame DEF CreateAccount, Active
<1>3. CASE pc[r] = "create_for_oauth"
  <2> DEFINE l == [loc[r] EXCEPT !.user = u]
  <2>1. /\ l \in Local /\ "upsert" \in PC /\ Goto(r, "upsert", l)
        /\ l.origin = loc[r].origin
        /\ l.user \in Users /\ l.pubkey = None /\ l.origin = r
    BY <1>0, <1>3, SetUser DEF IInv, TypeOK, RequestInv, CreateAccount, PC, WalletPC,
       OAuthPC, UserPC
  <2> HIDE DEF l
  <2>2. /\ pc' \in [Requests -> PC] /\ pc'[r] = "upsert"
        /\ loc' \in [Requests -> Local] /\ loc'[r] = l
        /\ \A q \in Requests \ {r} : pc'[q] = pc[q] /\ loc'[q] = loc[q]
    BY <1>0, <2>1, GotoEffect
  <2>3. TypeOK'
    BY <1>0, <1>3, <2>2 DEF TypeOK, CreateAccount, identityVars, tokenVars
  <2>4. RequestInv(r)'
    BY <1>0, <1>3, <2>1, <2>2, SessionsAssumption DEF TypeOK, CreateAccount,
       RequestInv, Spent, Active, WalletPC, OAuthPC, UserPC, identityVars, tokenVars
  <2> QED
    BY <1>0, <1>1, <2>1, <2>2, <2>3, <2>4, RequestFrame DEF CreateAccount, Active
<1> QED
  BY <1>2, <1>3 DEF CreateAccount

(* A conflict ends the callback; otherwise nothing is written yet. *)
LEMMA OAuthConflictStep ==
    ASSUME IInv, NEW r \in Requests, OAuthConflict(r)
    PROVE  IInv'
<1>0. TypeOK /\ loc[r] \in Local /\ RequestInv(r) /\ pc[r] # "done"
  BY DEF IInv, TypeOK, OAuthConflict
<1>1. Grows /\ NoSession
  BY DEF IInv, TypeOK, OAuthConflict, Grows, NoSession, identityVars, tokenVars
<1>2. CASE Return(r)
  <2>1. TypeOK'
    BY <1>0, <1>2, ReturnEffect DEF TypeOK, OAuthConflict, identityVars, tokenVars
  <2> QED
    BY <1>0, <1>1, <1>2, <2>1, ReturnEffect, RequestFrame
<1>3. CASE loc[r].user # None /\ Goto(r, "upsert", loc[r])
  <2> DEFINE l == loc[r]
  <2>1. /\ l \in Local /\ "upsert" \in PC /\ Goto(r, "upsert", l)
        /\ l.origin = loc[r].origin
        /\ l = loc[r] /\ l.user \in Users
    BY <1>0, <1>3 DEF Local, PC, WalletPC, OAuthPC, UserPC
  <2> HIDE DEF l
  <2>2. /\ pc' \in [Requests -> PC] /\ pc'[r] = "upsert"
        /\ loc' \in [Requests -> Local] /\ loc'[r] = l
        /\ \A q \in Requests \ {r} : pc'[q] = pc[q] /\ loc'[q] = loc[q]
    BY <1>0, <2>1, GotoEffect
  <2>3. TypeOK'
    BY <1>0, <1>3, <2>2 DEF TypeOK, OAuthConflict, identityVars, tokenVars
  <2>4. RequestInv(r)'
    BY <1>0, <1>3, <2>1, <2>2, SessionsAssumption DEF TypeOK, OAuthConflict,
       RequestInv, Spent, Active, WalletPC, OAuthPC, UserPC, identityVars, tokenVars
  <2> QED
    BY <1>0, <1>1, <2>1, <2>2, <2>3, <2>4, RequestFrame DEF OAuthConflict, Active
<1>4. CASE Goto(r, "same_provider", loc[r])
  <2> DEFINE l == loc[r]
  <2>1. /\ l \in Local /\ "same_provider" \in PC /\ Goto(r, "same_provider", l)
        /\ l.origin = loc[r].origin
        /\ l = loc[r]
    BY <1>0, <1>4 DEF PC, WalletPC, OAuthPC, UserPC
  <2> HIDE DEF l
  <2>2. /\ pc' \in [Requests -> PC] /\ pc'[r] = "same_provider"
        /\ loc' \in [Requests -> Local] /\ loc'[r] = l
        /\ \A q \in Requests \ {r} : pc'[q] = pc[q] /\ loc'[q] = loc[q]
    BY <1>0, <2>1, GotoEffect
  <2>3. TypeOK'
    BY <1>0, <1>4, <2>2 DEF TypeOK, OAuthConflict, identityVars, tokenVars
  <2>4. RequestInv(r)'
    BY <1>0, <1>4, <2>1, <2>2, SessionsAssumption DEF TypeOK, OAuthConflict,
       RequestInv, Spent, Active, WalletPC, OAuthPC, UserPC, identityVars, tokenVars
  <2> QED
    BY <1>0, <1>1, <2>1, <2>2, <2>3, <2>4, RequestFrame DEF OAuthConflict, Active
<1> QED
  BY <1>2, <1>3, <1>4 DEF OAuthConflict

(* The callback adopts an account or goes on to create one. *)
LEMMA OAuthSameProviderStep ==
    ASSUME IInv, NEW r \in Requests, OAuthSameProvider(r)
    PROVE  IInv'
<1>0. TypeOK /\ loc[r] \in Local /\ RequestInv(r) /\ pc[r] # "done"
  BY DEF IInv, TypeOK, OAuthSameProvider
<1>1. Grows /\ NoSession
  BY DEF IInv, TypeOK, OAuthSameProvider, Grows, NoSession, identityVars, tokenVars
<1>2. ASSUME NEW u \in Users, Goto(r, "upsert", [loc[r] EXCEPT !.user = u]) PROVE IInv'
  <2> DEFINE l == [loc[r] EXCEPT !.user = u]
  <2>1. /\ l \in Local /\ "upsert" \in PC /\ Goto(r, "upsert", l)
        /\ l.origin = loc[r].origin
        /\ l.user \in Users /\ l.pubkey = None /\ l.origin = r
    BY <1>0, <1>2, SetUser DEF IInv, TypeOK, RequestInv, OAuthSameProvider, PC,
       WalletPC, OAuthPC, UserPC
  <2> HIDE DEF l
  <2>2. /\ pc' \in [Requests -> PC] /\ pc'[r] = "upsert"
        /\ loc' \in [Requests -> Local] /\ loc'[r] = l
        /\ \A q \in Requests \ {r} : pc'[q] = pc[q] /\ loc'[q] = loc[q]
    BY <1>0, <2>1, GotoEffect
  <2>3. TypeOK'
    BY <1>0, <1>2, <2>2 DEF TypeOK, OAuthSameProvider, identityVars, tokenVars
  <2>4. RequestInv(r)'
    BY <1>0, <1>2, <2>1, <2>2, SessionsAssumption DEF TypeOK, OAuthSameProvider,
       RequestInv, Spent, Active, WalletPC, OAuthPC, UserPC, identityVars, tokenVars
  <2> QED
    BY <1>0, <1>1, <2>1, <2>2, <2>3, <2>4, RequestFrame DEF OAuthSameProvider, Active
<1>3. CASE Goto(r, "create_for_oauth", loc[r])
  <2> DEFINE l == loc[r]
  <2>1. /\ l \in Local /\ "create_for_oauth" \in PC /\ Goto(r, "create_for_oauth", l)
        /\ l.origin = loc[r].origin
        /\ l = loc[r]
    BY <1>0, <1>3 DEF PC, WalletPC, OAuthPC, UserPC
  <2> HIDE DEF l
  <2>2. /\ pc' \in [Requests -> PC] /\ pc'[r] = "create_for_oauth"
        /\ loc' \in [Requests -> Local] /\ loc'[r] = l
        /\ \A q \in Requests \ {r} : pc'[q] = pc[q] /\ loc'[q] = loc[q]
    BY <1>0, <2>1, GotoEffect
  <2>3. TypeOK'
    BY <1>0, <1>3, <2>2 DEF TypeOK, OAuthSameProvider, identityVars, tokenVars
  <2>4. RequestInv(r)'
    BY <1>0, <1>3, <2>1, <2>2, SessionsAssumption DEF TypeOK, OAuthSameProvider,
       RequestInv, Spent, Active, WalletPC, OAuthPC, UserPC, identityVars, tokenVars
  <2> QED
    BY <1>0, <1>1, <2>1, <2>2, <2>3, <2>4, RequestFrame DEF OAuthSameProvider, Active
<1> QED
  BY <1>2, <1>3 DEF OAuthSameProvider, AccountsByEmail

(* auth_oauth takes no part in the invariant. *)
LEMMA OAuthUpsertStep ==
    ASSUME IInv, NEW r \in Requests, OAuthUpsert(r)
    PROVE  IInv'
<1>0. TypeOK /\ loc[r] \in Local /\ RequestInv(r) /\ pc[r] # "done"
  BY DEF IInv, TypeOK, OAuthUpsert
<1>1. Grows /\ NoSession
  BY DEF IInv, TypeOK, OAuthUpsert, Grows, NoSession, identityVars, tokenVars
<1>2. IInv'
  <2> DEFINE l == loc[r]
  <2>1. /\ l \in Local /\ "contact" \in PC /\ Goto(r, "contact", l)
        /\ l.origin = loc[r].origin
        /\ l = loc[r] /\ l.user \in Users /\ l.pubkey = None
    BY <1>0 DEF IInv, TypeOK, RequestInv, OAuthUpsert, PC, WalletPC, OAuthPC, UserPC
  <2> HIDE DEF l
  <2>2. /\ pc' \in [Requests -> PC] /\ pc'[r] = "contact"
        /\ loc' \in [Requests -> Local] /\ loc'[r] = l
        /\ \A q \in Requests \ {r} : pc'[q] = pc[q] /\ loc'[q] = loc[q]
    BY <1>0, <2>1, GotoEffect
  <2>3. TypeOK'
    BY <1>0, <2>1, <2>2 DEF TypeOK, OAuthUpsert, identityVars, tokenVars, Local
  <2>4. RequestInv(r)'
    BY <1>0, <2>1, <2>2, SessionsAssumption DEF TypeOK, OAuthUpsert, RequestInv,
       Spent, Active, WalletPC, OAuthPC, UserPC, identityVars, tokenVars
  <2> QED
    BY <1>0, <1>1, <2>1, <2>2, <2>3, <2>4, RequestFrame DEF OAuthUpsert, Active
<1> QED
  BY <1>2

(* Neither does user_contacts; the callback now issues tokens. *)
LEMMA OAuthContactStep ==
    ASSUME IInv, NEW r \in Requests, OAuthContact(r)
    PROVE  IInv'
<1>0. TypeOK /\ loc[r] \in Local /\ RequestInv(r) /\ pc[r] # "done"
  BY DEF IInv, TypeOK, OAuthContact
<1>1. Grows /\ NoSession
  BY DEF IInv, TypeOK, OAuthContact, Grows, NoSession, identityVars, tokenVars
<1>2. IInv'
  <2> DEFINE l == loc[r]
  <2>1. /\ l \in Local /\ "issue" \in PC /\ Goto(r, "issue", l)
        /\ l.origin = loc[r].origin
        /\ l = loc[r] /\ l.user \in Users /\ l.pubkey = None
    BY <1>0 DEF IInv, TypeOK, RequestInv, OAuthContact, PC, WalletPC, OAuthPC, UserPC
  <2> HIDE DEF l
  <2>2. /\ pc' \in [Requests -> PC] /\ pc'[r] = "issue"
        /\ loc' \in [Requests -> Local] /\ loc'[r] = l
        /\ \A q \in Requests \ {r} : pc'[q] = pc[q] /\ loc'[q] = loc[q]
    BY <1>0, <2>1, GotoEffect
  <2>3. TypeOK'
    BY <1>0, <2>1, <2>2 DEF TypeOK, OAuthContact, identityVars, tokenVars, Local
  <2>4. RequestInv(r)'
    BY <1>0, <2>1, <2>2, SessionsAssumption DEF TypeOK, OAuthContact, RequestInv,
       Spent, Active, WalletPC, OAuthPC, UserPC, identityVars, tokenVars
  <2> QED
    BY <1>0, <1>1, <2>1, <2>2, <2>3, <2>4, RequestFrame DEF OAuthContact, Active
<1> QED
  BY <1>2

(* refresh picks a wallet of its user, or none. *)
LEMMA RefreshFindPubkeyStep ==
    ASSUME IInv, NEW r \in Requests, RefreshFindPubkey(r)
    PROVE  IInv'
<1>0. TypeOK /\ loc[r] \in Local /\ RequestInv(r) /\ pc[r] # "done"
  BY DEF IInv, TypeOK, RefreshFindPubkey
<1>1. Grows /\ NoSession
  BY DEF IInv, TypeOK, RefreshFindPubkey, Grows, NoSession, identityVars, tokenVars
<1>2. ASSUME NEW w \in Wallets \cup {None},
             w # None => wallet_of[w] = loc[r].user,
             Goto(r, "issue", [loc[r] EXCEPT !.pubkey = w])
      PROVE  IInv'
  <2> DEFINE l == [loc[r] EXCEPT !.pubkey = w]
  <2>1. /\ l \in Local /\ "issue" \in PC /\ Goto(r, "issue", l)
        /\ l.origin = loc[r].origin
        /\ l.user \in Users /\ l.user = loc[r].user /\ l.pubkey = w
    <3>1. loc[r].user \in Users
      BY <1>0 DEF RequestInv, RefreshFindPubkey, UserPC
    <3> QED
      BY <1>0, <1>2, <3>1, SetPubkey DEF PC
  <2> HIDE DEF l
  <2>2. /\ pc' \in [Requests -> PC] /\ pc'[r] = "issue"
        /\ loc' \in [Requests -> Local] /\ loc'[r] = l
        /\ \A q \in Requests \ {r} : pc'[q] = pc[q] /\ loc'[q] = loc[q]
    BY <1>0, <2>1, GotoEffect
  <2>3. TypeOK'
    BY <1>0, <1>2, <2>2 DEF TypeOK, RefreshFindPubkey, identityVars, tokenVars
  <2>4. RequestInv(r)'
    BY <1>0, <1>2, <2>1, <2>2, SessionsAssumption DEF TypeOK, RefreshFindPubkey,
       RequestInv, Spent, Active, WalletPC, OAuthPC, UserPC, identityVars, tokenVars
  <2> QED
    BY <1>0, <1>1, <2>1, <2>2, <2>3, <2>4, RequestFrame DEF RefreshFindPubkey, Active
<1> QED
  BY <1>2 DEF RefreshFindPubkey, WalletsOf

(* A request that ends early makes no session. *)
LEMMA RequestFailsStep ==
    ASSUME IInv, NEW r \in Requests, RequestFails(r)
    PROVE  IInv'
<1>0. TypeOK /\ loc[r] \in Local /\ RequestInv(r) /\ pc[r] # "done"
  BY DEF IInv, TypeOK, RequestFails
<1>1. Grows /\ NoSession
  BY DEF IInv, TypeOK, RequestFails, Grows, NoSession, identityVars, tokenVars
<1>2. CASE Return(r)
  <2>1. TypeOK'
    BY <1>0, <1>2, ReturnEffect DEF TypeOK, RequestFails, identityVars, tokenVars
  <2> QED
    BY <1>0, <1>1, <1>2, <2>1, ReturnEffect, RequestFrame
<1> QED
  BY <1>2 DEF RequestFails

(* The one step that makes a session.  What the request gave up is spent    *)
(* and claimed by nobody else, so the new row has an origin of its own.     *)
LEMMA IssueStep ==
    ASSUME IInv, NEW r \in Requests, NEW t \in Tokens, Issue(r, t)
    PROVE  IInv'
<1> DEFINE o == loc[r].origin
<1> DEFINE j == [user |-> loc[r].user, pubkey |-> loc[r].pubkey]
<1>0. /\ TypeOK /\ loc[r] \in Local /\ RequestInv(r) /\ pc[r] = "issue" /\ Active(r)
      /\ token[t] = "unused" /\ Return(r)
  BY DEF IInv, TypeOK, Issue, Active
<1>1. /\ pc' \in [Requests -> PC] /\ loc' \in [Requests -> Local]
      /\ \A q \in Requests \ {r} : pc'[q] = pc[q] /\ loc'[q] = loc[q]
      /\ ~Active(r)' /\ RequestInv(r)' /\ pc'[r] = "done"
  BY <1>0, ReturnEffect DEF Return, Goto, TypeOK
<1>2. loc[r].user \in Users /\ o \in Origins /\ j \in Claims
  <2>1. loc[r].user \in Users
    BY <1>0 DEF RequestInv, UserPC
  <2>2. o \in Origins
    BY <1>0, SessionsAssumption DEF RequestInv, Spent, Origins
  <2> QED
    BY <1>0, <2>1, <2>2 DEF Local, Claims
<1>3. /\ token' = [token EXCEPT ![t] = "live"]
      /\ token_user' = [token_user EXCEPT ![t] = loc[r].user]
      /\ origin' = [origin EXCEPT ![t] = o]
      /\ jwts' = jwts \cup {j}
      /\ wallet_of' = wallet_of /\ nonce' = nonce
  BY DEF Issue, identityVars
<1> HIDE DEF o, j
<1>4. TypeOK'
  BY <1>0, <1>1, <1>2, <1>3 DEF TypeOK, RowLife, Issue, identityVars
<1>5. Grows
  BY <1>0, <1>3 DEF Grows, TypeOK
<1>6. \A q \in Requests : RequestInv(q)'
  BY <1>1, <1>5, RequestKept
<1>7. \A x \in Tokens : origin'[x] = IF x = t THEN o ELSE origin[x]
  BY <1>0, <1>3 DEF TypeOK
<1>8. Spent(o, r) /\ (o \in Tokens => loc[r].user = token_user[o])
  BY <1>0 DEF RequestInv, o
<1>9. \A x \in Tokens : TokenInv(x)'
  <2> SUFFICES ASSUME NEW x \in Tokens PROVE TokenInv(x)'
    OBVIOUS
  <2>1. \A q \in Requests : pc[q] = "done" => pc'[q] = "done"
    BY <1>1
  <2>2. CASE x = t
    <3>1. origin'[x] = o /\ token'[x] = "live" /\ token_user'[x] = loc[r].user
      BY <1>0, <1>3, <2>2 DEF TypeOK
    <3>2. /\ o \in Nonces => nonce'[o] = "gone"
          /\ o \in Tokens => token'[o] = "gone"
          /\ o \in Requests => pc'[o] = "done"
      BY <1>1, <1>5, <1>8, SessionsAssumption DEF Spent, Grows
    <3> QED
      BY <1>2, <3>1, <3>2 DEF TokenInv
  <2>3. CASE x # t
    <3>1. /\ origin'[x] = origin[x] /\ token'[x] = token[x]
          /\ token_user'[x] = token_user[x] /\ TokenInv(x)
      BY <1>0, <1>3, <2>3 DEF TypeOK, IInv
    <3> QED
      BY <1>5, <2>1, <3>1 DEF TokenInv, Grows
  <2> QED
    BY <2>2, <2>3
<1>10. AccessTokensNameOwnWallet'
  <2>1. j.pubkey # None => wallet_of[j.pubkey] = j.user
    BY <1>0 DEF RequestInv, j
  <2> QED
    BY <1>3, <2>1 DEF IInv, AccessTokensNameOwnWallet
<1>11. Unclaimed(o, r)
  BY <1>0 DEF IInv, SessionsAreNotForked, Unclaimed, o
<1>12. SessionsAreNotForked'
  <2>1. \A q \in Requests : Active(q)' => q # r /\ Active(q) /\ loc'[q] = loc[q]
    BY <1>1 DEF Active
  <2>2. \A s, x \in Tokens : origin'[s] # None /\ origin'[s] = origin'[x] => s = x
    BY <1>7, <1>11 DEF IInv, SessionsAreNotForked, Unclaimed
  <2>3. ASSUME NEW q \in Requests, Active(q)'
        PROVE  /\ \A x \in Tokens : origin'[x] # loc'[q].origin
               /\ \A p \in Requests : Active(p)' /\ loc'[p].origin = loc'[q].origin => p = q
    BY <1>7, <1>11, <2>1, <2>3 DEF IInv, SessionsAreNotForked, Unclaimed
  <2>4. ASSUME NEW x \in Tokens, origin'[x] \in Tokens
        PROVE  token_user'[x] = token_user'[origin'[x]]
    <3>1. token[origin'[x]] = "gone"
      <4>1. CASE x = t
        BY <1>7, <1>8, <2>4, <4>1, SessionsAssumption DEF Spent
      <4>2. CASE x # t
        BY <1>7, <2>4, <4>2 DEF IInv, TokenInv
      <4> QED
        BY <4>1, <4>2
    <3>2. token_user'[origin'[x]] = token_user[origin'[x]]
      BY <1>5, <2>4, <3>1 DEF Grows
    <3>3. CASE x = t
      BY <1>0, <1>3, <1>7, <1>8, <2>4, <3>2, <3>3 DEF TypeOK
    <3>4. CASE x # t
      BY <1>0, <1>3, <1>7, <2>4, <3>2, <3>4 DEF TypeOK, IInv, SessionsAreNotForked
    <3> QED
      BY <3>3, <3>4
  <2> QED
    BY <2>2, <2>3, <2>4 DEF SessionsAreNotForked
<1> QED
  BY <1>4, <1>6, <1>9, <1>10, <1>12 DEF IInv

---------------------------------------------------------------------------
(* No row exists and no request is under way: nothing to show. *)
LEMMA InitInv == Init => IInv
<1> SUFFICES ASSUME Init PROVE IInv
  OBVIOUS
<1>1. TypeOK
  BY EmptyLocalTyped DEF Init, TypeOK, RowLife, Origins, PC
<1>2. \A r \in Requests : RequestInv(r) /\ ~Active(r)
  BY DEF Init, RequestInv, Active, WalletPC, OAuthPC, UserPC
<1>3. \A t \in Tokens : TokenInv(t) /\ origin[t] = None
  BY SessionsAssumption DEF Init, TokenInv
<1> QED
  BY <1>1, <1>2, <1>3, SessionsAssumption
     DEF IInv, SessionsAreNotForked, AccessTokensNameOwnWallet, Init

(* Every step is one of the above, or changes nothing. *)
LEMMA NextInv == IInv /\ [Next]_vars => IInv'
<1> SUFFICES ASSUME IInv, [Next]_vars PROVE IInv'
  OBVIOUS
<1>1. CASE UNCHANGED vars
  BY <1>1 DEF vars, identityVars, tokenVars, IInv, TypeOK, RequestInv, Spent, Active,
     TokenInv, SessionsAreNotForked, AccessTokensNameOwnWallet
<1>2. CASE RowStep
  BY <1>2, ChallengeStep, NonceAgesStep, LogoutStep, TokenAgesStep, UpdateContactsStep,
     KeeperCleansNoncesStep, KeeperCleansTokensStep DEF RowStep
<1>3. ASSUME NEW r \in Requests, WalletStep(r) PROVE IInv'
  BY <1>3, VerifyConsumeStep, LinkConsumeStep, FindWalletStep, CheckWalletStep,
     BindWalletStep DEF WalletStep
<1>4. ASSUME NEW r \in Requests, OAuthStep(r) PROVE IInv'
  BY <1>4, OAuthFindStep, OAuthConflictStep, OAuthSameProviderStep, OAuthUpsertStep,
     OAuthContactStep DEF OAuthStep
<1>5. ASSUME NEW r \in Requests, TokenStep(r) PROVE IInv'
  BY <1>5, RefreshConsumeStep, IssueStep, RefreshFindPubkeyStep DEF TokenStep
<1> QED
  BY <1>1, <1>2, <1>3, <1>4, <1>5, CreateAccountStep, RequestFailsStep DEF Next

(* Everything below is a part or a consequence of this. *)
THEOREM Invariance == Spec => []IInv
BY InitInv, NextInv, PTL DEF Spec

(* Every reachable state is well typed, whatever requests interleave. *)
THEOREM TypeCorrect == Spec => []TypeOK
<1>1. IInv => TypeOK
  BY DEF IInv
<1> QED
  BY <1>1, Invariance, PTL

(* verify, link_wallet and refresh consume their nonce or token in one      *)
(* DELETE ... RETURNING: however many requests present it at once, one      *)
(* session comes of it, for the user of the token it replaces.              *)
THEOREM NoForkedSessions == Spec => []SessionsAreNotForked
<1>1. IInv => SessionsAreNotForked
  BY DEF IInv
<1> QED
  BY <1>1, Invariance, PTL

(* Between the SELECT and the INSERT of verify or link_wallet another       *)
(* request may bind the wallet; still no access token names a wallet of     *)
(* somebody else, then or later.                                            *)
THEOREM OwnWallet == Spec => []AccessTokensNameOwnWallet
<1>1. IInv => AccessTokensNameOwnWallet
  BY DEF IInv
<1> QED
  BY <1>1, Invariance, PTL

(* The SELECT of verify and link_wallet may be out of date when the INSERT  *)
(* comes; the primary key then refuses it, so a wallet never changes hands  *)
(* and is never released.                                                   *)
THEOREM WalletStays == Spec => WalletStaysWithAccount
<1>1. IInv /\ [Next]_vars =>
          [\A w \in Wallets : wallet_of[w] # None => wallet_of'[w] = wallet_of[w]]_vars
  <2> SUFFICES ASSUME IInv, Next
               PROVE  \A w \in Wallets : wallet_of[w] # None => wallet_of'[w] = wallet_of[w]
    OBVIOUS
  <2>1. ASSUME NEW r \in Requests, BindWallet(r)
        PROVE  \A w \in Wallets : wallet_of[w] # None => wallet_of'[w] = wallet_of[w]
    BY <2>1 DEF IInv, TypeOK, BindWallet, WalletTaken, insert_wallet
  <2>2. (\E r \in Requests : BindWallet(r)) \/ UNCHANGED wallet_of
    <3>1. CASE RowStep
      BY <3>1 DEF RowStep, Challenge, NonceAges, logout, TokenAges, UpdateContacts,
         KeeperCleansNonces, KeeperCleansTokens, identityVars
    <3>2. ASSUME NEW r \in Requests, WalletStep(r)
          PROVE  BindWallet(r) \/ UNCHANGED wallet_of
      BY <3>2 DEF WalletStep, VerifyConsume, LinkConsume, FindWallet, CheckWallet,
         identityVars
    <3>3. ASSUME NEW r \in Requests, OAuthStep(r) PROVE UNCHANGED wallet_of
      BY <3>3 DEF OAuthStep, OAuthFind, OAuthConflict, OAuthSameProvider, OAuthUpsert,
         OAuthContact, identityVars
    <3>4. ASSUME NEW r \in Requests,
                 TokenStep(r) \/ RequestFails(r) \/ \E u \in Users : CreateAccount(r, u)
          PROVE  UNCHANGED wallet_of
      BY <3>4 DEF TokenStep, RefreshConsume, Issue, RefreshFindPubkey, RequestFails,
         CreateAccount, identityVars
    <3> QED
      BY <3>1, <3>2, <3>3, <3>4 DEF Next
  <2> QED
    BY <2>1, <2>2
<1> QED
  BY <1>1, Invariance, PTL DEF Spec, WalletStaysWithAccount
=============================================================================
