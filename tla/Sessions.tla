------------------------------ MODULE Sessions ------------------------------
(***************************************************************************)
(* Accounts and sessions: siws_nonces, user_accounts, auth_wallet,          *)
(* auth_oauth, user_contacts, refresh_tokens, and everything that writes    *)
(* them -                                                                   *)
(*                                                                         *)
(*   GET  /auth/challenge     challenge       handlers/auth.rs              *)
(*   POST /auth/verify        verify                                        *)
(*   POST /auth/link/wallet   link_wallet                                   *)
(*   GET  /auth/oauth/../callback   oauth_callback                          *)
(*   POST /auth/refresh       refresh                                       *)
(*   POST /auth/logout        logout                                        *)
(*   PUT, DELETE /user/contacts               handlers/user.rs              *)
(*   keeper scan 7                            workers/keeper.rs             *)
(*                                                                         *)
(* No handler uses a transaction: each is one action per statement.  A      *)
(* request that is refused before it wrote anything is no step.  Nonces and *)
(* refresh tokens are drawn from 2^122 and 2^256 values, so a fresh one is  *)
(* one never seen before.                                                   *)
(***************************************************************************)
CONSTANTS
    Users,      \* user_accounts.id
    Wallets,    \* base58 public keys
    Nonces,     \* siws_nonces.nonce
    Tokens,     \* refresh tokens (and, one to one, their hashes)
    Providers,  \* OAuth providers
    ProviderIds, \* a person at a provider: auth_oauth.provider_id
    Emails,     \* email addresses
    Requests,   \* sign-in requests, each handled once
    None        \* no row, SQL NULL, Rust None

ASSUME SessionsAssumption ==
    /\ None \notin Users \cup Wallets \cup Nonces \cup Tokens \cup Requests
    /\ Nonces \cap Tokens = {} /\ Nonces \cap Requests = {}
    /\ Tokens \cap Requests = {}

VARIABLES
    accounts,    \* rows of user_accounts
    wallet_of,   \* auth_wallet: pubkey (its primary key) -> user_id
    oauth,       \* auth_oauth: (provider, provider_id) -> user_id
    email,       \* user_contacts: user_id -> email_index
    nonce,       \* the life of each row of siws_nonces
    token,       \* the life of each row of refresh_tokens
    token_user,  \* refresh_tokens.user_id
    origin,      \* what was given up for the token: a nonce, a token, a callback
    jwts,        \* access tokens handed out
    pc,          \* where each request is
    loc          \* the local variables of each request

identityVars == <<accounts, wallet_of, oauth, email>>
tokenVars    == <<token, token_user, origin>>
vars == <<identityVars, nonce, tokenVars, jwts, pc, loc>>

---------------------------------------------------------------------------
(* Types.  A row is unused until it is inserted, live until it passes its   *)
(* age limit, stale until it is deleted.                                    *)

RowLife  == {"unused", "live", "stale", "gone"}
Origins  == Nonces \cup Tokens \cup Requests
Claims   == [user : Users, pubkey : Wallets \cup {None}]
WalletPC == {"find_wallet", "create_for_wallet", "check_wallet", "bind_wallet"}
OAuthPC  == {"conflict", "same_provider", "create_for_oauth", "upsert", "contact"}
PC       == {"idle", "find_pubkey", "issue", "done"} \cup WalletPC \cup OAuthPC

Local == [user     : Users \cup {None},
          pubkey   : Wallets \cup {None},
          provider : Providers \cup {None},
          provider_id : ProviderIds \cup {None},
          email    : Emails \cup {None},
          origin   : Origins \cup {None}]

EmptyLocal == [user |-> None, pubkey |-> None, provider |-> None,
               provider_id |-> None, email |-> None, origin |-> None]

TypeOK ==
    /\ accounts \subseteq Users
    /\ wallet_of \in [Wallets -> Users \cup {None}]
    /\ oauth \in [Providers -> [ProviderIds -> Users \cup {None}]]
    /\ email \in [Users -> Emails \cup {None}]
    /\ nonce \in [Nonces -> RowLife]
    /\ token \in [Tokens -> RowLife]
    /\ token_user \in [Tokens -> Users \cup {None}]
    /\ origin \in [Tokens -> Origins \cup {None}]
    /\ jwts \subseteq Claims
    /\ pc \in [Requests -> PC]
    /\ loc \in [Requests -> Local]

---------------------------------------------------------------------------
(* Plausible slips in the code below; nothing here is part of the           *)
(* specification.                                                           *)

Mutant_bind_swapped(u, w) == [wallet_of EXCEPT ![w] = w]
Mutant_consume_selects(t) == token
Mutant_WalletTaken_ignored(w) == FALSE

---------------------------------------------------------------------------
(* Helpers *)

(* DELETE ... RETURNING: one statement finds the row and removes it. *)
ConsumeNonce(n) == [nonce EXCEPT ![n] = "gone"]
ConsumeToken(t) == [token EXCEPT ![t] = "gone"]

(* INSERT INTO auth_wallet: fails when the primary key exists. *)
WalletTaken(w) == wallet_of[w] # None
insert_wallet(u, w) == [wallet_of EXCEPT ![w] = u]

WalletsOf(u) == {w \in Wallets : wallet_of[w] = u}

(* Accounts with this email that the provider has an identity of. *)
AccountsByEmail(e, p) ==
    {u \in Users : email[u] = e /\ \E i \in ProviderIds : oauth[p][i] = u}

Goto(r, label, l) == /\ pc' = [pc EXCEPT ![r] = label]
                     /\ loc' = [loc EXCEPT ![r] = l]
Return(r) == Goto(r, "done", EmptyLocal)

---------------------------------------------------------------------------
(* challenge *)
Challenge(n) ==
    /\ nonce[n] = "unused"
    /\ nonce' = [nonce EXCEPT ![n] = "live"]
    /\ UNCHANGED <<identityVars, tokenVars, jwts, pc, loc>>

(* verify: the nonce goes first, whatever the signature turns out to be (a  *)
(* bad one ends the request, as RequestFails).                              *)
VerifyConsume(r, n, w) ==
    /\ pc[r] = "idle"
    /\ nonce[n] = "live"
    /\ nonce' = ConsumeNonce(n)
    /\ Goto(r, "find_wallet", [loc[r] EXCEPT !.pubkey = w, !.origin = n])
    /\ UNCHANGED <<identityVars, tokenVars, jwts>>

FindWallet(r) ==
    LET w == loc[r].pubkey IN
    /\ pc[r] = "find_wallet"
    /\ \/ WalletTaken(w) /\ Goto(r, "issue", [loc[r] EXCEPT !.user = wallet_of[w]])
       \/ ~WalletTaken(w) /\ Goto(r, "create_for_wallet", loc[r])
    /\ UNCHANGED <<identityVars, nonce, tokenVars, jwts>>

(* INSERT INTO user_accounts, in verify and in the OAuth callback. *)
CreateAccount(r, u) ==
    /\ u \notin accounts
    /\ accounts' = accounts \cup {u}
    /\ \/ /\ pc[r] = "create_for_wallet"
          /\ Goto(r, "bind_wallet", [loc[r] EXCEPT !.user = u])
       \/ /\ pc[r] = "create_for_oauth"
          /\ Goto(r, "upsert", [loc[r] EXCEPT !.user = u])
    /\ UNCHANGED <<wallet_of, oauth, email, nonce, tokenVars, jwts>>

(* Another request may have bound the wallet since the SELECT. *)
BindWallet(r) ==
    LET w == loc[r].pubkey IN
    /\ pc[r] = "bind_wallet"
    /\ \/ /\ ~WalletTaken(w)
          /\ wallet_of' = insert_wallet(loc[r].user, w)
          /\ Goto(r, "issue", loc[r])
       \/ /\ WalletTaken(w)
          /\ UNCHANGED wallet_of
          /\ Return(r)
    /\ UNCHANGED <<accounts, oauth, email, nonce, tokenVars, jwts>>

(* link_wallet: what decides is the pubkey claim of the caller's JWT. *)
LinkConsume(r, n, w, j) ==
    /\ pc[r] = "idle"
    /\ j \in jwts /\ j.pubkey = None
    /\ nonce[n] = "live"
    /\ nonce' = ConsumeNonce(n)
    /\ Goto(r, "check_wallet", [loc[r] EXCEPT !.user = j.user, !.pubkey = w,
                                              !.origin = n])
    /\ UNCHANGED <<identityVars, tokenVars, jwts>>

CheckWallet(r) ==
    /\ pc[r] = "check_wallet"
    /\ \/ WalletTaken(loc[r].pubkey) /\ Return(r)
       \/ ~WalletTaken(loc[r].pubkey) /\ Goto(r, "bind_wallet", loc[r])
    /\ UNCHANGED <<identityVars, nonce, tokenVars, jwts>>

---------------------------------------------------------------------------
(* oauth_callback, after the provider has named the person. *)

OAuthFind(r, p, i, e) ==
    /\ pc[r] = "idle"
    /\ Goto(r, "conflict", [loc[r] EXCEPT !.user = oauth[p][i], !.provider = p,
                                          !.provider_id = i, !.email = e,
                                          !.origin = r])
    /\ UNCHANGED <<identityVars, nonce, tokenVars, jwts>>

OAuthConflict(r) ==
    LET l        == loc[r]
        conflict == \E p \in Providers \ {l.provider} :
                        AccountsByEmail(l.email, p) # {}
    IN
    /\ pc[r] = "conflict"
    /\ \/ conflict /\ Return(r)
       \/ ~conflict /\ l.user # None /\ Goto(r, "upsert", l)
       \/ ~conflict /\ l.user = None /\ Goto(r, "same_provider", l)
    /\ UNCHANGED <<identityVars, nonce, tokenVars, jwts>>

(* LIMIT 1: whichever row comes first. *)
OAuthSameProvider(r) ==
    LET found == AccountsByEmail(loc[r].email, loc[r].provider) IN
    /\ pc[r] = "same_provider"
    /\ \/ \E u \in found : Goto(r, "upsert", [loc[r] EXCEPT !.user = u])
       \/ found = {} /\ Goto(r, "create_for_oauth", loc[r])
    /\ UNCHANGED <<identityVars, nonce, tokenVars, jwts>>

OAuthUpsert(r) ==
    /\ pc[r] = "upsert"
    /\ oauth' = [oauth EXCEPT ![loc[r].provider][loc[r].provider_id] = loc[r].user]
    /\ Goto(r, "contact", loc[r])
    /\ UNCHANGED <<accounts, wallet_of, email, nonce, tokenVars, jwts>>

OAuthContact(r) ==
    /\ pc[r] = "contact"
    /\ email' = [email EXCEPT ![loc[r].user] = loc[r].email]
    /\ Goto(r, "issue", loc[r])
    /\ UNCHANGED <<accounts, wallet_of, oauth, nonce, tokenVars, jwts>>

---------------------------------------------------------------------------
(* refresh *)

RefreshConsume(r, t) ==
    /\ pc[r] = "idle"
    /\ token[t] = "live"
    /\ token' = ConsumeToken(t)
    /\ Goto(r, "find_pubkey", [loc[r] EXCEPT !.user = token_user[t], !.origin = t])
    /\ UNCHANGED <<identityVars, nonce, token_user, origin, jwts>>

(* Nothing keeps an account from having several wallets: any of them. *)
RefreshFindPubkey(r) ==
    LET found == WalletsOf(loc[r].user) IN
    /\ pc[r] = "find_pubkey"
    /\ \E w \in IF found = {} THEN {None} ELSE found :
           Goto(r, "issue", [loc[r] EXCEPT !.pubkey = w])
    /\ UNCHANGED <<identityVars, nonce, tokenVars, jwts>>

(* issue_access_token and issue_and_store_refresh_token, then the answer:   *)
(* the end of verify, link_wallet, oauth_callback and refresh.              *)
Issue(r, t) ==
    /\ pc[r] = "issue"
    /\ token[t] = "unused"
    /\ token' = [token EXCEPT ![t] = "live"]
    /\ token_user' = [token_user EXCEPT ![t] = loc[r].user]
    /\ origin' = [origin EXCEPT ![t] = loc[r].origin]
    /\ jwts' = jwts \cup {[user |-> loc[r].user, pubkey |-> loc[r].pubkey]}
    /\ Return(r)
    /\ UNCHANGED <<identityVars, nonce>>

logout(t) ==
    /\ token[t] \in {"live", "stale"}
    /\ token' = ConsumeToken(t)
    /\ UNCHANGED <<identityVars, nonce, token_user, origin, jwts, pc, loc>>

---------------------------------------------------------------------------
(* update_contacts with an email, and delete_contacts. *)
UpdateContacts(j, e) ==
    /\ j \in jwts
    /\ email' = [email EXCEPT ![j.user] = e]
    /\ UNCHANGED <<accounts, wallet_of, oauth, nonce, tokenVars, jwts, pc, loc>>

(* A statement fails, the signature is wrong, the client disconnects or the *)
(* server stops: nothing already written is undone.                         *)
RequestFails(r) ==
    /\ pc[r] \notin {"idle", "done"}
    /\ Return(r)
    /\ UNCHANGED <<identityVars, nonce, tokenVars, jwts>>

(* Five minutes, or seven days, pass for a row. *)
NonceAges(n) ==
    /\ nonce[n] = "live"
    /\ nonce' = [nonce EXCEPT ![n] = "stale"]
    /\ UNCHANGED <<identityVars, tokenVars, jwts, pc, loc>>

TokenAges(t) ==
    /\ token[t] = "live"
    /\ token' = [token EXCEPT ![t] = "stale"]
    /\ UNCHANGED <<identityVars, nonce, token_user, origin, jwts, pc, loc>>

(* cleanup_expired_auth_records: its two statements. *)
KeeperCleansNonces ==
    /\ \E n \in Nonces : nonce[n] = "stale"
    /\ nonce' = [n \in Nonces |-> IF nonce[n] = "stale" THEN "gone" ELSE nonce[n]]
    /\ UNCHANGED <<identityVars, tokenVars, jwts, pc, loc>>

KeeperCleansTokens ==
    /\ \E t \in Tokens : token[t] = "stale"
    /\ token' = [t \in Tokens |-> IF token[t] = "stale" THEN "gone" ELSE token[t]]
    /\ UNCHANGED <<identityVars, nonce, token_user, origin, jwts, pc, loc>>

---------------------------------------------------------------------------
Init ==
    /\ accounts = {}
    /\ wallet_of = [w \in Wallets |-> None]
    /\ oauth = [p \in Providers |-> [i \in ProviderIds |-> None]]
    /\ email = [u \in Users |-> None]
    /\ nonce = [n \in Nonces |-> "unused"]
    /\ token = [t \in Tokens |-> "unused"]
    /\ token_user = [t \in Tokens |-> None]
    /\ origin = [t \in Tokens |-> None]
    /\ jwts = {}
    /\ pc = [r \in Requests |-> "idle"]
    /\ loc = [r \in Requests |-> EmptyLocal]

WalletStep(r) ==
    \/ \E n \in Nonces, w \in Wallets : VerifyConsume(r, n, w)
    \/ \E n \in Nonces, w \in Wallets, j \in jwts : LinkConsume(r, n, w, j)
    \/ FindWallet(r)
    \/ CheckWallet(r)
    \/ BindWallet(r)

OAuthStep(r) ==
    \/ \E p \in Providers, i \in ProviderIds, e \in Emails : OAuthFind(r, p, i, e)
    \/ OAuthConflict(r)
    \/ OAuthSameProvider(r)
    \/ OAuthUpsert(r)
    \/ OAuthContact(r)

TokenStep(r) ==
    \/ \E t \in Tokens : RefreshConsume(r, t) \/ Issue(r, t)
    \/ RefreshFindPubkey(r)

RowStep ==
    \/ \E n \in Nonces : Challenge(n) \/ NonceAges(n)
    \/ \E t \in Tokens : logout(t) \/ TokenAges(t)
    \/ \E j \in jwts, e \in Emails \cup {None} : UpdateContacts(j, e)
    \/ KeeperCleansNonces
    \/ KeeperCleansTokens

Next ==
    \/ \E r \in Requests : \/ WalletStep(r) \/ OAuthStep(r) \/ TokenStep(r)
                           \/ \E u \in Users : CreateAccount(r, u)
                           \/ RequestFails(r)
    \/ RowStep

Spec == Init /\ [][Next]_vars

---------------------------------------------------------------------------
(* Properties *)

Active(r) == pc[r] \notin {"idle", "done"}

(* A nonce buys one sign-in and a refresh token one successor, however many *)
(* requests present it at the same time: no two sessions, and no session    *)
(* and a request still on its way to one, go back to the same thing; and a  *)
(* successor belongs to the user of the token it replaced.                  *)
SessionsAreNotForked ==
    /\ \A s, t \in Tokens : origin[s] # None /\ origin[s] = origin[t] => s = t
    /\ \A r \in Requests : Active(r) =>
           /\ \A t \in Tokens : origin[t] # loc[r].origin
           /\ \A q \in Requests : Active(q) /\ loc[q].origin = loc[r].origin => q = r
    /\ \A t \in Tokens : origin[t] \in Tokens => token_user[t] = token_user[origin[t]]

(* An access token speaks for a wallet only if that wallet belongs to its   *)
(* user: verify and link_wallet look the wallet up, create an account and   *)
(* insert the row in separate statements, and two of them may do so for the *)
(* same wallet at once.                                                     *)
AccessTokensNameOwnWallet ==
    \A j \in jwts : j.pubkey # None => wallet_of[j.pubkey] = j.user

(* A wallet never moves to another account, nor is it released. *)
WalletStaysWithAccount ==
    [][\A w \in Wallets : wallet_of[w] # None => wallet_of'[w] = wallet_of[w]]_vars
=============================================================================
