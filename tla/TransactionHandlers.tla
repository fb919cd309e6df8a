------------------------ MODULE TransactionHandlers ------------------------
(***************************************************************************)
(* The endpoints that answer with a transaction for the client to sign and  *)
(* send (handlers/agreement.rs, services/solana.rs), and the expiry         *)
(* worker's, which the server sends itself.  A handler reads the agreement  *)
(* account, checks it, and builds the transaction; whatever happens on      *)
(* chain between the read and the landing is not seen by it.  A transaction *)
(* may be sent late, until its blockhash is too old, or not at all.         *)
(*                                                                         *)
(* The on-chain program is not in the repository: Executes is how the code  *)
(* here uses it, and no stricter.  Anybody may also call it without this    *)
(* service (DirectCreate), with a funder and an agreement id of his choice. *)
(***************************************************************************)
EXTENDS Naturals, FiniteSets

CONSTANTS
    Wallets,    \* wallets of users
    Vault,      \* vault_keypair of the server
    Ids,        \* agreement_id
    NoId,       \* sixteen bytes that no agreement has as its agreement_id
    PartySets,  \* the sets of parties an agreement may have
    Txs         \* transactions clients hold at a time

ASSUME VaultAssumption == Vault \notin Wallets
ASSUME PartiesAssumption ==
    /\ PartySets \subseteq (SUBSET Wallets) \ {{}}
    /\ \A parties \in PartySets : IsFiniteSet(parties)

Keys == Wallets \cup {Vault}

VARIABLES
    account,  \* the agreement account at each address
    tx        \* transactions that may still land

txVars == <<account, tx>>

---------------------------------------------------------------------------
(* Types *)

(* derive_agreement_pda: the address, a hash of the seeds. *)
derive_agreement_pda(creator, id) == [creator |-> creator, agreement_id |-> id]
Pdas == [creator : Wallets, agreement_id : Ids]
Addresses == [creator : Wallets, agreement_id : Ids \cup {NoId}]

(* The account is an 8-byte discriminator, the creator (32 bytes) and the   *)
(* agreement_id (16 bytes).  What sixteen bytes from a first one on may be: *)
(* from another place they run over the creator and a part of the id, and a *)
(* client that chooses its ids can make them the id of any agreement.       *)
AgreementIdFirst == 8 + 32
agreement_id_at(pda, first) ==
    IF first = AgreementIdFirst THEN {pda.agreement_id} ELSE Ids \cup {NoId}

(* No handler looks at the status, and nothing the code here knows of makes *)
(* a "Draft".                                                               *)
AgreementStatus ==
    {"absent", "Draft", "PendingSignatures", "Completed", "Cancelled", "Expired", "Revoked"}

AgreementState ==
    [status : AgreementStatus, parties : SUBSET Wallets, signed_by : SUBSET Wallets,
     nft_asset : BOOLEAN, vault_funder : Keys, revoke_votes : SUBSET Wallets]

Absent == [status |-> "absent", parties |-> {}, signed_by |-> {}, nft_asset |-> FALSE,
           vault_funder |-> Vault, revoke_votes |-> {}]

Instruction == {"create", "sign", "cancel", "vote_revoke", "retract_revoke_vote", "expire"}

(* A transaction: its instruction and the agreement account it acts on, the *)
(* argument, who has to sign and who has; and, for the properties, who      *)
(* asked for which agreement and the signatures the handler saw.            *)
Transaction ==
    [ix : Instruction, agreement : Addresses, parties : SUBSET Wallets, metadata_uri : BOOLEAN,
     needs : SUBSET Keys, signed : SUBSET Keys,
     by : Keys, asked : Pdas, seen : SUBSET Wallets]

NoTx == [ix |-> "none"]

TxTypeOK ==
    /\ account \in [Pdas -> AgreementState]
    /\ tx \in [Txs -> Transaction \cup {NoTx}]

---------------------------------------------------------------------------
(* Plausible slips in the code below; nothing here is part of the           *)
(* specification.                                                           *)
Mutant_is_final_at_last(parties_len, signed_by_len, signer_already_signed) ==
    parties_len = signed_by_len /\ ~signer_already_signed
Mutant_pda_of_signer(pda, signer) == derive_agreement_pda(signer, pda.agreement_id)
Mutant_expire_as_vault(pda, agreement_id) ==
    [ix |-> "expire", agreement |-> derive_agreement_pda(Vault, agreement_id), parties |-> {},
     metadata_uri |-> FALSE, needs |-> {Vault}, signed |-> {Vault},
     by |-> Vault, asked |-> pda, seen |-> {}]

---------------------------------------------------------------------------
(* The checks *)

is_final_signature(parties_len, signed_by_len, signer_already_signed) ==
    parties_len = signed_by_len + 1 /\ ~signer_already_signed

(* The handlers derive the address again from the creator and the id they   *)
(* read in the account.                                                     *)
agreement_of(pda, signer) == derive_agreement_pda(pda.creator, pda.agreement_id)

---------------------------------------------------------------------------
(* services/solana.rs *)

Answer(t, built) == tx[t] = NoTx /\ tx' = [tx EXCEPT ![t] = built] /\ UNCHANGED account

(* build_create_agreement_tx *)
build_create_agreement_tx(pda, parties) ==
    [ix |-> "create", agreement |-> pda, parties |-> parties, metadata_uri |-> FALSE,
     needs |-> {Vault, pda.creator}, signed |-> {Vault},
     by |-> pda.creator, asked |-> pda, seen |-> {}]

(* build_sign_agreement_tx: the funder of the agreement has to sign, the    *)
(* server does not.                                                         *)
build_sign_agreement_tx(pda, signer, metadata_uri) ==
    [ix |-> "sign", agreement |-> agreement_of(pda, signer), parties |-> {},
     metadata_uri |-> metadata_uri,
     needs |-> {account[pda].vault_funder, signer}, signed |-> {},
     by |-> signer, asked |-> pda, seen |-> account[pda].signed_by]

(* The builders whose transaction has no argument and is signed by the      *)
(* vault: cancel, vote and retract; the vault alone for expire.             *)
build_vault_signed_tx(ix, pda, by, acts_on) ==
    [ix |-> ix, agreement |-> acts_on, parties |-> {}, metadata_uri |-> FALSE,
     needs |-> {Vault, by}, signed |-> {Vault},
     by |-> by, asked |-> pda, seen |-> {}]

build_cancel_agreement_tx(pda, canceller) ==
    build_vault_signed_tx("cancel", pda, canceller, agreement_of(pda, canceller))

build_vote_revoke_tx(pda, voter) ==
    build_vault_signed_tx("vote_revoke", pda, voter, agreement_of(pda, voter))

(* "let creator = voter; // Placeholder" *)
build_retract_revoke_vote_tx(pda, voter) ==
    build_vault_signed_tx("retract_revoke_vote", pda, voter,
                          derive_agreement_pda(voter, pda.agreement_id))

build_expire_agreement_tx(pda, agreement_id) ==
    build_vault_signed_tx("expire", pda, Vault, derive_agreement_pda(pda.creator, agreement_id))

---------------------------------------------------------------------------
(* The handlers; a check that fails is an error and changes nothing. *)

Exists(pda) == account[pda].status # "absent"

(* create_agreement and submit_draft, with a fresh random id. *)
CreateAgreement(t, pda, parties) ==
    /\ \A other \in Wallets : account[[pda EXCEPT !.creator = other]].status = "absent"
    /\ \A u \in Txs : tx[u] # NoTx => tx[u].agreement.agreement_id # pda.agreement_id
    /\ Answer(t, build_create_agreement_tx(pda, parties))

SignAgreement(t, pda, signer, metadata_uri) ==
    LET a == account[pda] IN
    /\ Exists(pda)
    /\ signer \in a.parties
    /\ is_final_signature(Cardinality(a.parties), Cardinality(a.signed_by),
                          signer \in a.signed_by) => metadata_uri
    /\ Answer(t, build_sign_agreement_tx(pda, signer, metadata_uri))

CancelAgreement(t, pda, canceller) ==
    /\ Exists(pda)
    /\ canceller = pda.creator
    /\ Answer(t, build_cancel_agreement_tx(pda, canceller))

VoteRevoke(t, pda, voter) ==
    /\ Exists(pda)
    /\ voter \in account[pda].parties
    /\ account[pda].nft_asset
    /\ Answer(t, build_vote_revoke_tx(pda, voter))

RetractRevokeVote(t, pda, voter) ==
    /\ Exists(pda)
    /\ voter \in account[pda].parties
    /\ Answer(t, build_retract_revoke_vote_tx(pda, voter))

(* submit_expire_transaction of the expiry worker, for an agreement of the  *)
(* index: data[32..48], counted from the discriminator.                     *)
SubmitExpire(t, pda) ==
    /\ Exists(pda)
    /\ \E id \in agreement_id_at(pda, 32) : Answer(t, build_expire_agreement_tx(pda, id))

---------------------------------------------------------------------------
(* The clients and the network *)

(* Whoever holds the transaction, or is asked by its holder, signs it. *)
ClientSigns(t, w) ==
    /\ tx[t] # NoTx /\ w \in tx[t].needs \ tx[t].signed
    /\ tx' = [tx EXCEPT ![t].signed = @ \cup {w}]
    /\ UNCHANGED account

(* What the program does with the instruction. *)
Executes(x, a) ==
    CASE x.ix = "create" /\ a.status = "absent" ->
           [Absent EXCEPT !.status = "PendingSignatures", !.parties = x.parties]
      [] x.ix = "sign" /\ a.status = "PendingSignatures" /\ x.by \in a.parties \ a.signed_by ->
           IF a.signed_by \cup {x.by} = a.parties
           THEN [a EXCEPT !.signed_by = @ \cup {x.by}, !.status = "Completed",
                          !.nft_asset = x.metadata_uri]
           ELSE [a EXCEPT !.signed_by = @ \cup {x.by}]
      [] x.ix = "cancel" /\ a.status = "PendingSignatures" -> [a EXCEPT !.status = "Cancelled"]
      [] x.ix = "expire" /\ a.status = "PendingSignatures" -> [a EXCEPT !.status = "Expired"]
      [] x.ix = "vote_revoke" /\ a.status = "Completed" /\ x.by \in a.parties ->
           IF a.revoke_votes \cup {x.by} = a.parties
           THEN [a EXCEPT !.revoke_votes = a.parties, !.status = "Revoked"]
           ELSE [a EXCEPT !.revoke_votes = @ \cup {x.by}]
      [] x.ix = "retract_revoke_vote" /\ a.status = "Completed" ->
           [a EXCEPT !.revoke_votes = @ \ {x.by}]
      [] OTHER -> a

(* At an address that is no agreement's, it is refused. *)
Lands(t) ==
    LET x == tx[t] IN
    /\ x # NoTx /\ x.needs \subseteq x.signed
    /\ account' = IF x.agreement \in Pdas
                  THEN [account EXCEPT ![x.agreement] = Executes(x, @)] ELSE account
    /\ tx' = [tx EXCEPT ![t] = NoTx]

(* It is never sent, or its blockhash is too old. *)
IsForgotten(t) ==
    /\ tx[t] # NoTx
    /\ tx' = [tx EXCEPT ![t] = NoTx]
    /\ UNCHANGED account

(* An agreement made without this service. *)
DirectCreate(pda, parties, vault_funder) ==
    /\ account[pda].status = "absent"
    /\ account' = [account EXCEPT ![pda] =
           [Absent EXCEPT !.status = "PendingSignatures", !.parties = parties,
                          !.vault_funder = vault_funder]]
    /\ UNCHANGED tx

---------------------------------------------------------------------------
TxInit ==
    /\ account = [pda \in Pdas |-> Absent]
    /\ tx = [t \in Txs |-> NoTx]

HandlerStep(t, pda) ==
    \/ \E parties \in PartySets : CreateAgreement(t, pda, parties)
    \/ \E w \in Wallets, metadata_uri \in BOOLEAN : SignAgreement(t, pda, w, metadata_uri)
    \/ \E w \in Wallets :
           CancelAgreement(t, pda, w) \/ VoteRevoke(t, pda, w) \/ RetractRevokeVote(t, pda, w)
    \/ SubmitExpire(t, pda)

TxNext ==
    \/ \E t \in Txs, pda \in Pdas : HandlerStep(t, pda)
    \/ \E t \in Txs : Lands(t) \/ IsForgotten(t) \/ \E w \in Wallets : ClientSigns(t, w)
    \/ \E pda \in Pdas, parties \in PartySets, f \in Wallets :
           DirectCreate(pda, parties, f)

TxSpec == TxInit /\ [][TxNext]_txVars

---------------------------------------------------------------------------
(* Properties *)

(* The credential of a completed agreement is missing only where the chain  *)
(* moved on: the final signature came without a metadata_uri, because its   *)
(* handler saw fewer signatures than had landed when it landed itself.      *)
CredentialMissingOnlyIfStale ==
    [][\A pda \in Pdas :
           /\ account[pda].status = "PendingSignatures"
           /\ account'[pda].status = "Completed" /\ ~account'[pda].nft_asset
           => \E t \in Txs : /\ tx[t] # NoTx /\ tx'[t] = NoTx
                             /\ tx[t].seen # account[pda].signed_by]_txVars

(* What lands never speaks for somebody who did not sign it, and it acts on *)
(* the agreement that its request named, also when two creators use one id  *)
(* and others land in between.  The second claim is not made for the two    *)
(* builders that derive another address: build_retract_revoke_vote_tx, from *)
(* the voter in the creator's place, and build_expire_agreement_tx, from an *)
(* id that the expiry worker reads eight bytes too early.                   *)
LandsOnNamedAgreement ==
    [][\A t \in Txs, pda \in Pdas :
           /\ tx[t] # NoTx /\ tx'[t] = NoTx /\ account'[pda] # account[pda]
           => /\ tx[t].by \in tx[t].signed
              /\ tx[t].ix \notin {"retract_revoke_vote", "expire"} =>
                     pda = tx[t].asked]_txVars
=============================================================================
