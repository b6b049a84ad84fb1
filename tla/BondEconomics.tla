---------------------------- MODULE BondEconomics ----------------------------
(***************************************************************************)
(* Owner bonds of the external_app_economics program, for one app: the     *)
(* vault of each mint, its withdrawal lock, and the disposition cases that *)
(* lock a part of the bond, release it, or forfeit and route it            *)
(* (programs/external-app-economics/src/lib.rs).                           *)
(*                                                                         *)
(* An instruction is one transaction: it happens as a whole or, when a     *)
(* requirement or the token transfer fails, not at all.  Owner, initiator  *)
(* and governance sign only what is theirs; in which order their           *)
(* transactions land is up to the cluster.                                 *)
(***************************************************************************)
EXTENDS Integers, FiniteSets

CONSTANTS
    Mints,          \* assets governance may configure
    Policies,       \* bond disposition policies, by policy_id
    Cases,          \* disposition cases, by case_id
    Receipts,       \* receipt_ids a routing may use
    None,           \* no mint, no policy
    LockSeconds,    \* config.withdrawal_lock_seconds
    MaxAmount,      \* bound: the largest amount of one call
    MaxDeposits,    \* bound: tokens ever deposited into a vault
    MaxTime         \* bound: the clock stops here

ASSUME BondAssumption ==
    /\ None \notin Mints \cup Policies
    /\ IsFiniteSet(Cases) /\ IsFiniteSet(Receipts)
    /\ LockSeconds \in Nat /\ MaxAmount \in Nat /\ MaxDeposits \in Nat /\ MaxTime \in Nat

VARIABLES
    now,            \* Clock::unix_timestamp
    config,         \* ExternalAppEconomicsConfig: asset_mint, asset_status, pause
    policy,         \* ExternalAppBondDispositionPolicy by policy_id
    vault,          \* ExternalAppBondVault by mint
    exposure,       \* ExternalAppBondExposureState by mint
    disposition,    \* ExternalAppBondDispositionCase by case_id
    receipts,       \* amount of the routing receipt by case_id and receipt_id; 0 is none
    accepted,       \* whether the initiator has a risk disclaimer receipt for dispositions
    \* history
    deposited, withdrawn,   \* tokens moved into and out of each vault by its owner
    depositedAt             \* when the owner last deposited

historyVars == <<deposited, withdrawn, depositedAt>>
vars == <<now, config, policy, vault, exposure, disposition, receipts, accepted,
          deposited, withdrawn, depositedAt>>

Amounts == 1 .. MaxAmount
Tokens == 0 .. MaxDeposits
NotRequested == 0

NoVault == [status |-> "none", bond |-> 0, requestedAt |-> NotRequested]
NoExposure == [known |-> FALSE, locked |-> 0, routed |-> 0, paused |-> FALSE]
NoPolicy == [mint |-> None, max |-> 0, paused |-> FALSE]
NoCase == [status |-> "none", mint |-> None, policy |-> None, requested |-> 0,
           locked |-> 0, routed |-> 0, ruled |-> FALSE]

SaturatingSub(a, b) == IF a >= b THEN a - b ELSE 0

ConfigRecord == [asset : Mints \cup {None}, active : BOOLEAN, paused : BOOLEAN]
PolicyRecord == [mint : Mints \cup {None}, max : Nat, paused : BOOLEAN]
VaultRecord == [status : {"none", "Open", "WithdrawalRequested", "Closed"},
                bond : Tokens, requestedAt : Nat]
ExposureRecord == [known : BOOLEAN, locked : Tokens, routed : Tokens, paused : BOOLEAN]
CaseRecord == [status : {"none", "Unlocked", "LockedForCase", "Released", "Forfeited",
                         "RoutedByPolicy"},
               mint : Mints \cup {None}, policy : Policies \cup {None},
               requested : Nat, locked : Nat, routed : Nat, ruled : BOOLEAN]

ConfigTypes == /\ now \in Nat \ {0} /\ accepted \in BOOLEAN
               /\ config \in ConfigRecord /\ policy \in [Policies -> PolicyRecord]
VaultTypes == /\ vault \in [Mints -> VaultRecord] /\ exposure \in [Mints -> ExposureRecord]
              /\ deposited \in [Mints -> Tokens] /\ withdrawn \in [Mints -> Tokens]
              /\ depositedAt \in [Mints -> Nat]
CaseTypes == /\ disposition \in [Cases -> CaseRecord]
             /\ receipts \in [Cases -> [Receipts -> Nat]]

(***************************************************************************)
(* Every account has its type; no vault, lock or total ever shows more     *)
(* tokens than the owner may have deposited.                               *)
(***************************************************************************)
TypeOK == ConfigTypes /\ VaultTypes /\ CaseTypes

Init ==
    /\ now = 1
    /\ config = [asset |-> None, active |-> FALSE, paused |-> TRUE]
    /\ policy = [p \in Policies |-> NoPolicy]
    /\ vault = [m \in Mints |-> NoVault]
    /\ exposure = [m \in Mints |-> NoExposure]
    /\ disposition = [c \in Cases |-> NoCase]
    /\ receipts = [c \in Cases |-> [r \in Receipts |-> 0]]
    /\ accepted = FALSE
    /\ deposited = [m \in Mints |-> 0] /\ withdrawn = [m \in Mints |-> 0]
    /\ depositedAt = [m \in Mints |-> 0]

-----------------------------------------------------------------------------
(* Clock and governance configuration. *)

Tick == /\ now < MaxTime /\ now' = now + 1
        /\ UNCHANGED <<config, policy, vault, exposure, disposition, receipts, accepted,
                       historyVars>>

\* asset_status is Active or TestOnly, or one of the three that are neither.
SetAssetAllowlist ==
    /\ \E m \in Mints, active \in BOOLEAN :
           config' = [config EXCEPT !.asset = m, !.active = active]
    /\ UNCHANGED <<now, policy, vault, exposure, disposition, receipts, accepted,
                   historyVars>>

PauseNewEconomicExposure ==
    /\ \E p \in BOOLEAN : config' = [config EXCEPT !.paused = p]
    /\ UNCHANGED <<now, policy, vault, exposure, disposition, receipts, accepted,
                   historyVars>>

SetBondDispositionPolicy ==
    /\ \E p \in Policies, max \in Amounts, paused \in BOOLEAN :
           policy' = [policy EXCEPT ![p] = [mint |-> config.asset, max |-> max,
                                            paused |-> paused]]
    /\ UNCHANGED <<now, config, vault, exposure, disposition, receipts, accepted,
                   historyVars>>

\* The first update creates the exposure state of the configured asset.
UpdateBondExposureState ==
    /\ config.asset \in Mints
    /\ exposure' = [exposure EXCEPT ![config.asset].known = TRUE]
    /\ UNCHANGED <<now, config, policy, vault, disposition, receipts, accepted,
                   historyVars>>

PauseNewBondExposure ==
    /\ config.asset \in Mints /\ exposure[config.asset].known
    /\ \E p \in BOOLEAN : exposure' = [exposure EXCEPT ![config.asset].paused = p]
    /\ UNCHANGED <<now, config, policy, vault, disposition, receipts, accepted,
                   historyVars>>

-----------------------------------------------------------------------------
(* The owner's vault. *)

OpenOwnerBondVault(m) ==
    /\ vault[m].status = "none"
    /\ config.active /\ config.asset = m
    /\ vault' = [vault EXCEPT ![m].status = "Open"]
    /\ UNCHANGED <<now, config, policy, exposure, disposition, receipts, accepted,
                   historyVars>>

\* Defect: a deposit leaves the request, whose lock may have run out.
RequestAfterDepositKept(m) == vault[m].requestedAt

\* A deposit takes a pending request back; its status stays.
RequestAfterDeposit(m) == NotRequested

DepositOwnerBond(m, a) ==
    /\ vault[m].status # "none"
    /\ config.active /\ ~config.paused /\ config.asset = m
    /\ deposited[m] + a <= MaxDeposits
    /\ vault' = [vault EXCEPT ![m].bond = @ + a, ![m].requestedAt = RequestAfterDeposit(m)]
    /\ deposited' = [deposited EXCEPT ![m] = @ + a]
    /\ depositedAt' = [depositedAt EXCEPT ![m] = now]
    /\ UNCHANGED <<now, config, policy, exposure, disposition, receipts, accepted, withdrawn>>

RequestOwnerBondWithdrawal(m) ==
    /\ vault[m].status # "none"
    /\ vault' = [vault EXCEPT ![m].requestedAt = now, ![m].status = "WithdrawalRequested"]
    /\ UNCHANGED <<now, config, policy, exposure, disposition, receipts, accepted,
                   historyVars>>

\* Defect: what cases hold counts as the owner's.
WithdrawableIgnoringLocks(m) == vault[m].bond

\* require_withdrawable_bond
Withdrawable(m) == vault[m].bond - exposure[m].locked

BondLess(m, a) == SaturatingSub(vault[m].bond, a)

\* A request stays in force until the vault is empty or a deposit takes it back.
ExecuteUnlockedOwnerBondWithdrawal(m, a) ==
    /\ config.asset = m
    /\ vault[m].requestedAt > 0 /\ now >= vault[m].requestedAt + LockSeconds
    /\ a <= vault[m].bond /\ a <= Withdrawable(m)
    /\ exposure' = [exposure EXCEPT ![m].known = TRUE]
    /\ vault' = [vault EXCEPT ![m] =
           [bond |-> BondLess(m, a),
            requestedAt |-> IF BondLess(m, a) = 0 THEN NotRequested ELSE @.requestedAt,
            status |-> IF BondLess(m, a) = 0 THEN "Closed" ELSE "Open"]]
    /\ withdrawn' = [withdrawn EXCEPT ![m] = @ + a]
    /\ UNCHANGED <<now, config, policy, disposition, receipts, accepted, deposited,
                   depositedAt>>

-----------------------------------------------------------------------------
(* Disposition cases. *)

RecordRiskDisclaimerAcceptance ==
    /\ accepted' = TRUE
    /\ UNCHANGED <<now, config, policy, vault, exposure, disposition, receipts,
                   historyVars>>

\* require_active_asset, require_bond_policy_active and the mints that have to agree.
PolicyApplies(p, m) ==
    /\ config.active
    /\ policy[p].max > 0 /\ ~policy[p].paused
    /\ policy[p].mint = config.asset /\ config.asset = m

OpenBondDispositionCase(c, p, m, requested) ==
    /\ disposition[c].status = "none" /\ vault[m].status # "none"
    /\ accepted
    /\ PolicyApplies(p, m) /\ requested <= policy[p].max
    /\ disposition' = [disposition EXCEPT ![c] =
           [status |-> "Unlocked", mint |-> m, policy |-> p, requested |-> requested,
            locked |-> 0, routed |-> 0, ruled |-> FALSE]]
    /\ UNCHANGED <<now, config, policy, vault, exposure, receipts, accepted, historyVars>>

\* Evidence and ruling may be recorded, again too, at any time of the case.
RecordBondDispositionEvidence(c) ==
    /\ disposition[c].status # "none"
    /\ disposition' = [disposition EXCEPT ![c].ruled = TRUE]
    /\ UNCHANGED <<now, config, policy, vault, exposure, receipts, accepted, historyVars>>

\* At most what was asked for, and what the policy allows by now.
Lockable(c, a) ==
    a <= disposition[c].requested /\ a <= policy[disposition[c].policy].max

\* Defect: a case only looks at itself.
CoveredAlone(m, a) == a <= vault[m].bond

\* The bond covers every case at once.
Covered(m, a) == a <= vault[m].bond /\ exposure[m].locked + a <= vault[m].bond

LockBondForCase(c, a) ==
    LET m == disposition[c].mint IN
    /\ disposition[c].status = "Unlocked"
    /\ PolicyApplies(disposition[c].policy, m)
    /\ ~exposure[m].paused
    /\ Lockable(c, a) /\ Covered(m, a)
    /\ disposition' = [disposition EXCEPT ![c].locked = a, ![c].status = "LockedForCase"]
    /\ exposure' = [exposure EXCEPT ![m].known = TRUE, ![m].locked = @ + a]
    /\ UNCHANGED <<now, config, policy, vault, receipts, accepted, historyVars>>

\* A ruling on a case whose bond is locked.
Decidable(c) == disposition[c].status = "LockedForCase" /\ disposition[c].ruled

\* The exposure account of a release is that of the case's mint.
ReleasedMint(c) == disposition[c].mint

ExecuteBondRelease(c) ==
    LET m == ReleasedMint(c) IN
    /\ Decidable(c)
    /\ exposure' = [exposure EXCEPT ![m].locked = SaturatingSub(@, disposition[c].locked)]
    /\ disposition' = [disposition EXCEPT ![c].locked = 0, ![c].status = "Released"]
    /\ UNCHANGED <<now, config, policy, vault, receipts, accepted, historyVars>>

ExecuteBondForfeiture(c) ==
    /\ Decidable(c)
    /\ disposition' = [disposition EXCEPT ![c].status = "Forfeited"]
    /\ UNCHANGED <<now, config, policy, vault, exposure, receipts, accepted, historyVars>>

\* Anchor's init: the receipt account of this case and receipt_id does not exist yet.
ReceiptIsNew(c, r) == receipts[c][r] = 0

LockedAfterRouting(m, a) == SaturatingSub(exposure[m].locked, a)

\* What was forfeited is routed in one or several payments.
RouteForfeitedBondByPolicy(c, r, a) ==
    LET m == disposition[c].mint
        left == SaturatingSub(disposition[c].locked, a)
    IN
    /\ disposition[c].status = "Forfeited"
    /\ a <= disposition[c].locked /\ a <= vault[m].bond
    /\ config.asset = m
    /\ ReceiptIsNew(c, r)
    /\ receipts' = [receipts EXCEPT ![c][r] = a]
    /\ vault' = [vault EXCEPT ![m].bond = BondLess(m, a)]
    /\ disposition' = [disposition EXCEPT
           ![c].locked = left, ![c].routed = @ + a,
           ![c].status = IF left = 0 THEN "RoutedByPolicy" ELSE @]
    /\ exposure' = [exposure EXCEPT ![m].locked = LockedAfterRouting(m, a),
                                    ![m].routed = @ + a]
    /\ UNCHANGED <<now, config, policy, accepted, historyVars>>

-----------------------------------------------------------------------------
Governance ==
    \/ SetAssetAllowlist \/ PauseNewEconomicExposure \/ SetBondDispositionPolicy
    \/ UpdateBondExposureState \/ PauseNewBondExposure

Owner ==
    \E m \in Mints :
        \/ OpenOwnerBondVault(m) \/ RequestOwnerBondWithdrawal(m)
        \/ \E a \in Amounts : \/ DepositOwnerBond(m, a)
                              \/ ExecuteUnlockedOwnerBondWithdrawal(m, a)

Disposition ==
    \/ RecordRiskDisclaimerAcceptance
    \/ \E c \in Cases :
        \/ RecordBondDispositionEvidence(c)
        \/ ExecuteBondRelease(c) \/ ExecuteBondForfeiture(c)
        \/ \E a \in Amounts :
            \/ LockBondForCase(c, a)
            \/ \E p \in Policies, m \in Mints : OpenBondDispositionCase(c, p, m, a)
            \/ \E r \in Receipts : RouteForfeitedBondByPolicy(c, r, a)

Next == Tick \/ Governance \/ Owner \/ Disposition

Spec == Init /\ [][Next]_vars

-----------------------------------------------------------------------------
(* Properties. *)

\* The tokens an account counts, one by one: token k of x for every k up to f[x].
Units(f) == UNION {{<<x, k>> : k \in 1 .. f[x]} : x \in DOMAIN f}

LockedOn(m) == [c \in Cases |-> IF disposition[c].mint = m THEN disposition[c].locked ELSE 0]

(***************************************************************************)
(* The exposure state is updated next to the cases and never recomputed:   *)
(* active_locked_amount is what the cases of the mint hold together.       *)
(***************************************************************************)
LockedIsSum == \A m \in Mints : exposure[m].locked = Cardinality(Units(LockedOn(m)))

(***************************************************************************)
(* What cases hold, all together, is in the vault, however the owner's     *)
(* withdrawals and governance's locks and payments interleave.             *)
(***************************************************************************)
LockedIsCovered == \A m \in Mints : exposure[m].locked <= vault[m].bond

(***************************************************************************)
(* No token is created or lost: what the owner put in is in the vault, was *)
(* withdrawn, or was routed.                                               *)
(***************************************************************************)
Conserved ==
    \A m \in Mints : deposited[m] = vault[m].bond + withdrawn[m] + exposure[m].routed

(***************************************************************************)
(* A case never holds or pays more than it asked for when it was opened,   *)
(* whatever became of the policy since.                                    *)
(***************************************************************************)
WithinRequest ==
    \A c \in Cases : disposition[c].locked + disposition[c].routed <= disposition[c].requested

(***************************************************************************)
(* Every routed token is on a receipt: a repeated instruction cannot pay   *)
(* twice under one receipt_id.                                             *)
(***************************************************************************)
RoutedIsReceipted ==
    \A c \in Cases : disposition[c].routed = Cardinality(Units(receipts[c]))

(***************************************************************************)
(* The books balance: totals, tokens, requests and receipts agree, in      *)
(* every order of the instructions of owner, governance and cases.         *)
(***************************************************************************)
BooksBalance ==
    LockedIsSum /\ LockedIsCovered /\ Conserved /\ WithinRequest /\ RoutedIsReceipted

(***************************************************************************)
(* A case is decided once and only after a ruling; a released or routed    *)
(* case is over.                                                           *)
(***************************************************************************)
Forward(c) ==
    LET old == disposition[c]
        new == disposition'[c]
    IN \/ old.status = new.status
       \/ old.status = "none" /\ new.status = "Unlocked"
       \/ old.status = "Unlocked" /\ new.status = "LockedForCase"
       \/ /\ old.status = "LockedForCase" /\ old.ruled
          /\ new.status \in {"Released", "Forfeited"}
       \/ old.status = "Forfeited" /\ new.status = "RoutedByPolicy" /\ new.routed > 0

CasesMoveForward == [][\A c \in Cases : Forward(c)]_vars

(***************************************************************************)
(* The withdrawal lock covers fresh money: nothing is withdrawn before the *)
(* lock has run since the owner's last deposit.                            *)
(***************************************************************************)
DepositsAreLockedIn ==
    [][\A m \in Mints : withdrawn'[m] > withdrawn[m] => now >= depositedAt[m] + LockSeconds]_vars

(***************************************************************************)
(* The program implements the escrow: withdrawals only take what no case   *)
(* holds, and a case returns or pays exactly what it took.                 *)
(***************************************************************************)
StageOf(status) ==
    CASE status = "none" -> "none" [] status = "Unlocked" -> "open"
      [] status = "LockedForCase" -> "held" [] status = "Released" -> "returned"
      [] status = "Forfeited" -> "condemned" [] OTHER -> "paid"

Free == [m \in Mints |-> vault[m].bond - exposure[m].locked]
Held == [c \in Cases |-> disposition[c].locked]
Paid == [m \in Mints |-> exposure[m].routed]
Stage == [c \in Cases |-> StageOf(disposition[c].status)]
Pot == [c \in Cases |-> disposition[c].mint]

Escrow == INSTANCE BondEscrow WITH Pots <- Mints, Claims <- Cases, NoPot <- None,
              free <- Free, held <- Held, paid <- Paid, stage <- Stage, pot <- Pot

ImplementsEscrow == Escrow!Spec
=============================================================================
