----------------------------- MODULE BondProofs -----------------------------
(***************************************************************************)
(* What holds of owner bonds for any number of mints, policies, cases and  *)
(* receipts, any amounts and any lock time.                                *)
(*                                                                         *)
(* BondInv is the base: the types, the conservation of tokens, the cover   *)
(* of what is locked, and what a case's status says of its amounts; its    *)
(* parts need one another.  The ledger invariants compare a counter with   *)
(* a set of units; UnitsChange says how such a set grows when one of its   *)
(* columns does.                                                           *)
(***************************************************************************)
EXTENDS BondEconomics, FiniteSetTheorems, TLAPS

\* What the status of a case says of the rest of it.
CaseShape ==
    \A c \in Cases :
        /\ disposition[c].status # "none" =>
               disposition[c].mint \in Mints /\ disposition[c].policy \in Policies
        /\ disposition[c].status \notin {"LockedForCase", "Forfeited"} =>
               disposition[c].locked = 0
        /\ disposition[c].status \notin {"Forfeited", "RoutedByPolicy"} =>
               disposition[c].routed = 0

\* The base of every proof below.
BondInv == TypeOK /\ Conserved /\ LockedIsCovered /\ CaseShape

-----------------------------------------------------------------------------
\* The model starts in a state of the base invariant.
LEMMA InitBondInv == Init => BondInv
<1> SUFFICES ASSUME Init PROVE BondInv
  OBVIOUS
<1>1. ConfigTypes
  <2>1. NoPolicy \in PolicyRecord
    BY DEF NoPolicy, PolicyRecord
  <2>2. [asset |-> None, active |-> FALSE, paused |-> TRUE] \in ConfigRecord
    BY DEF ConfigRecord
  <2>3. policy \in [Policies -> PolicyRecord]
    BY <2>1 DEF Init
  <2>4. now \in Nat \ {0}
    BY DEF Init
  <2>5. accepted \in BOOLEAN
    BY DEF Init
  <2> QED BY <2>2, <2>3, <2>4, <2>5 DEF Init, ConfigTypes
<1>2. VaultTypes
  BY BondAssumption
  DEF Init, VaultTypes, VaultRecord, ExposureRecord, NoVault, NoExposure, NotRequested, Tokens
<1>3. CaseTypes
  BY DEF Init, CaseTypes, CaseRecord, NoCase
<1>4. Conserved /\ LockedIsCovered
  BY DEF Init, Conserved, LockedIsCovered, NoVault, NoExposure
<1>5. CaseShape
  BY DEF Init, CaseShape, NoCase
<1> QED BY <1>1, <1>2, <1>3, <1>4, <1>5 DEF BondInv, TypeOK

\* Instructions that write no vault, no case, and no amount of the exposure state.
LEMMA ConfigStep ==
    ASSUME BondInv,
           \/ Tick \/ Governance \/ RecordRiskDisclaimerAcceptance \/ UNCHANGED vars
    PROVE  BondInv' /\ UNCHANGED <<disposition, receipts, historyVars>>
                    /\ \A m \in Mints : /\ vault'[m] = vault[m]
                                        /\ exposure'[m].locked = exposure[m].locked
                                        /\ exposure'[m].routed = exposure[m].routed
<1>1. UNCHANGED <<vault, disposition, receipts, historyVars>>
  BY DEF Tick, Governance, SetAssetAllowlist, PauseNewEconomicExposure,
     SetBondDispositionPolicy, UpdateBondExposureState, PauseNewBondExposure,
     RecordRiskDisclaimerAcceptance, vars, historyVars
<1>2. ConfigTypes'
  <2> USE DEF BondInv, TypeOK, ConfigTypes
  <2>1. CASE Tick
    BY <2>1 DEF Tick
  <2>2. CASE SetAssetAllowlist
    BY <2>2 DEF SetAssetAllowlist, ConfigRecord
  <2>3. CASE PauseNewEconomicExposure
    BY <2>3 DEF PauseNewEconomicExposure, ConfigRecord
  <2>4. CASE SetBondDispositionPolicy
    BY <2>4 DEF SetBondDispositionPolicy, ConfigRecord, PolicyRecord, Amounts
  <2>5. CASE UpdateBondExposureState \/ PauseNewBondExposure
             \/ RecordRiskDisclaimerAcceptance \/ UNCHANGED vars
    BY <2>5 DEF UpdateBondExposureState, PauseNewBondExposure,
       RecordRiskDisclaimerAcceptance, vars
  <2> QED BY <2>1, <2>2, <2>3, <2>4, <2>5 DEF Governance
<1>3. /\ exposure' \in [Mints -> ExposureRecord]
      /\ \A m \in Mints : /\ exposure'[m].locked = exposure[m].locked
                          /\ exposure'[m].routed = exposure[m].routed
  <2>1. exposure \in [Mints -> ExposureRecord]
    BY DEF BondInv, TypeOK, VaultTypes
  <2>2. CASE UpdateBondExposureState
    BY <2>1, <2>2 DEF UpdateBondExposureState, ExposureRecord
  <2>3. CASE PauseNewBondExposure
    BY <2>1, <2>3 DEF PauseNewBondExposure, ExposureRecord
  <2>4. CASE UNCHANGED exposure
    BY <2>1, <2>4
  <2> QED BY <2>2, <2>3, <2>4 DEF Tick, Governance, SetAssetAllowlist,
             PauseNewEconomicExposure, SetBondDispositionPolicy,
             RecordRiskDisclaimerAcceptance, vars
<1>4. VaultTypes' /\ CaseTypes'
  BY <1>1, <1>3 DEF BondInv, TypeOK, VaultTypes, CaseTypes, historyVars
<1>5. Conserved' /\ LockedIsCovered' /\ CaseShape'
  BY <1>1, <1>3 DEF BondInv, Conserved, LockedIsCovered, CaseShape, historyVars
<1> QED BY <1>1, <1>2, <1>3, <1>4, <1>5 DEF BondInv, TypeOK

\* Instructions of the owner: no case is written.
LEMMA OwnerStep == ASSUME BondInv, Owner PROVE BondInv'
<1>1. PICK m \in Mints :
          \/ OpenOwnerBondVault(m) \/ RequestOwnerBondWithdrawal(m)
          \/ \E a \in Amounts : \/ DepositOwnerBond(m, a)
                                \/ ExecuteUnlockedOwnerBondWithdrawal(m, a)
  BY DEF Owner
<1>2. /\ vault \in [Mints -> VaultRecord] /\ exposure \in [Mints -> ExposureRecord]
      /\ deposited \in [Mints -> Tokens] /\ withdrawn \in [Mints -> Tokens]
      /\ depositedAt \in [Mints -> Nat]
  BY DEF BondInv, TypeOK, VaultTypes
<1>3. /\ now \in Nat /\ now' = now
      /\ UNCHANGED <<config, policy, accepted, disposition, receipts>>
  BY <1>1 DEF OpenOwnerBondVault, RequestOwnerBondWithdrawal, DepositOwnerBond,
     ExecuteUnlockedOwnerBondWithdrawal, BondInv, TypeOK, ConfigTypes
<1>4. /\ deposited[m] = vault[m].bond + withdrawn[m] + exposure[m].routed
      /\ exposure[m].locked <= vault[m].bond
  BY <1>1 DEF BondInv, Conserved, LockedIsCovered
<1>5. VaultTypes' /\ Conserved' /\ LockedIsCovered'
  <2>1. CASE OpenOwnerBondVault(m)
    <3>1. /\ vault' = [vault EXCEPT ![m].status = "Open"]
          /\ UNCHANGED <<exposure, deposited, withdrawn, depositedAt>>
      BY <2>1 DEF OpenOwnerBondVault, historyVars
    <3>2. VaultTypes'
      BY <1>2, <3>1 DEF VaultTypes, VaultRecord
    <3> QED BY <1>2, <3>1, <3>2 DEF BondInv, Conserved, LockedIsCovered, VaultRecord
  <2>2. CASE RequestOwnerBondWithdrawal(m)
    <3>1. /\ vault' = [vault EXCEPT ![m].requestedAt = now, ![m].status = "WithdrawalRequested"]
          /\ UNCHANGED <<exposure, deposited, withdrawn, depositedAt>>
      BY <2>2 DEF RequestOwnerBondWithdrawal, historyVars
    <3>2. VaultTypes'
      BY <1>2, <1>3, <3>1 DEF VaultTypes, VaultRecord
    <3> QED BY <1>2, <3>1, <3>2 DEF BondInv, Conserved, LockedIsCovered, VaultRecord
  <2>3. ASSUME NEW a \in Amounts, DepositOwnerBond(m, a)
        PROVE  VaultTypes' /\ Conserved' /\ LockedIsCovered'
    <3>1. /\ vault' = [vault EXCEPT ![m].bond = @ + a, ![m].requestedAt = 0]
          /\ deposited' = [deposited EXCEPT ![m] = @ + a]
          /\ depositedAt' = [depositedAt EXCEPT ![m] = now]
          /\ deposited[m] + a <= MaxDeposits
          /\ UNCHANGED <<exposure, withdrawn>>
      BY <2>3 DEF DepositOwnerBond, RequestAfterDeposit, NotRequested
    <3>2. /\ vault[m].bond \in Tokens /\ exposure[m].routed \in Tokens
          /\ withdrawn[m] \in Tokens /\ deposited[m] \in Tokens /\ a \in Nat
      BY <1>2 DEF VaultRecord, ExposureRecord, Amounts
    <3>3. vault[m].bond + a \in Tokens /\ deposited[m] + a \in Tokens
      BY BondAssumption, <1>4, <3>1, <3>2 DEF Tokens
    <3>4. VaultTypes'
      BY <1>2, <1>3, <3>1, <3>3 DEF VaultTypes, VaultRecord
    <3>5. /\ vault'[m].bond = vault[m].bond + a /\ deposited'[m] = deposited[m] + a
          /\ \A n \in Mints \ {m} : vault'[n] = vault[n] /\ deposited'[n] = deposited[n]
      BY <1>2, <3>1 DEF VaultRecord
    <3>6. Conserved'
      <4>1. deposited'[m] = vault'[m].bond + withdrawn'[m] + exposure'[m].routed
        BY <1>4, <3>1, <3>2, <3>5 DEF Tokens
      <4> QED BY <3>1, <3>5, <4>1 DEF BondInv, Conserved
    <3>7. LockedIsCovered'
      <4>1. exposure[m].locked \in Tokens
        BY <1>2 DEF ExposureRecord
      <4>2. exposure'[m].locked <= vault'[m].bond
        BY <1>4, <3>1, <3>2, <3>5, <4>1 DEF Tokens
      <4> QED BY <3>1, <3>5, <4>2 DEF BondInv, LockedIsCovered
    <3> QED BY <3>4, <3>6, <3>7
  <2>4. ASSUME NEW a \in Amounts, ExecuteUnlockedOwnerBondWithdrawal(m, a)
        PROVE  VaultTypes' /\ Conserved' /\ LockedIsCovered'
    <3> DEFINE left == vault[m].bond - a
    <3>1. /\ vault[m].bond \in Tokens /\ exposure[m].routed \in Tokens
          /\ exposure[m].locked \in Tokens /\ withdrawn[m] \in Tokens
          /\ deposited[m] \in Tokens /\ vault[m].requestedAt \in Nat /\ a \in Nat
      BY <1>2 DEF VaultRecord, ExposureRecord, Amounts
    <3>2. a <= vault[m].bond /\ a <= vault[m].bond - exposure[m].locked
      BY <2>4 DEF ExecuteUnlockedOwnerBondWithdrawal, Withdrawable
    <3>3. left \in Tokens /\ withdrawn[m] + a \in Tokens
      BY BondAssumption, <1>4, <3>1, <3>2 DEF Tokens
    <3>4. BondLess(m, a) = left
      BY <3>1, <3>2 DEF BondLess, SaturatingSub, Tokens
    <3>5. PICK r \in VaultRecord : vault' = [vault EXCEPT ![m] = r] /\ r.bond = left
      <4> DEFINE rec == [bond |-> left,
                         requestedAt |-> IF left = 0 THEN 0 ELSE vault[m].requestedAt,
                         status |-> IF left = 0 THEN "Closed" ELSE "Open"]
      <4>1. vault' = [vault EXCEPT ![m] = rec]
        BY <1>2, <2>4, <3>4 DEF ExecuteUnlockedOwnerBondWithdrawal, NotRequested
      <4>2. rec \in VaultRecord
        BY <3>1, <3>3 DEF VaultRecord
      <4> QED BY <4>1, <4>2
    <3>6. /\ exposure' = [exposure EXCEPT ![m].known = TRUE]
          /\ withdrawn' = [withdrawn EXCEPT ![m] = @ + a]
          /\ UNCHANGED <<deposited, depositedAt>>
      BY <2>4 DEF ExecuteUnlockedOwnerBondWithdrawal
    <3> HIDE DEF left
    <3>7. VaultTypes'
      BY <1>2, <3>3, <3>5, <3>6 DEF VaultTypes, ExposureRecord
    <3>8. /\ vault'[m].bond = left /\ withdrawn'[m] = withdrawn[m] + a
          /\ \A n \in Mints : /\ exposure'[n].locked = exposure[n].locked
                              /\ exposure'[n].routed = exposure[n].routed
          /\ \A n \in Mints \ {m} : vault'[n] = vault[n] /\ withdrawn'[n] = withdrawn[n]
      BY <1>2, <3>5, <3>6 DEF ExposureRecord
    <3>9. Conserved' /\ LockedIsCovered'
      BY <1>4, <3>1, <3>2, <3>6, <3>8 DEF BondInv, Conserved, LockedIsCovered, Tokens, left
    <3> QED BY <3>7, <3>9
  <2> QED BY <1>1, <2>1, <2>2, <2>3, <2>4
<1>6. ConfigTypes' /\ CaseTypes' /\ CaseShape'
  BY <1>3 DEF BondInv, TypeOK, ConfigTypes, CaseTypes, CaseShape
<1> QED BY <1>5, <1>6 DEF BondInv, TypeOK

\* Opening, deciding and locking for a case; no token moves, none but locks change.
LEMMA CaseStep ==
    ASSUME BondInv, NEW c \in Cases,
           \/ RecordBondDispositionEvidence(c)
           \/ ExecuteBondForfeiture(c)
           \/ \E p \in Policies, m \in Mints, a \in Amounts :
                  OpenBondDispositionCase(c, p, m, a)
    PROVE  BondInv' /\ UNCHANGED <<vault, exposure, receipts, historyVars>>
<1>1. UNCHANGED <<now, config, policy, accepted, vault, exposure, receipts, historyVars>>
  BY DEF RecordBondDispositionEvidence, ExecuteBondForfeiture, OpenBondDispositionCase
<1>2. disposition \in [Cases -> CaseRecord]
  BY DEF BondInv, TypeOK, CaseTypes
<1>3. disposition' \in [Cases -> CaseRecord] /\ CaseShape'
  <2>1. CASE RecordBondDispositionEvidence(c)
    <3>1. disposition' = [disposition EXCEPT ![c].ruled = TRUE]
      BY <2>1 DEF RecordBondDispositionEvidence
    <3>2. disposition' \in [Cases -> CaseRecord]
      BY <1>2, <3>1 DEF CaseRecord
    <3>3. \A d \in Cases : /\ disposition'[d].status = disposition[d].status
                           /\ disposition'[d].mint = disposition[d].mint
                           /\ disposition'[d].policy = disposition[d].policy
                           /\ disposition'[d].locked = disposition[d].locked
                           /\ disposition'[d].routed = disposition[d].routed
      BY <1>2, <3>1 DEF CaseRecord
    <3>4. CaseShape'
      BY <3>3 DEF BondInv, CaseShape
    <3> QED BY <3>2, <3>4
  <2>2. CASE ExecuteBondForfeiture(c)
    <3>1. /\ disposition' = [disposition EXCEPT ![c].status = "Forfeited"]
          /\ disposition[c].status = "LockedForCase"
      BY <2>2 DEF ExecuteBondForfeiture, Decidable
    <3> QED BY <1>2, <3>1 DEF CaseRecord, BondInv, CaseShape
  <2>3. ASSUME NEW p \in Policies, NEW m \in Mints, NEW a \in Amounts,
               OpenBondDispositionCase(c, p, m, a)
        PROVE  disposition' \in [Cases -> CaseRecord] /\ CaseShape'
    <3> DEFINE new == [status |-> "Unlocked", mint |-> m, policy |-> p, requested |-> a,
                       locked |-> 0, routed |-> 0, ruled |-> FALSE]
    <3>1. disposition' = [disposition EXCEPT ![c] = new]
      BY <2>3 DEF OpenBondDispositionCase
    <3>2. /\ new \in CaseRecord /\ new.locked = 0 /\ new.routed = 0
          /\ new.mint \in Mints /\ new.policy \in Policies
      BY DEF CaseRecord, Amounts
    <3> HIDE DEF new
    <3>3. disposition' \in [Cases -> CaseRecord]
      BY <1>2, <3>1, <3>2
    <3>4. CaseShape'
      BY <1>2, <3>1, <3>2 DEF BondInv, CaseShape
    <3> QED BY <3>3, <3>4
  <2> QED BY <2>1, <2>2, <2>3
<1>4. ConfigTypes' /\ VaultTypes' /\ CaseTypes' /\ Conserved' /\ LockedIsCovered'
  BY <1>1, <1>3 DEF BondInv, TypeOK, ConfigTypes, VaultTypes, CaseTypes, Conserved,
     LockedIsCovered, historyVars
<1> QED BY <1>1, <1>3, <1>4 DEF BondInv, TypeOK

\* A lock takes what the bond still covers.
LEMMA LockStep ==
    ASSUME BondInv, NEW c \in Cases, NEW a \in Amounts, LockBondForCase(c, a)
    PROVE  BondInv'
<1> DEFINE m == disposition[c].mint
<1>1. /\ disposition[c].status = "Unlocked"
      /\ exposure[m].locked + a <= vault[m].bond
      /\ disposition' = [disposition EXCEPT ![c].locked = a, ![c].status = "LockedForCase"]
      /\ exposure' = [exposure EXCEPT ![m].known = TRUE, ![m].locked = @ + a]
      /\ UNCHANGED <<now, config, policy, accepted, vault, receipts, historyVars>>
  BY DEF LockBondForCase, Covered
<1>2. disposition \in [Cases -> CaseRecord]
  BY DEF BondInv, TypeOK, CaseTypes
<1>3. /\ vault \in [Mints -> VaultRecord] /\ exposure \in [Mints -> ExposureRecord]
  BY DEF BondInv, TypeOK, VaultTypes
<1>4. m \in Mints
  BY <1>1 DEF BondInv, CaseShape
<1>5. a \in Nat /\ exposure[m].locked \in Tokens /\ vault[m].bond \in Tokens
  BY <1>3, <1>4 DEF Amounts, VaultRecord, ExposureRecord
<1> HIDE DEF m
<1>6. exposure[m].locked + a \in Tokens
  BY BondAssumption, <1>1, <1>5 DEF Tokens
<1>7. /\ exposure' \in [Mints -> ExposureRecord]
      /\ exposure'[m].locked = exposure[m].locked + a
      /\ exposure'[m].routed = exposure[m].routed
      /\ \A n \in Mints \ {m} : exposure'[n] = exposure[n]
  BY <1>1, <1>3, <1>4, <1>6 DEF ExposureRecord
<1>8. disposition' \in [Cases -> CaseRecord] /\ CaseShape'
  BY <1>1, <1>2, <1>5 DEF CaseRecord, BondInv, CaseShape
<1>9. Conserved' /\ LockedIsCovered'
  BY <1>1, <1>4, <1>7 DEF BondInv, Conserved, LockedIsCovered, historyVars
<1>10. ConfigTypes' /\ VaultTypes' /\ CaseTypes'
  BY <1>1, <1>7, <1>8 DEF BondInv, TypeOK, ConfigTypes, VaultTypes, CaseTypes, historyVars
<1> QED BY <1>8, <1>9, <1>10 DEF BondInv, TypeOK

\* A release gives up the lock, or what there is of it.
LEMMA ReleaseStep == ASSUME BondInv, NEW c \in Cases, ExecuteBondRelease(c) PROVE BondInv'
<1> DEFINE m == disposition[c].mint
           left == SaturatingSub(exposure[m].locked, disposition[c].locked)
<1>1. /\ disposition[c].status = "LockedForCase"
      /\ exposure' = [exposure EXCEPT ![m].locked =
                          SaturatingSub(@, disposition[c].locked)]
      /\ disposition' = [disposition EXCEPT ![c].locked = 0, ![c].status = "Released"]
      /\ UNCHANGED <<now, config, policy, accepted, vault, receipts, historyVars>>
  BY DEF ExecuteBondRelease, ReleasedMint, Decidable
<1>2. disposition \in [Cases -> CaseRecord]
  BY DEF BondInv, TypeOK, CaseTypes
<1>3. /\ vault \in [Mints -> VaultRecord] /\ exposure \in [Mints -> ExposureRecord]
  BY DEF BondInv, TypeOK, VaultTypes
<1>4. m \in Mints
  BY <1>1 DEF BondInv, CaseShape
<1>5. disposition[c].locked \in Nat /\ exposure[m].locked \in Tokens /\ vault[m].bond \in Tokens
  BY <1>2, <1>3, <1>4 DEF CaseRecord, VaultRecord, ExposureRecord
<1>6. left \in Tokens /\ left <= exposure[m].locked
  BY BondAssumption, <1>5 DEF SaturatingSub, Tokens
<1>7. exposure' = [exposure EXCEPT ![m].locked = left]
  BY <1>1
<1> HIDE DEF m, left
<1>8. /\ exposure' \in [Mints -> ExposureRecord]
      /\ exposure'[m].locked = left /\ exposure'[m].routed = exposure[m].routed
      /\ \A n \in Mints \ {m} : exposure'[n] = exposure[n]
  BY <1>3, <1>4, <1>6, <1>7 DEF ExposureRecord
<1>9. disposition' \in [Cases -> CaseRecord] /\ CaseShape'
  BY <1>1, <1>2 DEF CaseRecord, BondInv, CaseShape
<1>10. LockedIsCovered'
  <2>1. exposure'[m].locked <= vault'[m].bond
    BY <1>1, <1>4, <1>5, <1>6, <1>8 DEF BondInv, LockedIsCovered, Tokens
  <2> QED BY <1>1, <1>8, <2>1 DEF BondInv, LockedIsCovered
<1>11. Conserved'
  BY <1>1, <1>8 DEF BondInv, Conserved, historyVars
<1>12. ConfigTypes' /\ VaultTypes' /\ CaseTypes'
  BY <1>1, <1>8, <1>9 DEF BondInv, TypeOK, ConfigTypes, VaultTypes, CaseTypes, historyVars
<1> QED BY <1>9, <1>10, <1>11, <1>12 DEF BondInv, TypeOK

\* A payment takes the same amount from the vault and from what is locked.
LEMMA RouteStep ==
    ASSUME BondInv, NEW c \in Cases, NEW r \in Receipts, NEW a \in Amounts,
           RouteForfeitedBondByPolicy(c, r, a)
    PROVE  BondInv'
<1> DEFINE m == disposition[c].mint
           bond == vault[m].bond - a
           total == SaturatingSub(exposure[m].locked, a)
           left == disposition[c].locked - a
<1>1. disposition \in [Cases -> CaseRecord]
  BY DEF BondInv, TypeOK, CaseTypes
<1>2. /\ vault \in [Mints -> VaultRecord] /\ exposure \in [Mints -> ExposureRecord]
  BY DEF BondInv, TypeOK, VaultTypes
<1>3. /\ disposition[c].status = "Forfeited"
      /\ a <= disposition[c].locked /\ a <= vault[m].bond
  BY DEF RouteForfeitedBondByPolicy
<1>4. m \in Mints
  BY <1>3 DEF BondInv, CaseShape
<1>5. /\ disposition[c].locked \in Nat /\ disposition[c].routed \in Nat /\ a \in Nat
      /\ exposure[m].locked \in Tokens /\ exposure[m].routed \in Tokens
      /\ vault[m].bond \in Tokens /\ withdrawn[m] \in Tokens /\ deposited[m] \in Tokens
  BY <1>1, <1>2, <1>4 DEF CaseRecord, VaultRecord, ExposureRecord, Amounts, BondInv, TypeOK,
     VaultTypes
<1>6. /\ SaturatingSub(disposition[c].locked, a) = left /\ left \in Nat
      /\ BondLess(m, a) = bond
  BY <1>3, <1>5 DEF SaturatingSub, BondLess, Tokens
<1>7. /\ deposited[m] = vault[m].bond + withdrawn[m] + exposure[m].routed
      /\ exposure[m].locked <= vault[m].bond
  BY <1>4 DEF BondInv, Conserved, LockedIsCovered
<1>8. /\ bond \in Tokens /\ total \in Tokens /\ total <= bond
      /\ exposure[m].routed + a \in Tokens
      /\ deposited[m] = bond + withdrawn[m] + (exposure[m].routed + a)
  BY BondAssumption, <1>3, <1>5, <1>7 DEF SaturatingSub, Tokens
<1>9. /\ receipts' = [receipts EXCEPT ![c][r] = a]
      /\ vault' = [vault EXCEPT ![m].bond = bond]
      /\ disposition' = [disposition EXCEPT
             ![c].locked = left, ![c].routed = @ + a,
             ![c].status = IF left = 0 THEN "RoutedByPolicy" ELSE @]
      /\ exposure' = [exposure EXCEPT ![m].locked = total, ![m].routed = @ + a]
      /\ UNCHANGED <<now, config, policy, accepted, historyVars>>
  BY <1>6 DEF RouteForfeitedBondByPolicy, LockedAfterRouting
<1> HIDE DEF m, bond, total, left
<1>10. /\ exposure' \in [Mints -> ExposureRecord]
       /\ exposure'[m].locked = total /\ exposure'[m].routed = exposure[m].routed + a
       /\ \A n \in Mints \ {m} : exposure'[n] = exposure[n]
  BY <1>2, <1>4, <1>8, <1>9 DEF ExposureRecord
<1>11. /\ vault' \in [Mints -> VaultRecord] /\ vault'[m].bond = bond
       /\ \A n \in Mints \ {m} : vault'[n] = vault[n]
  BY <1>2, <1>4, <1>8, <1>9 DEF VaultRecord
<1>12. disposition' \in [Cases -> CaseRecord] /\ CaseShape'
  <2>1. disposition[c].routed + a \in Nat
    BY <1>5
  <2>2. PICK d \in CaseRecord :
            /\ disposition' = [disposition EXCEPT ![c] = d]
            /\ d = [disposition[c] EXCEPT !.locked = left,
                        !.routed = disposition[c].routed + a,
                        !.status = IF left = 0 THEN "RoutedByPolicy" ELSE "Forfeited"]
    <3> DEFINE d == [disposition[c] EXCEPT !.locked = left,
                        !.routed = disposition[c].routed + a,
                        !.status = IF left = 0 THEN "RoutedByPolicy" ELSE "Forfeited"]
    <3>1. d \in CaseRecord
      BY <1>1, <1>6, <2>1 DEF CaseRecord
    <3>2. disposition' = [disposition EXCEPT ![c] = d]
      BY <1>1, <1>3, <1>9
    <3> QED BY <3>1, <3>2
  <2>3. CaseShape'
    BY <1>1, <1>3, <2>2 DEF BondInv, CaseShape, CaseRecord
  <2> QED BY <1>1, <2>2, <2>3
<1>13. LockedIsCovered' /\ Conserved'
  BY <1>8, <1>9, <1>10, <1>11 DEF BondInv, LockedIsCovered, Conserved, historyVars
<1>14. receipts' \in [Cases -> [Receipts -> Nat]]
  BY <1>5, <1>9 DEF BondInv, TypeOK, CaseTypes
<1>15. ConfigTypes' /\ VaultTypes' /\ CaseTypes'
  BY <1>9, <1>10, <1>11, <1>12, <1>14 DEF BondInv, TypeOK, ConfigTypes, VaultTypes,
     CaseTypes, historyVars
<1> QED BY <1>12, <1>13, <1>15 DEF BondInv, TypeOK

\* Every instruction keeps the base invariant.
LEMMA BondInvStep == BondInv /\ [Next]_vars => BondInv'
<1> SUFFICES ASSUME BondInv, [Next]_vars PROVE BondInv'
  OBVIOUS
<1>1. CASE Tick \/ Governance \/ UNCHANGED vars
  BY <1>1, ConfigStep
<1>2. CASE Owner
  BY <1>2, OwnerStep
<1>3. CASE Disposition
  BY <1>3, ConfigStep, CaseStep, LockStep, ReleaseStep, RouteStep DEF Disposition
<1> QED BY <1>1, <1>2, <1>3 DEF Next

\* The base invariant holds throughout.
LEMMA BondInvHolds == Spec => []BondInv
<1> QED BY InitBondInv, BondInvStep, PTL DEF Spec

(***************************************************************************)
(* Every account has its type and no balance, lock or total exceeds what   *)
(* may have been deposited.                                                *)
(***************************************************************************)
THEOREM BondTyped == Spec => []TypeOK
<1>1. BondInv => TypeOK
  BY DEF BondInv
<1> QED BY <1>1, BondInvHolds, PTL

(***************************************************************************)
(* What the cases of a mint hold together is in its vault, in whatever     *)
(* order withdrawals, locks and payments land.                             *)
(***************************************************************************)
THEOREM LockedCovered == Spec => []LockedIsCovered
<1>1. BondInv => LockedIsCovered
  BY DEF BondInv
<1> QED BY <1>1, BondInvHolds, PTL

(***************************************************************************)
(* Every token the owner deposited is in the vault, withdrawn or routed.   *)
(***************************************************************************)
THEOREM TokensConserved == Spec => []Conserved
<1>1. BondInv => Conserved
  BY DEF BondInv
<1> QED BY <1>1, BondInvHolds, PTL

-----------------------------------------------------------------------------
(* Counting units. *)

\* Column(x, n) are the units one holder accounts for.
Column(x, n) == {<<x, k>> : k \in 1 .. n}

\* A column of n units has n of them.
LEMMA ColumnSize ==
    ASSUME NEW x, NEW n \in Nat
    PROVE  IsFiniteSet(Column(x, n)) /\ Cardinality(Column(x, n)) = n
<1> DEFINE f == [k \in 1 .. n |-> <<x, k>>]
<1>1. f \in Bijection(1 .. n, Column(x, n))
  <2>1. f \in [1 .. n -> Column(x, n)]
    BY DEF Column
  <2>2. \A i, j \in 1 .. n : f[i] = f[j] => i = j
    OBVIOUS
  <2>3. \A t \in Column(x, n) : \E k \in 1 .. n : f[k] = t
    BY DEF Column
  <2> QED BY <2>1, <2>2, <2>3 DEF Bijection, Injection, IsInjective, Surjection
<1>2. IsFiniteSet(1 .. n) /\ Cardinality(1 .. n) = n
  BY FS_Interval
<1> QED BY <1>1, <1>2, FS_Bijection DEF ExistsBijection

\* The units of finitely many holders are finitely many.
LEMMA UnitsFinite ==
    ASSUME NEW S, IsFiniteSet(S), NEW f \in [S -> Nat]
    PROVE  IsFiniteSet(Units(f))
<1> DEFINE g == [x \in S |-> Column(x, f[x])]
           T == {Column(x, f[x]) : x \in S}
<1>1. g \in Surjection(S, T)
  BY DEF Surjection
<1>2. IsFiniteSet(T)
  BY <1>1, FS_Surjection
<1>3. \A C \in T : IsFiniteSet(C)
  BY ColumnSize
<1>4. Units(f) = UNION T
  BY DEF Units, Column
<1> QED BY <1>2, <1>3, <1>4, FS_UNION

\* When one holder's count changes, the number of units changes by as much.
LEMMA UnitsChange ==
    ASSUME NEW S, IsFiniteSet(S), NEW f \in [S -> Nat], NEW g \in [S -> Nat], NEW c \in S,
           \A d \in S \ {c} : g[d] = f[d]
    PROVE  /\ Cardinality(Units(f)) \in Nat /\ f[c] <= Cardinality(Units(f))
           /\ Cardinality(Units(g)) = Cardinality(Units(f)) - f[c] + g[c]
<1> DEFINE rest == UNION {Column(d, f[d]) : d \in S \ {c}}
<1>1. Units(f) = rest \cup Column(c, f[c]) /\ Units(g) = rest \cup Column(c, g[c])
  <2>1. /\ Units(f) = UNION {Column(d, f[d]) : d \in S}
        /\ Units(g) = UNION {Column(d, g[d]) : d \in S}
    BY DEF Units, Column
  <2>2. \A d \in S \ {c} : Column(d, g[d]) = Column(d, f[d])
    OBVIOUS
  <2> QED BY <2>1, <2>2
<1>2. rest \cap Column(c, f[c]) = {} /\ rest \cap Column(c, g[c]) = {}
  BY DEF Column
<1>3. IsFiniteSet(rest)
  BY <1>1, UnitsFinite, FS_Subset
<1>4. /\ IsFiniteSet(Column(c, f[c])) /\ Cardinality(Column(c, f[c])) = f[c]
      /\ IsFiniteSet(Column(c, g[c])) /\ Cardinality(Column(c, g[c])) = g[c]
  BY ColumnSize
<1> HIDE DEF rest
<1>5. /\ Cardinality(Units(f)) = Cardinality(rest) + f[c]
      /\ Cardinality(Units(g)) = Cardinality(rest) + g[c]
  <2>1. Cardinality(rest) \in Nat /\ Cardinality({}) = 0
    BY <1>3, FS_CardinalityType, FS_EmptySet
  <2>2. Cardinality(Units(f)) = Cardinality(rest) + f[c] - Cardinality({})
    BY <1>1, <1>2, <1>3, <1>4, FS_Union
  <2>3. Cardinality(Units(g)) = Cardinality(rest) + g[c] - Cardinality({})
    BY <1>1, <1>2, <1>3, <1>4, FS_Union
  <2>4. f[c] \in Nat /\ g[c] \in Nat
    OBVIOUS
  <2> QED BY <2>1, <2>2, <2>3, <2>4
<1> QED BY <1>3, <1>5, FS_CardinalityType

\* With nothing to count there are no units.
LEMMA NoUnits ==
    ASSUME NEW S, NEW f \in [S -> Nat], \A x \in S : f[x] = 0
    PROVE  Cardinality(Units(f)) = 0
<1>1. Units(f) = {}
  BY DEF Units
<1> QED BY <1>1, FS_EmptySet

-----------------------------------------------------------------------------
(* The lock total against the cases. *)

\* What the cases of a mint hold is a count for every case.
LEMMA LockedOnType == ASSUME BondInv, NEW m \in Mints PROVE LockedOn(m) \in [Cases -> Nat]
<1>1. \A c \in Cases : disposition[c].locked \in Nat
  BY DEF BondInv, TypeOK, CaseTypes, CaseRecord
<1> QED BY <1>1 DEF LockedOn

\* The total is at least what one case holds.
LEMMA LockedInTotal ==
    ASSUME BondInv, LockedIsSum, NEW c \in Cases, disposition[c].mint \in Mints
    PROVE  disposition[c].locked <= exposure[disposition[c].mint].locked
<1> DEFINE m == disposition[c].mint
<1>1. LockedOn(m) \in [Cases -> Nat] /\ LockedOn(m)[c] = disposition[c].locked
  BY LockedOnType DEF LockedOn
<1>2. LockedOn(m)[c] <= Cardinality(Units(LockedOn(m)))
  BY <1>1, UnitsChange, BondAssumption
<1> QED BY <1>1, <1>2 DEF LockedIsSum

\* One case changes its lock to new, and the total of its mint follows.
LockChanges(c, new) ==
    LET m == disposition[c].mint IN
    /\ m \in Mints /\ new \in Nat
    /\ disposition'[c].mint = m /\ disposition'[c].locked = new
    /\ \A d \in Cases \ {c} : disposition'[d] = disposition[d]
    /\ exposure'[m].locked = exposure[m].locked - disposition[c].locked + new
    /\ \A n \in Mints \ {m} : exposure'[n].locked = exposure[n].locked

\* Such a change keeps the total the sum of the locks.
LEMMA SumFollows ==
    ASSUME BondInv, BondInv', LockedIsSum, NEW c \in Cases, NEW new, LockChanges(c, new)
    PROVE  LockedIsSum'
<1> DEFINE m == disposition[c].mint
<1>1. ASSUME NEW n \in Mints PROVE exposure'[n].locked = Cardinality(Units(LockedOn(n)'))
  <2>1. LockedOn(n) \in [Cases -> Nat] /\ LockedOn(n)' \in [Cases -> Nat]
    <3>1. \A d \in Cases : disposition'[d].locked \in Nat
      BY DEF BondInv, TypeOK, CaseTypes, CaseRecord
    <3> QED BY <3>1, LockedOnType DEF LockedOn
  <2>2. \A d \in Cases \ {c} : LockedOn(n)'[d] = LockedOn(n)[d]
    BY DEF LockedOn, LockChanges
  <2>3. Cardinality(Units(LockedOn(n)')) =
            Cardinality(Units(LockedOn(n))) - LockedOn(n)[c] + LockedOn(n)'[c]
    BY <2>1, <2>2, UnitsChange, BondAssumption
  <2>4. exposure[n].locked = Cardinality(Units(LockedOn(n))) /\ exposure[n].locked \in Nat
    BY DEF LockedIsSum, BondInv, TypeOK, VaultTypes, ExposureRecord, Tokens
  <2>5. CASE n = m
    BY <2>3, <2>4, <2>5 DEF LockChanges, LockedOn
  <2>6. CASE n # m
    BY <2>3, <2>4, <2>6 DEF LockChanges, LockedOn
  <2> QED BY <2>5, <2>6
<1> QED BY <1>1 DEF LockedIsSum

\* A lock adds to the total what the case takes.
LEMMA LockIsLockChange ==
    ASSUME BondInv, NEW c \in Cases, NEW a \in Amounts, LockBondForCase(c, a)
    PROVE  LockChanges(c, a)
<1> DEFINE m == disposition[c].mint
<1>1. /\ disposition[c].status = "Unlocked"
      /\ disposition' = [disposition EXCEPT ![c].locked = a, ![c].status = "LockedForCase"]
      /\ exposure' = [exposure EXCEPT ![m].known = TRUE, ![m].locked = @ + a]
  BY DEF LockBondForCase
<1>2. disposition \in [Cases -> CaseRecord] /\ exposure \in [Mints -> ExposureRecord]
  BY DEF BondInv, TypeOK, CaseTypes, VaultTypes
<1>3. m \in Mints /\ disposition[c].locked = 0
  BY <1>1 DEF BondInv, CaseShape
<1> HIDE DEF m
<1>4. /\ exposure'[m].locked = exposure[m].locked + a
      /\ \A n \in Mints \ {m} : exposure'[n].locked = exposure[n].locked
      /\ exposure[m].locked \in Nat /\ a \in Nat
  BY <1>1, <1>2, <1>3 DEF ExposureRecord, Tokens, Amounts
<1>5. /\ disposition'[c].mint = disposition[c].mint /\ disposition'[c].locked = a
      /\ \A d \in Cases \ {c} : disposition'[d] = disposition[d]
  BY <1>1, <1>2 DEF CaseRecord
<1> QED BY <1>3, <1>4, <1>5 DEF LockChanges, m

\* A release takes the whole lock of the case off the total.
LEMMA ReleaseIsLockChange ==
    ASSUME BondInv, LockedIsSum, NEW c \in Cases, ExecuteBondRelease(c)
    PROVE  LockChanges(c, 0)
<1> DEFINE m == disposition[c].mint
<1>1. /\ disposition[c].status = "LockedForCase"
      /\ disposition' = [disposition EXCEPT ![c].locked = 0, ![c].status = "Released"]
      /\ exposure' = [exposure EXCEPT ![m].locked =
                          SaturatingSub(@, disposition[c].locked)]
  BY DEF ExecuteBondRelease, ReleasedMint, Decidable
<1>2. disposition \in [Cases -> CaseRecord] /\ exposure \in [Mints -> ExposureRecord]
  BY DEF BondInv, TypeOK, CaseTypes, VaultTypes
<1>3. m \in Mints
  BY <1>1 DEF BondInv, CaseShape
<1>4. /\ disposition[c].locked <= exposure[m].locked
      /\ disposition[c].locked \in Nat /\ exposure[m].locked \in Nat
  BY <1>2, <1>3, LockedInTotal DEF CaseRecord, ExposureRecord, Tokens
<1>5. SaturatingSub(exposure[m].locked, disposition[c].locked)
          = exposure[m].locked - disposition[c].locked + 0
  BY <1>4 DEF SaturatingSub
<1> HIDE DEF m
<1>6. /\ exposure'[m].locked = SaturatingSub(exposure[m].locked, disposition[c].locked)
      /\ \A n \in Mints \ {m} : exposure'[n].locked = exposure[n].locked
  BY <1>1, <1>2, <1>3 DEF ExposureRecord
<1>7. /\ disposition'[c].mint = disposition[c].mint /\ disposition'[c].locked = 0
      /\ \A d \in Cases \ {c} : disposition'[d] = disposition[d]
  BY <1>1, <1>2 DEF CaseRecord
<1> QED BY <1>3, <1>5, <1>6, <1>7 DEF LockChanges, m

\* A payment takes its amount off the lock of the case and off the total.
LEMMA RouteIsLockChange ==
    ASSUME BondInv, LockedIsSum, NEW c \in Cases, NEW r \in Receipts, NEW a \in Amounts,
           RouteForfeitedBondByPolicy(c, r, a)
    PROVE  /\ LockChanges(c, disposition[c].locked - a)
           /\ disposition'[c].routed = disposition[c].routed + a
           /\ disposition'[c].requested = disposition[c].requested
           /\ disposition'[c].status =
                  IF disposition[c].locked - a = 0 THEN "RoutedByPolicy" ELSE "Forfeited"
<1> DEFINE m == disposition[c].mint
           left == disposition[c].locked - a
<1>1. /\ disposition[c].status = "Forfeited" /\ a <= disposition[c].locked
  BY DEF RouteForfeitedBondByPolicy
<1>2. disposition \in [Cases -> CaseRecord] /\ exposure \in [Mints -> ExposureRecord]
  BY DEF BondInv, TypeOK, CaseTypes, VaultTypes
<1>3. m \in Mints
  BY <1>1 DEF BondInv, CaseShape
<1>4. /\ disposition[c].locked <= exposure[m].locked /\ a \in Nat
      /\ disposition[c].locked \in Nat /\ exposure[m].locked \in Nat
  BY <1>2, <1>3, LockedInTotal DEF CaseRecord, ExposureRecord, Tokens, Amounts
<1>5. /\ SaturatingSub(disposition[c].locked, a) = left /\ left \in Nat
      /\ SaturatingSub(exposure[m].locked, a) = exposure[m].locked - disposition[c].locked + left
  BY <1>1, <1>4 DEF SaturatingSub
<1>6. /\ disposition' = [disposition EXCEPT
             ![c].locked = left, ![c].routed = @ + a,
             ![c].status = IF left = 0 THEN "RoutedByPolicy" ELSE @]
      /\ exposure' = [exposure EXCEPT ![m].locked = SaturatingSub(exposure[m].locked, a),
                                      ![m].routed = @ + a]
  BY <1>5 DEF RouteForfeitedBondByPolicy, LockedAfterRouting
<1> HIDE DEF m, left
<1>7. /\ exposure'[m].locked = SaturatingSub(exposure[m].locked, a)
      /\ \A n \in Mints \ {m} : exposure'[n].locked = exposure[n].locked
  BY <1>2, <1>3, <1>6 DEF ExposureRecord
<1>8. /\ disposition'[c].mint = disposition[c].mint /\ disposition'[c].locked = left
      /\ disposition'[c].routed = disposition[c].routed + a
      /\ disposition'[c].requested = disposition[c].requested
      /\ disposition'[c].status = IF left = 0 THEN "RoutedByPolicy" ELSE "Forfeited"
      /\ \A d \in Cases \ {c} : disposition'[d] = disposition[d]
  BY <1>1, <1>2, <1>6 DEF CaseRecord
<1>9. LockChanges(c, left)
  BY <1>3, <1>5, <1>7, <1>8 DEF LockChanges, m
<1> QED BY <1>8, <1>9 DEF left

\* Every other instruction leaves what cases hold, and the totals.
LEMMA OtherLocksUnchanged ==
    ASSUME BondInv,
           \/ Tick \/ Governance \/ Owner \/ RecordRiskDisclaimerAcceptance \/ UNCHANGED vars
           \/ \E c \in Cases :
                \/ RecordBondDispositionEvidence(c)
                \/ ExecuteBondForfeiture(c)
                \/ \E p \in Policies, m \in Mints, a \in Amounts :
                       OpenBondDispositionCase(c, p, m, a)
    PROVE  \A m \in Mints : /\ exposure'[m].locked = exposure[m].locked
                            /\ LockedOn(m)' = LockedOn(m)
<1>1. CASE Tick \/ Governance \/ RecordRiskDisclaimerAcceptance \/ UNCHANGED vars
  BY <1>1, ConfigStep DEF LockedOn
<1>2. CASE Owner
  <2>1. UNCHANGED disposition
    BY <1>2 DEF Owner, OpenOwnerBondVault, RequestOwnerBondWithdrawal, DepositOwnerBond,
       ExecuteUnlockedOwnerBondWithdrawal
  <2>2. exposure \in [Mints -> ExposureRecord]
    BY DEF BondInv, TypeOK, VaultTypes
  <2>3. exposure' = exposure \/ \E m \in Mints : exposure' = [exposure EXCEPT ![m].known = TRUE]
    BY <1>2 DEF Owner, OpenOwnerBondVault, RequestOwnerBondWithdrawal, DepositOwnerBond,
       ExecuteUnlockedOwnerBondWithdrawal
  <2> QED BY <2>1, <2>2, <2>3 DEF LockedOn, ExposureRecord
<1>3. ASSUME NEW c \in Cases,
             \/ RecordBondDispositionEvidence(c)
             \/ ExecuteBondForfeiture(c)
             \/ \E p \in Policies, m \in Mints, a \in Amounts :
                    OpenBondDispositionCase(c, p, m, a)
      PROVE  \A m \in Mints : /\ exposure'[m].locked = exposure[m].locked
                              /\ LockedOn(m)' = LockedOn(m)
  <2>1. UNCHANGED exposure
    BY <1>3, CaseStep
  <2>2. disposition \in [Cases -> CaseRecord]
    BY DEF BondInv, TypeOK, CaseTypes
  <2>3. \A d \in Cases \ {c} : disposition'[d] = disposition[d]
    BY <1>3, <2>2 DEF RecordBondDispositionEvidence, ExecuteBondForfeiture,
       OpenBondDispositionCase
  <2>4. \/ /\ disposition'[c].mint = disposition[c].mint
           /\ disposition'[c].locked = disposition[c].locked
        \/ disposition'[c].locked = 0 /\ disposition[c].locked = 0
    <3>1. CASE RecordBondDispositionEvidence(c) \/ ExecuteBondForfeiture(c)
      BY <2>2, <3>1 DEF RecordBondDispositionEvidence, ExecuteBondForfeiture, CaseRecord
    <3>2. CASE \E p \in Policies, m \in Mints, a \in Amounts :
                   OpenBondDispositionCase(c, p, m, a)
      BY <2>2, <3>2 DEF OpenBondDispositionCase, BondInv, CaseShape
    <3> QED BY <1>3, <3>1, <3>2
  <2> QED BY <2>1, <2>3, <2>4 DEF LockedOn
<1> QED BY <1>1, <1>2, <1>3

(***************************************************************************)
(* active_locked_amount, kept up to date next to the cases and by          *)
(* saturating subtraction, is always what the cases of the mint hold.      *)
(***************************************************************************)
THEOREM LockTotalIsSum == Spec => []LockedIsSum
<1>1. Init => LockedIsSum
  <2> SUFFICES ASSUME Init, NEW m \in Mints
               PROVE  exposure[m].locked = Cardinality(Units(LockedOn(m)))
    BY DEF LockedIsSum
  <2>1. LockedOn(m) \in [Cases -> Nat] /\ \A c \in Cases : LockedOn(m)[c] = 0
    BY DEF Init, NoCase, LockedOn
  <2> QED BY <2>1, NoUnits DEF Init, NoExposure
<1>2. BondInv /\ BondInv' /\ LockedIsSum /\ [Next]_vars => LockedIsSum'
  <2> SUFFICES ASSUME BondInv, BondInv', LockedIsSum, [Next]_vars PROVE LockedIsSum'
    OBVIOUS
  <2>1. ASSUME NEW c \in Cases, NEW a \in Amounts, LockBondForCase(c, a) PROVE LockedIsSum'
    BY <2>1, LockIsLockChange, SumFollows
  <2>2. ASSUME NEW c \in Cases, ExecuteBondRelease(c) PROVE LockedIsSum'
    BY <2>2, ReleaseIsLockChange, SumFollows
  <2>3. ASSUME NEW c \in Cases, NEW r \in Receipts, NEW a \in Amounts,
               RouteForfeitedBondByPolicy(c, r, a)
        PROVE  LockedIsSum'
    BY <2>3, RouteIsLockChange, SumFollows
  <2>4. ASSUME \A m \in Mints : /\ exposure'[m].locked = exposure[m].locked
                                /\ LockedOn(m)' = LockedOn(m)
        PROVE  LockedIsSum'
    BY <2>4 DEF LockedIsSum
  <2> QED BY <2>1, <2>2, <2>3, <2>4, OtherLocksUnchanged DEF Next, Disposition
<1> QED BY <1>1, <1>2, BondInvHolds, PTL DEF Spec

-----------------------------------------------------------------------------
(* One case at a time. *)

\* Base and lock total together: the case lemmas need both.
LedgerInv == BondInv /\ LockedIsSum

\* They hold together throughout.
LEMMA LedgerInvHolds == Spec => []LedgerInv
<1> QED BY BondInvHolds, LockTotalIsSum, PTL DEF LedgerInv

\* The steps of one case, as far as they touch what it asked for, holds and paid.
CaseSame(c) ==
    /\ disposition'[c].status = disposition[c].status
    /\ disposition'[c].mint = disposition[c].mint
    /\ disposition'[c].requested = disposition[c].requested
    /\ disposition'[c].locked = disposition[c].locked
    /\ disposition'[c].routed = disposition[c].routed
CaseOpens(c) ==
    /\ disposition[c].status = "none" /\ disposition'[c].status = "Unlocked"
    /\ disposition'[c].requested \in Nat
    /\ disposition'[c].locked = 0 /\ disposition'[c].routed = 0
CaseLocks(c) ==
    /\ disposition[c].status = "Unlocked" /\ disposition'[c].status = "LockedForCase"
    /\ disposition'[c].locked <= disposition[c].requested
    /\ disposition'[c].routed = 0 /\ disposition'[c].requested = disposition[c].requested
CaseReleases(c) ==
    /\ disposition[c].status = "LockedForCase" /\ disposition[c].ruled
    /\ disposition'[c].status = "Released"
    /\ disposition'[c].locked = 0 /\ disposition'[c].routed = disposition[c].routed
    /\ disposition'[c].requested = disposition[c].requested
CaseForfeits(c) ==
    /\ disposition[c].status = "LockedForCase" /\ disposition[c].ruled
    /\ disposition'[c].status = "Forfeited"
    /\ disposition'[c].locked = disposition[c].locked
    /\ disposition'[c].routed = disposition[c].routed
    /\ disposition'[c].requested = disposition[c].requested
CasePays(c) ==
    \E r \in Receipts, a \in Amounts :
        /\ disposition[c].status = "Forfeited" /\ a <= disposition[c].locked
        /\ disposition'[c].status =
               IF disposition[c].locked - a = 0 THEN "RoutedByPolicy" ELSE "Forfeited"
        /\ disposition'[c].locked = disposition[c].locked - a
        /\ disposition'[c].routed = disposition[c].routed + a
        /\ disposition'[c].requested = disposition[c].requested
        /\ receipts[c][r] = 0 /\ receipts'[c] = [receipts[c] EXCEPT ![r] = a]

\* Whatever happens, each case stays as it is or takes one of these steps, and its
\* receipts change only when it pays.
LEMMA CaseSteps ==
    ASSUME LedgerInv, [Next]_vars, NEW c \in Cases
    PROVE  \/ /\ \/ CaseSame(c) \/ CaseOpens(c) \/ CaseLocks(c) \/ CaseReleases(c)
                 \/ CaseForfeits(c)
              /\ receipts'[c] = receipts[c]
           \/ CasePays(c)
<1>1. /\ disposition \in [Cases -> CaseRecord] /\ receipts \in [Cases -> [Receipts -> Nat]]
      /\ BondInv /\ LockedIsSum
  BY DEF LedgerInv, BondInv, TypeOK, CaseTypes
<1>2. CASE UNCHANGED <<disposition, receipts>>
  BY <1>2 DEF CaseSame
<1>3. ASSUME NEW d \in Cases, d # c,
             \/ RecordBondDispositionEvidence(d)
             \/ ExecuteBondRelease(d) \/ ExecuteBondForfeiture(d)
             \/ \E a \in Amounts :
                 \/ LockBondForCase(d, a)
                 \/ \E p \in Policies, m \in Mints : OpenBondDispositionCase(d, p, m, a)
                 \/ \E r \in Receipts : RouteForfeitedBondByPolicy(d, r, a)
      PROVE  disposition'[c] = disposition[c] /\ receipts'[c] = receipts[c]
  <2>1. CASE RecordBondDispositionEvidence(d)
    BY <1>1, <1>3, <2>1 DEF RecordBondDispositionEvidence
  <2>2. CASE ExecuteBondRelease(d)
    BY <1>1, <1>3, <2>2 DEF ExecuteBondRelease
  <2>3. CASE ExecuteBondForfeiture(d)
    BY <1>1, <1>3, <2>3 DEF ExecuteBondForfeiture
  <2>4. ASSUME NEW a \in Amounts, LockBondForCase(d, a)
        PROVE  disposition'[c] = disposition[c] /\ receipts'[c] = receipts[c]
    BY <1>1, <1>3, <2>4 DEF LockBondForCase
  <2>5. ASSUME NEW a \in Amounts, NEW p \in Policies, NEW m \in Mints,
               OpenBondDispositionCase(d, p, m, a)
        PROVE  disposition'[c] = disposition[c] /\ receipts'[c] = receipts[c]
    BY <1>1, <1>3, <2>5 DEF OpenBondDispositionCase
  <2>6. ASSUME NEW a \in Amounts, NEW r \in Receipts, RouteForfeitedBondByPolicy(d, r, a)
        PROVE  disposition'[c] = disposition[c] /\ receipts'[c] = receipts[c]
    BY <1>1, <1>3, <2>6 DEF RouteForfeitedBondByPolicy
  <2> QED BY <1>3, <2>1, <2>2, <2>3, <2>4, <2>5, <2>6
<1>4. CASE RecordBondDispositionEvidence(c)
  BY <1>1, <1>4 DEF RecordBondDispositionEvidence, CaseSame, CaseRecord
<1>5. CASE ExecuteBondRelease(c)
  BY <1>1, <1>5 DEF ExecuteBondRelease, Decidable, CaseReleases, CaseRecord
<1>6. CASE ExecuteBondForfeiture(c)
  BY <1>1, <1>6 DEF ExecuteBondForfeiture, Decidable, CaseForfeits, CaseRecord
<1>7. ASSUME NEW a \in Amounts, LockBondForCase(c, a)
      PROVE  CaseLocks(c) /\ receipts'[c] = receipts[c]
  <2>1. /\ disposition' = [disposition EXCEPT ![c].locked = a, ![c].status = "LockedForCase"]
        /\ disposition[c].status = "Unlocked" /\ a <= disposition[c].requested
        /\ UNCHANGED receipts
    BY <1>7 DEF LockBondForCase, Lockable
  <2>2. disposition[c].routed = 0
    BY <1>1, <2>1 DEF BondInv, CaseShape
  <2> QED BY <1>1, <2>1, <2>2 DEF CaseLocks, CaseRecord
<1>8. ASSUME NEW a \in Amounts, NEW p \in Policies, NEW m \in Mints,
             OpenBondDispositionCase(c, p, m, a)
      PROVE  CaseOpens(c) /\ receipts'[c] = receipts[c]
  BY <1>1, <1>8 DEF OpenBondDispositionCase, CaseOpens, Amounts
<1>9. ASSUME NEW a \in Amounts, NEW r \in Receipts, RouteForfeitedBondByPolicy(c, r, a)
      PROVE  CasePays(c)
  <2>1. /\ LockChanges(c, disposition[c].locked - a)
        /\ disposition'[c].routed = disposition[c].routed + a
        /\ disposition'[c].requested = disposition[c].requested
        /\ disposition'[c].status =
               IF disposition[c].locked - a = 0 THEN "RoutedByPolicy" ELSE "Forfeited"
    BY <1>1, <1>9, RouteIsLockChange
  <2>2. /\ disposition[c].status = "Forfeited" /\ a <= disposition[c].locked
        /\ receipts' = [receipts EXCEPT ![c][r] = a] /\ receipts[c][r] = 0
    BY <1>9 DEF RouteForfeitedBondByPolicy, ReceiptIsNew
  <2>3. receipts'[c] = [receipts[c] EXCEPT ![r] = a]
    BY <1>1, <2>2
  <2> QED BY <2>1, <2>2, <2>3 DEF CasePays, LockChanges
<1>10. CASE Tick \/ Governance \/ RecordRiskDisclaimerAcceptance \/ UNCHANGED vars
  BY <1>1, <1>2, <1>10, ConfigStep
<1>11. CASE Owner
  <2>1. UNCHANGED <<disposition, receipts>>
    BY <1>11 DEF Owner, OpenOwnerBondVault, RequestOwnerBondWithdrawal, DepositOwnerBond,
       ExecuteUnlockedOwnerBondWithdrawal
  <2> QED BY <1>2, <2>1
<1>12. CASE Disposition
  <2>1. CASE disposition'[c] = disposition[c] /\ receipts'[c] = receipts[c]
    BY <2>1 DEF CaseSame
  <2> QED BY <1>3, <1>4, <1>5, <1>6, <1>7, <1>8, <1>9, <1>10, <1>12, <2>1 DEF Disposition
<1> QED BY <1>10, <1>11, <1>12 DEF Next

(***************************************************************************)
(* A case never holds or has paid more than it asked for.                  *)
(***************************************************************************)
THEOREM CasesWithinRequest == Spec => []WithinRequest
<1>1. Init => WithinRequest
  BY DEF Init, WithinRequest, NoCase
<1>2. LedgerInv /\ LedgerInv' /\ WithinRequest /\ [Next]_vars => WithinRequest'
  <2> SUFFICES ASSUME LedgerInv, LedgerInv', WithinRequest, [Next]_vars, NEW c \in Cases
               PROVE  disposition'[c].locked + disposition'[c].routed
                          <= disposition'[c].requested
    BY DEF WithinRequest
  <2>1. /\ disposition[c].locked \in Nat /\ disposition[c].routed \in Nat
        /\ disposition[c].requested \in Nat
        /\ disposition'[c].locked \in Nat /\ disposition'[c].routed \in Nat
        /\ disposition'[c].requested \in Nat
    BY DEF LedgerInv, BondInv, TypeOK, CaseTypes, CaseRecord
  <2>2. /\ disposition[c].locked + disposition[c].routed <= disposition[c].requested
        /\ disposition[c].status = "LockedForCase" => disposition[c].routed = 0
    BY DEF WithinRequest, LedgerInv, BondInv, CaseShape
  <2>3. CASE CaseSame(c) \/ CaseForfeits(c) \/ CaseReleases(c)
    BY <2>1, <2>2, <2>3 DEF CaseSame, CaseForfeits, CaseReleases
  <2>4. CASE CaseOpens(c) \/ CaseLocks(c)
    BY <2>1, <2>2, <2>4 DEF CaseOpens, CaseLocks
  <2>5. CASE CasePays(c)
    <3>1. PICK a \in Amounts :
              /\ disposition'[c].locked = disposition[c].locked - a
              /\ disposition'[c].routed = disposition[c].routed + a
              /\ disposition'[c].requested = disposition[c].requested
      BY <2>5 DEF CasePays
    <3>2. a \in Nat
      BY DEF Amounts
    <3> QED BY <2>1, <2>2, <3>1, <3>2
  <2> QED BY <2>3, <2>4, <2>5, CaseSteps
<1> QED BY <1>1, <1>2, LedgerInvHolds, PTL DEF Spec

(***************************************************************************)
(* What a case has routed is on its receipts, each paid once.              *)
(***************************************************************************)
THEOREM RoutingIsReceipted == Spec => []RoutedIsReceipted
<1>1. Init => RoutedIsReceipted
  <2> SUFFICES ASSUME Init, NEW c \in Cases
               PROVE  disposition[c].routed = Cardinality(Units(receipts[c]))
    BY DEF RoutedIsReceipted
  <2>1. receipts[c] \in [Receipts -> Nat] /\ \A r \in Receipts : receipts[c][r] = 0
    BY DEF Init
  <2> QED BY <2>1, NoUnits DEF Init, NoCase
<1>2. LedgerInv /\ RoutedIsReceipted /\ [Next]_vars => RoutedIsReceipted'
  <2> SUFFICES ASSUME LedgerInv, RoutedIsReceipted, [Next]_vars, NEW c \in Cases
               PROVE  disposition'[c].routed = Cardinality(Units(receipts'[c]))
    BY DEF RoutedIsReceipted
  <2>1. disposition[c].routed = Cardinality(Units(receipts[c]))
    BY DEF RoutedIsReceipted
  <2>2. /\ disposition[c].routed \in Nat /\ receipts[c] \in [Receipts -> Nat]
        /\ disposition[c].status \in {"none", "Unlocked"} => disposition[c].routed = 0
    BY DEF LedgerInv, BondInv, TypeOK, CaseTypes, CaseRecord, CaseShape
  <2>3. CASE CasePays(c)
    <3>1. PICK r \in Receipts, a \in Amounts :
              /\ disposition'[c].routed = disposition[c].routed + a
              /\ receipts[c][r] = 0 /\ receipts'[c] = [receipts[c] EXCEPT ![r] = a]
      BY <2>3 DEF CasePays
    <3>2. receipts'[c] \in [Receipts -> Nat] /\ receipts'[c][r] = a
      BY <2>2, <3>1 DEF Amounts
    <3>3. Cardinality(Units(receipts'[c])) = Cardinality(Units(receipts[c])) - 0 + a
      BY <2>2, <3>1, <3>2, UnitsChange, BondAssumption
    <3> QED BY <2>1, <2>2, <3>1, <3>3 DEF Amounts
  <2> QED BY <2>1, <2>2, <2>3, CaseSteps DEF CaseSame, CaseOpens, CaseLocks, CaseReleases,
             CaseForfeits
<1> QED BY <1>1, <1>2, LedgerInvHolds, PTL DEF Spec

(***************************************************************************)
(* A case is decided once, after a ruling, and then stays decided.         *)
(***************************************************************************)
THEOREM CasesOnlyMoveForward == Spec => CasesMoveForward
<1>1. LedgerInv /\ [Next]_vars => [\A c \in Cases : Forward(c)]_vars
  <2> SUFFICES ASSUME LedgerInv, [Next]_vars, NEW c \in Cases PROVE Forward(c)
    OBVIOUS
  <2>1. disposition[c].routed \in Nat
    BY DEF LedgerInv, BondInv, TypeOK, CaseTypes, CaseRecord
  <2>2. CASE CaseSame(c) \/ CaseOpens(c) \/ CaseLocks(c)
    BY <2>2 DEF CaseSame, CaseOpens, CaseLocks, Forward
  <2>3. CASE CaseReleases(c) \/ CaseForfeits(c)
    BY <2>3 DEF CaseReleases, CaseForfeits, Forward
  <2>4. CASE CasePays(c)
    <3>1. PICK a \in Amounts :
              /\ disposition[c].status = "Forfeited"
              /\ disposition'[c].status \in {"Forfeited", "RoutedByPolicy"}
              /\ disposition'[c].routed = disposition[c].routed + a
      BY <2>4 DEF CasePays
    <3>2. disposition'[c].routed > 0
      BY <2>1, <3>1 DEF Amounts
    <3> QED BY <3>1, <3>2 DEF Forward
  <2> QED BY <2>2, <2>3, <2>4, CaseSteps
<1> QED BY <1>1, LedgerInvHolds, PTL DEF Spec, CasesMoveForward

-----------------------------------------------------------------------------
(* The withdrawal lock. *)

\* A pending request is younger than the last deposit.
RequestsFresh ==
    \A m \in Mints :
        /\ depositedAt[m] <= now
        /\ vault[m].requestedAt # NotRequested => depositedAt[m] <= vault[m].requestedAt

\* Cases and configuration leave requests and history; only Tick moves the clock.
LEMMA OthersKeepRequests ==
    ASSUME BondInv, Tick \/ Governance \/ Disposition \/ UNCHANGED vars
    PROVE  /\ now' = now \/ now' = now + 1
           /\ UNCHANGED historyVars
           /\ \A m \in Mints : vault'[m].requestedAt = vault[m].requestedAt
<1>1. vault \in [Mints -> VaultRecord]
  BY DEF BondInv, TypeOK, VaultTypes
<1>2. CASE Tick
  BY <1>2 DEF Tick
<1>3. CASE UNCHANGED vars
  BY <1>3 DEF vars, historyVars
<1>4. CASE Governance
  <2>1. now' = now
    BY <1>4 DEF Governance, SetAssetAllowlist, PauseNewEconomicExposure,
       SetBondDispositionPolicy, UpdateBondExposureState, PauseNewBondExposure
  <2> QED BY <1>4, <2>1, ConfigStep
<1>5. CASE RecordRiskDisclaimerAcceptance
  BY <1>5 DEF RecordRiskDisclaimerAcceptance
<1>6. ASSUME NEW c \in Cases,
             \/ RecordBondDispositionEvidence(c)
             \/ ExecuteBondRelease(c) \/ ExecuteBondForfeiture(c)
             \/ \E a \in Amounts :
                 \/ LockBondForCase(c, a)
                 \/ \E p \in Policies, m \in Mints : OpenBondDispositionCase(c, p, m, a)
      PROVE  UNCHANGED <<now, vault, historyVars>>
  BY <1>6 DEF RecordBondDispositionEvidence, ExecuteBondRelease, ExecuteBondForfeiture,
     LockBondForCase, OpenBondDispositionCase
<1>7. ASSUME NEW c \in Cases, NEW a \in Amounts, NEW r \in Receipts,
             RouteForfeitedBondByPolicy(c, r, a)
      PROVE  /\ UNCHANGED <<now, historyVars>>
             /\ \A m \in Mints : vault'[m].requestedAt = vault[m].requestedAt
  <2>1. /\ vault' = [vault EXCEPT ![disposition[c].mint].bond = BondLess(disposition[c].mint, a)]
        /\ UNCHANGED <<now, historyVars>>
    BY <1>7 DEF RouteForfeitedBondByPolicy
  <2> QED BY <1>1, <2>1 DEF VaultRecord
<1>8. CASE Disposition
  BY <1>5, <1>6, <1>7, <1>8 DEF Disposition
<1> QED BY <1>2, <1>3, <1>4, <1>8

\* A deposit clears the request, so only a later one can be pending.
LEMMA RequestsFreshHolds == Spec => []RequestsFresh
<1>1. Init => RequestsFresh
  BY DEF Init, RequestsFresh, NoVault
<1>2. BondInv /\ RequestsFresh /\ [Next]_vars => RequestsFresh'
  <2> SUFFICES ASSUME BondInv, RequestsFresh, [Next]_vars PROVE RequestsFresh'
    OBVIOUS
  <2>1. /\ vault \in [Mints -> VaultRecord] /\ depositedAt \in [Mints -> Nat] /\ now \in Nat
    BY DEF BondInv, TypeOK, ConfigTypes, VaultTypes
  <2>2. ASSUME NEW m \in Mints, OpenOwnerBondVault(m) PROVE RequestsFresh'
    BY <2>1, <2>2 DEF OpenOwnerBondVault, historyVars, RequestsFresh, VaultRecord
  <2>3. ASSUME NEW m \in Mints, RequestOwnerBondWithdrawal(m) PROVE RequestsFresh'
    BY <2>1, <2>3 DEF RequestOwnerBondWithdrawal, historyVars, RequestsFresh, VaultRecord
  <2>4. ASSUME NEW m \in Mints, NEW a \in Amounts, DepositOwnerBond(m, a)
        PROVE  RequestsFresh'
    BY <2>1, <2>4 DEF DepositOwnerBond, RequestAfterDeposit, NotRequested, RequestsFresh,
       VaultRecord
  <2>5. ASSUME NEW m \in Mints, NEW a \in Amounts, ExecuteUnlockedOwnerBondWithdrawal(m, a)
        PROVE  RequestsFresh'
    <3>1. /\ vault'[m].requestedAt \in {NotRequested, vault[m].requestedAt}
          /\ \A n \in Mints \ {m} : vault'[n] = vault[n]
          /\ UNCHANGED <<now, depositedAt>>
      BY <2>1, <2>5 DEF ExecuteUnlockedOwnerBondWithdrawal
    <3> QED BY <2>1, <3>1 DEF RequestsFresh
  <2>6. CASE Tick \/ Governance \/ Disposition \/ UNCHANGED vars
    <3>1. /\ now' = now \/ now' = now + 1
          /\ UNCHANGED depositedAt
          /\ \A m \in Mints : vault'[m].requestedAt = vault[m].requestedAt
      BY <2>6, OthersKeepRequests DEF historyVars
    <3> QED BY <2>1, <3>1 DEF RequestsFresh
  <2> QED BY <2>2, <2>3, <2>4, <2>5, <2>6 DEF Next, Owner
<1> QED BY <1>1, <1>2, BondInvHolds, PTL DEF Spec

(***************************************************************************)
(* Nothing is withdrawn before the lock has run since the last deposit.    *)
(***************************************************************************)
THEOREM FreshDepositsAreLocked == Spec => DepositsAreLockedIn
<1>1. BondInv /\ RequestsFresh /\ [Next]_vars =>
          [\A m \in Mints : withdrawn'[m] > withdrawn[m]
               => now >= depositedAt[m] + LockSeconds]_vars
  <2> SUFFICES ASSUME BondInv, RequestsFresh, [Next]_vars, NEW m \in Mints,
                      withdrawn'[m] > withdrawn[m]
               PROVE  now >= depositedAt[m] + LockSeconds
    OBVIOUS
  <2>1. /\ vault \in [Mints -> VaultRecord] /\ depositedAt \in [Mints -> Nat] /\ now \in Nat
        /\ withdrawn \in [Mints -> Tokens]
    BY DEF BondInv, TypeOK, ConfigTypes, VaultTypes
  <2>2. withdrawn'[m] # withdrawn[m]
    BY <2>1 DEF Tokens
  <2>3. PICK n \in Mints, a \in Amounts : ExecuteUnlockedOwnerBondWithdrawal(n, a)
    <3>1. Owner
      BY <2>2, OthersKeepRequests DEF Next, historyVars
    <3> QED BY <2>2, <3>1 DEF Owner, OpenOwnerBondVault, RequestOwnerBondWithdrawal,
               DepositOwnerBond, historyVars
  <2>4. withdrawn' = [withdrawn EXCEPT ![n] = @ + a]
    BY <2>3 DEF ExecuteUnlockedOwnerBondWithdrawal
  <2>5. n = m
    BY <2>1, <2>2, <2>4
  <2>6. vault[m].requestedAt > 0 /\ now >= vault[m].requestedAt + LockSeconds
    BY <2>3, <2>5 DEF ExecuteUnlockedOwnerBondWithdrawal
  <2>7. vault[m].requestedAt \in Nat /\ depositedAt[m] \in Nat
    BY <2>1 DEF VaultRecord
  <2>8. depositedAt[m] <= vault[m].requestedAt
    BY <2>6, <2>7 DEF RequestsFresh, NotRequested
  <2> QED BY <2>1, <2>6, <2>7, <2>8, BondAssumption
<1> QED BY <1>1, BondInvHolds, RequestsFreshHolds, PTL DEF Spec, DepositsAreLockedIn

-----------------------------------------------------------------------------
(* The escrow. *)

\* Vaults without a balance and cases not opened are an escrow without claims.
LEMMA EscrowInit == Init => Escrow!Init
<1> SUFFICES ASSUME Init PROVE Escrow!Init
  OBVIOUS
<1>1. Free = [m \in Mints |-> 0] /\ Paid = [m \in Mints |-> 0]
  BY DEF Init, Free, Paid, NoVault, NoExposure
<1>2. Held = [c \in Cases |-> 0] /\ Pot = [c \in Cases |-> None]
  BY DEF Init, Held, Pot, NoCase
<1>3. Stage = [c \in Cases |-> "none"]
  BY DEF Init, Stage, StageOf, NoCase
<1> QED BY <1>1, <1>2, <1>3 DEF Escrow!Init

\* What an owner's instruction does to balances: it adds to one or takes what is free.
LEMMA EscrowOwner ==
    ASSUME LedgerInv, Owner
    PROVE  \/ UNCHANGED <<Free, Held, Paid, Stage, Pot>>
           \/ \E m \in Mints : Escrow!Deposit(m) \/ Escrow!Withdraw(m)
<1>1. /\ vault \in [Mints -> VaultRecord] /\ exposure \in [Mints -> ExposureRecord]
  BY DEF LedgerInv, BondInv, TypeOK, VaultTypes
<1>2. UNCHANGED <<Held, Stage, Pot>>
  BY DEF Owner, OpenOwnerBondVault, RequestOwnerBondWithdrawal, DepositOwnerBond,
     ExecuteUnlockedOwnerBondWithdrawal, Held, Stage, Pot
<1>3. exposure' = exposure \/ \E n \in Mints : exposure' = [exposure EXCEPT ![n].known = TRUE]
  BY DEF Owner, OpenOwnerBondVault, RequestOwnerBondWithdrawal, DepositOwnerBond,
     ExecuteUnlockedOwnerBondWithdrawal
<1>4. \A n \in Mints : /\ exposure'[n].locked = exposure[n].locked
                       /\ exposure'[n].routed = exposure[n].routed
  BY <1>1, <1>3 DEF ExposureRecord
<1>5. UNCHANGED Paid
  BY <1>4 DEF Paid
<1>6. PICK m \in Mints :
          \/ OpenOwnerBondVault(m) \/ RequestOwnerBondWithdrawal(m)
          \/ \E a \in Amounts : \/ DepositOwnerBond(m, a)
                                \/ ExecuteUnlockedOwnerBondWithdrawal(m, a)
  BY DEF Owner
<1>7. /\ vault[m].bond \in Nat /\ exposure[m].locked \in Nat
      /\ exposure[m].locked <= vault[m].bond
  BY <1>1 DEF VaultRecord, ExposureRecord, Tokens, LedgerInv, BondInv, LockedIsCovered
<1>8. CASE OpenOwnerBondVault(m) \/ RequestOwnerBondWithdrawal(m)
  <2>1. \A n \in Mints : vault'[n].bond = vault[n].bond
    BY <1>1, <1>8 DEF OpenOwnerBondVault, RequestOwnerBondWithdrawal, VaultRecord
  <2>2. UNCHANGED Free
    BY <1>4, <2>1 DEF Free
  <2> QED BY <1>2, <1>5, <2>2
<1>9. ASSUME NEW a \in Amounts, DepositOwnerBond(m, a) PROVE Escrow!Deposit(m)
  <2>1. vault' = [vault EXCEPT ![m].bond = @ + a, ![m].requestedAt = 0]
    BY <1>9 DEF DepositOwnerBond, RequestAfterDeposit, NotRequested
  <2>2. /\ vault'[m].bond = vault[m].bond + a
        /\ \A n \in Mints \ {m} : vault'[n].bond = vault[n].bond
    BY <1>1, <2>1 DEF VaultRecord
  <2>3. /\ Free'[m] = Free[m] + a /\ \A n \in Mints \ {m} : Free'[n] = Free[n]
        /\ Free[m] \in Nat /\ a \in Nat /\ a > 0
    BY <1>4, <1>7, <2>2 DEF Free, Amounts
  <2>4. Free'[m] > Free[m]
    BY <2>3
  <2>5. Free' = [Free EXCEPT ![m] = Free'[m]]
    <3>1. Free' = [n \in Mints |-> Free'[n]] /\ DOMAIN Free = Mints
      BY DEF Free
    <3> QED BY <2>3, <3>1
  <2> QED BY <1>2, <1>5, <2>4, <2>5 DEF Escrow!Deposit
<1>10. ASSUME NEW a \in Amounts, ExecuteUnlockedOwnerBondWithdrawal(m, a)
       PROVE  Escrow!Withdraw(m)
  <2>1. a <= vault[m].bond /\ a <= vault[m].bond - exposure[m].locked /\ a \in Nat /\ a > 0
    BY <1>10 DEF ExecuteUnlockedOwnerBondWithdrawal, Withdrawable, Amounts
  <2>2. BondLess(m, a) = vault[m].bond - a
    BY <1>7, <2>1 DEF BondLess, SaturatingSub
  <2>3. /\ vault'[m].bond = vault[m].bond - a
        /\ \A n \in Mints \ {m} : vault'[n].bond = vault[n].bond
    BY <1>1, <1>10, <2>2 DEF ExecuteUnlockedOwnerBondWithdrawal
  <2>4. /\ Free'[m] = Free[m] - a /\ \A n \in Mints \ {m} : Free'[n] = Free[n]
        /\ a \in 1 .. Free[m]
    BY <1>4, <1>7, <2>1, <2>3 DEF Free
  <2>5. Free' = [Free EXCEPT ![m] = @ - a]
    BY <2>4 DEF Free
  <2> QED BY <1>2, <1>5, <2>4, <2>5 DEF Escrow!Withdraw
<1> QED BY <1>6, <1>8, <1>9, <1>10

\* Opening, ruling and forfeiting: a claim is made or condemned, no token moves.
LEMMA EscrowCase ==
    ASSUME LedgerInv, NEW c \in Cases,
           \/ RecordBondDispositionEvidence(c)
           \/ ExecuteBondForfeiture(c)
           \/ \E p \in Policies, m \in Mints, a \in Amounts :
                  OpenBondDispositionCase(c, p, m, a)
    PROVE  \/ UNCHANGED <<Free, Held, Paid, Stage, Pot>>
           \/ Escrow!Claim(c) \/ Escrow!Condemn(c)
<1>1. UNCHANGED <<Free, Paid>>
  BY CaseStep DEF LedgerInv, Free, Paid
<1>2. disposition \in [Cases -> CaseRecord]
  BY DEF LedgerInv, BondInv, TypeOK, CaseTypes
<1>3. CASE RecordBondDispositionEvidence(c)
  <2>1. \A d \in Cases : /\ disposition'[d].status = disposition[d].status
                         /\ disposition'[d].mint = disposition[d].mint
                         /\ disposition'[d].locked = disposition[d].locked
    BY <1>2, <1>3 DEF RecordBondDispositionEvidence, CaseRecord
  <2> QED BY <1>1, <2>1 DEF Held, Stage, Pot
<1>4. CASE ExecuteBondForfeiture(c)
  <2>1. /\ disposition[c].status = "LockedForCase" /\ disposition'[c].status = "Forfeited"
        /\ \A d \in Cases : /\ disposition'[d].mint = disposition[d].mint
                            /\ disposition'[d].locked = disposition[d].locked
        /\ \A d \in Cases \ {c} : disposition'[d].status = disposition[d].status
    BY <1>2, <1>4 DEF ExecuteBondForfeiture, Decidable, CaseRecord
  <2>2. Stage[c] = "held" /\ Stage' = [Stage EXCEPT ![c] = "condemned"]
    BY <2>1 DEF Stage, StageOf
  <2>3. UNCHANGED <<Held, Pot>>
    BY <2>1 DEF Held, Pot
  <2> QED BY <1>1, <2>2, <2>3 DEF Escrow!Condemn
<1>5. ASSUME NEW p \in Policies, NEW m \in Mints, NEW a \in Amounts,
             OpenBondDispositionCase(c, p, m, a)
      PROVE  Escrow!Claim(c)
  <2>1. /\ disposition[c].status = "none" /\ disposition'[c].status = "Unlocked"
        /\ disposition'[c].mint = m /\ disposition'[c].locked = 0
        /\ \A d \in Cases \ {c} : disposition'[d] = disposition[d]
    BY <1>2, <1>5 DEF OpenBondDispositionCase
  <2>2. disposition[c].locked = 0
    BY <2>1 DEF LedgerInv, BondInv, CaseShape
  <2>3. Stage[c] = "none" /\ Stage' = [Stage EXCEPT ![c] = "open"]
    BY <2>1 DEF Stage, StageOf
  <2>4. Pot' = [Pot EXCEPT ![c] = m] /\ UNCHANGED Held
    BY <2>1, <2>2 DEF Pot, Held
  <2> QED BY <1>1, <2>3, <2>4 DEF Escrow!Claim
<1> QED BY <1>3, <1>4, <1>5

\* What LockChanges and unchanged balances mean for the escrow's variables.
LEMMA EscrowLock ==
    ASSUME LedgerInv, NEW c \in Cases, NEW new, LockChanges(c, new),
           UNCHANGED vault, \A n \in Mints : exposure'[n].routed = exposure[n].routed
    PROVE  /\ Free' = [Free EXCEPT ![Pot[c]] = @ + Held[c] - new]
           /\ Held' = [Held EXCEPT ![c] = new]
           /\ UNCHANGED <<Paid, Pot>> /\ Pot[c] \in Mints
<1>1. /\ vault \in [Mints -> VaultRecord] /\ exposure \in [Mints -> ExposureRecord]
      /\ disposition \in [Cases -> CaseRecord]
  BY DEF LedgerInv, BondInv, TypeOK, VaultTypes, CaseTypes
<1> DEFINE m == disposition[c].mint
<1>2. /\ m \in Mints /\ new \in Nat
      /\ disposition'[c].mint = m /\ disposition'[c].locked = new
      /\ \A d \in Cases \ {c} : disposition'[d] = disposition[d]
      /\ exposure'[m].locked = exposure[m].locked - disposition[c].locked + new
      /\ \A n \in Mints \ {m} : exposure'[n].locked = exposure[n].locked
  BY DEF LockChanges
<1> HIDE DEF m
<1>3. /\ vault[m].bond \in Nat /\ exposure[m].locked \in Nat /\ disposition[c].locked \in Nat
  BY <1>1, <1>2 DEF VaultRecord, ExposureRecord, CaseRecord, Tokens
<1>4. Pot[c] = m /\ Held[c] = disposition[c].locked
  BY DEF Pot, Held, m
<1>5. /\ Free'[m] = Free[m] + Held[c] - new
      /\ \A n \in Mints \ {m} : Free'[n] = Free[n]
  BY <1>2, <1>3, <1>4 DEF Free
<1>6. Free' = [Free EXCEPT ![m] = @ + Held[c] - new]
  <2>1. Free' = [n \in Mints |-> Free'[n]] /\ DOMAIN Free = Mints
    BY DEF Free
  <2> QED BY <1>2, <1>5, <2>1
<1>7. Held' = [Held EXCEPT ![c] = new]
  BY <1>2 DEF Held
<1>8. UNCHANGED <<Paid, Pot>>
  BY <1>2 DEF Paid, Pot, m
<1> QED BY <1>2, <1>4, <1>6, <1>7, <1>8

\* A lock is a hold.
LEMMA EscrowHold ==
    ASSUME LedgerInv, NEW c \in Cases, NEW a \in Amounts, LockBondForCase(c, a)
    PROVE  Escrow!Hold(c)
<1> DEFINE m == disposition[c].mint
<1>1. /\ disposition[c].status = "Unlocked"
      /\ exposure[m].locked + a <= vault[m].bond
      /\ disposition' = [disposition EXCEPT ![c].locked = a, ![c].status = "LockedForCase"]
      /\ exposure' = [exposure EXCEPT ![m].known = TRUE, ![m].locked = @ + a]
      /\ UNCHANGED vault
  BY DEF LockBondForCase, Covered
<1>2. /\ vault \in [Mints -> VaultRecord] /\ exposure \in [Mints -> ExposureRecord]
      /\ disposition \in [Cases -> CaseRecord]
  BY DEF LedgerInv, BondInv, TypeOK, VaultTypes, CaseTypes
<1>3. \A n \in Mints : exposure'[n].routed = exposure[n].routed
  BY <1>1, <1>2 DEF ExposureRecord
<1>4. /\ Free' = [Free EXCEPT ![Pot[c]] = @ + Held[c] - a]
      /\ Held' = [Held EXCEPT ![c] = a]
      /\ UNCHANGED <<Paid, Pot>> /\ Pot[c] \in Mints
  BY <1>1, <1>3, LockIsLockChange, EscrowLock DEF LedgerInv
<1>5. Pot[c] = m /\ Held[c] = 0 /\ m \in Mints
  BY <1>1 DEF Pot, Held, LedgerInv, BondInv, CaseShape
<1>6. /\ vault[m].bond \in Nat /\ exposure[m].locked \in Nat /\ a \in Nat /\ a > 0
  BY <1>2, <1>5 DEF VaultRecord, ExposureRecord, Tokens, Amounts
<1> HIDE DEF m
<1>7. a \in 1 .. Free[Pot[c]] /\ Free[Pot[c]] \in Int
  BY <1>1, <1>5, <1>6 DEF Free
<1>8. Free' = [Free EXCEPT ![Pot[c]] = @ - a]
  <2>1. Free[Pot[c]] + Held[c] - a = Free[Pot[c]] - a
    BY <1>5, <1>6, <1>7
  <2> QED BY <1>4, <2>1, Zenon
<1>9. Stage[c] = "open" /\ Stage' = [Stage EXCEPT ![c] = "held"]
  BY <1>1, <1>2 DEF Stage, StageOf, CaseRecord
<1> QED BY <1>4, <1>7, <1>8, <1>9 DEF Escrow!Hold

\* A release is a return.
LEMMA EscrowReturn ==
    ASSUME LedgerInv, NEW c \in Cases, ExecuteBondRelease(c)
    PROVE  Escrow!Return(c)
<1> DEFINE m == disposition[c].mint
<1>1. /\ disposition[c].status = "LockedForCase"
      /\ disposition' = [disposition EXCEPT ![c].locked = 0, ![c].status = "Released"]
      /\ exposure' = [exposure EXCEPT ![m].locked =
                          SaturatingSub(@, disposition[c].locked)]
      /\ UNCHANGED vault
  BY DEF ExecuteBondRelease, ReleasedMint, Decidable
<1>2. /\ vault \in [Mints -> VaultRecord] /\ exposure \in [Mints -> ExposureRecord]
      /\ disposition \in [Cases -> CaseRecord]
  BY DEF LedgerInv, BondInv, TypeOK, VaultTypes, CaseTypes
<1>3. \A n \in Mints : exposure'[n].routed = exposure[n].routed
  BY <1>1, <1>2 DEF ExposureRecord
<1>4. /\ Free' = [Free EXCEPT ![Pot[c]] = @ + Held[c] - 0]
      /\ Held' = [Held EXCEPT ![c] = 0]
      /\ UNCHANGED <<Paid, Pot>> /\ Pot[c] \in Mints
  BY <1>1, <1>3, ReleaseIsLockChange, EscrowLock DEF LedgerInv
<1>5. Held[c] \in Nat /\ Free[Pot[c]] \in Int
  BY <1>2, <1>4 DEF Held, Free, CaseRecord, VaultRecord, ExposureRecord, Tokens
<1>6. Free' = [Free EXCEPT ![Pot[c]] = @ + Held[c]]
  <2>1. Free[Pot[c]] + Held[c] - 0 = Free[Pot[c]] + Held[c]
    BY <1>5
  <2> QED BY <1>4, <2>1, Zenon
<1>7. Stage[c] = "held" /\ Stage' = [Stage EXCEPT ![c] = "returned"]
  BY <1>1, <1>2 DEF Stage, StageOf, CaseRecord
<1> QED BY <1>4, <1>6, <1>7 DEF Escrow!Return

\* A payment of what was forfeited is a payment out of what is held.
LEMMA EscrowPay ==
    ASSUME LedgerInv, NEW c \in Cases, NEW r \in Receipts, NEW a \in Amounts,
           RouteForfeitedBondByPolicy(c, r, a)
    PROVE  Escrow!Pay(c)
<1> DEFINE m == disposition[c].mint
           left == disposition[c].locked - a
<1>1. /\ disposition[c].status = "Forfeited"
      /\ a <= disposition[c].locked /\ a <= vault[m].bond
      /\ vault' = [vault EXCEPT ![m].bond = BondLess(m, a)]
      /\ exposure' = [exposure EXCEPT ![m].locked = LockedAfterRouting(m, a),
                                      ![m].routed = @ + a]
  BY DEF RouteForfeitedBondByPolicy
<1>2. /\ vault \in [Mints -> VaultRecord] /\ exposure \in [Mints -> ExposureRecord]
      /\ disposition \in [Cases -> CaseRecord]
  BY DEF LedgerInv, BondInv, TypeOK, VaultTypes, CaseTypes
<1>3. /\ LockChanges(c, left)
      /\ disposition'[c].status = IF left = 0 THEN "RoutedByPolicy" ELSE "Forfeited"
  BY RouteIsLockChange DEF LedgerInv
<1>4. /\ m \in Mints /\ left \in Nat
      /\ disposition'[c].mint = m /\ disposition'[c].locked = left
      /\ \A d \in Cases \ {c} : disposition'[d] = disposition[d]
      /\ exposure'[m].locked = exposure[m].locked - disposition[c].locked + left
      /\ \A n \in Mints \ {m} : exposure'[n].locked = exposure[n].locked
  BY <1>3 DEF LockChanges
<1>5. /\ vault[m].bond \in Nat /\ exposure[m].locked \in Nat /\ disposition[c].locked \in Nat
      /\ a \in Nat /\ a > 0
  BY <1>2, <1>4 DEF VaultRecord, ExposureRecord, CaseRecord, Tokens, Amounts
<1>6. BondLess(m, a) = vault[m].bond - a
  BY <1>1, <1>5 DEF BondLess, SaturatingSub
<1>7. exposure'[m].locked = exposure[m].locked - a
  BY <1>4, <1>5
<1> HIDE DEF m
<1>8. /\ vault'[m].bond = vault[m].bond - a
      /\ exposure'[m].routed = exposure[m].routed + a
      /\ \A n \in Mints \ {m} : /\ vault'[n].bond = vault[n].bond
                                /\ exposure'[n].routed = exposure[n].routed
  BY <1>1, <1>2, <1>4, <1>6 DEF VaultRecord, ExposureRecord
<1>9. Pot[c] = m /\ Held[c] = disposition[c].locked
  BY DEF Pot, Held, m
<1>10. UNCHANGED <<Free, Pot>>
  <2>1. \A n \in Mints : Free'[n] = Free[n]
    BY <1>4, <1>5, <1>7, <1>8 DEF Free
  <2>2. UNCHANGED Free
    BY <2>1 DEF Free
  <2>3. \A d \in Cases : disposition'[d].mint = disposition[d].mint
    BY <1>4 DEF m
  <2> QED BY <2>2, <2>3 DEF Pot
<1>11. Held' = [Held EXCEPT ![c] = @ - a] /\ a \in 1 .. Held[c]
  <2>1. Held'[c] = Held[c] - a /\ \A d \in Cases \ {c} : Held'[d] = Held[d]
    BY <1>4, <1>9 DEF Held
  <2>2. Held' = [d \in Cases |-> Held'[d]] /\ DOMAIN Held = Cases
    BY DEF Held
  <2>3. Held' = [Held EXCEPT ![c] = @ - a]
    BY <2>1, <2>2
  <2> QED BY <1>1, <1>5, <1>9, <2>3
<1>12. Paid' = [Paid EXCEPT ![Pot[c]] = @ + a]
  BY <1>4, <1>8, <1>9 DEF Paid
<1>13. /\ Stage[c] = "condemned"
       /\ Stage' = [Stage EXCEPT ![c] = IF a = Held[c] THEN "paid" ELSE @]
  <2>1. left = 0 <=> a = Held[c]
    BY <1>5, <1>9
  <2>2. Stage[c] = "condemned"
    BY <1>1 DEF Stage, StageOf
  <2>3. Stage'[c] = IF a = Held[c] THEN "paid" ELSE "condemned"
    BY <1>3, <2>1 DEF Stage, StageOf
  <2>4. \A d \in Cases \ {c} : Stage'[d] = Stage[d]
    BY <1>4 DEF Stage
  <2>5. Stage' = [d \in Cases |-> Stage'[d]] /\ DOMAIN Stage = Cases
    BY DEF Stage
  <2> QED BY <2>2, <2>3, <2>4, <2>5
<1> QED BY <1>10, <1>11, <1>12, <1>13 DEF Escrow!Pay

(***************************************************************************)
(* The program implements the escrow: every instruction is a step of it or *)
(* leaves balances, locks and claims as they are.                          *)
(***************************************************************************)
THEOREM BondsAreEscrow == Spec => ImplementsEscrow
<1>1. Init => Escrow!Init
  BY EscrowInit
<1>2. LedgerInv /\ [Next]_vars => [Escrow!Next]_(Escrow!vars)
  <2> SUFFICES ASSUME LedgerInv, [Next]_vars
               PROVE  Escrow!Next \/ UNCHANGED <<Free, Held, Paid, Stage, Pot>>
    BY DEF Escrow!vars
  <2>1. CASE Tick \/ Governance \/ RecordRiskDisclaimerAcceptance \/ UNCHANGED vars
    <3>1. /\ UNCHANGED disposition
          /\ \A m \in Mints : /\ vault'[m] = vault[m]
                              /\ exposure'[m].locked = exposure[m].locked
                              /\ exposure'[m].routed = exposure[m].routed
      BY <2>1, ConfigStep DEF LedgerInv
    <3> QED BY <3>1 DEF Free, Held, Paid, Stage, Pot
  <2>2. CASE Owner
    BY <2>2, EscrowOwner DEF Escrow!Next
  <2>3. CASE Disposition
    BY <2>1, <2>3, EscrowCase, EscrowHold, EscrowReturn, EscrowPay
       DEF Disposition, Escrow!Next
  <2> QED BY <2>1, <2>2, <2>3 DEF Next
<1> QED BY <1>1, <1>2, LedgerInvHolds, PTL DEF Spec, ImplementsEscrow, Escrow!Spec

(***************************************************************************)
(* In every state, whatever the order of the instructions, the books of a  *)
(* program account balance: the five accounts of its tokens together.      *)
(***************************************************************************)
THEOREM BooksAlwaysBalance == Spec => []BooksBalance
<1>1. /\ LockedIsSum /\ LockedIsCovered /\ Conserved /\ WithinRequest /\ RoutedIsReceipted
      => BooksBalance
  BY DEF BooksBalance
<1> QED
  BY <1>1, LockTotalIsSum, LockedCovered, TokensConserved, CasesWithinRequest,
     RoutingIsReceipted, PTL
=============================================================================
