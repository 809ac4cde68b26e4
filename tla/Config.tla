------------------------------- MODULE Config -------------------------------
(***************************************************************************)
(* The protocol configuration of the DEX program: the one account          *)
(* [b"config"] that holds the admin, the nominated admin, the treasury and *)
(* the pool-creation mode (program/src/config.rs and the five handlers of  *)
(* program/src/processor.rs that write it).                                *)
(*                                                                         *)
(* A handler that returns Err reverts its transaction, so a rejected call  *)
(* is no step.  A key signs only its own instructions; the zero key        *)
(* (Default, Pubkey::default()) has no private key and signs nothing.      *)
(***************************************************************************)
EXTENDS Integers

CONSTANTS Keys,                \* wallets and external_auth PDAs
          Default,             \* Pubkey::default()
          UpgradeAuthority     \* the key ProgramData names, or Default when
                               \* the program is immutable
ASSUME ConfigAssumption ==
  /\ Default \notin Keys
  /\ UpgradeAuthority \in Keys \cup {Default}

VARIABLE config

AdminOnly == 0
Permissionless == 1
Modes == {AdminOnly, Permissionless}

\* An absent account and a foreign-owned one are alike to load_config.
NoConfig == [version |-> 0]

ProtocolConfig ==
  [version      : {1},
   admin        : Keys,
   pendingAdmin : Keys \cup {Default},
   treasury     : Keys,
   mode         : Modes]

ConfigLoads == config.version = 1
IsPermissionless == config.mode = Permissionless

ConfigInit == config = NoConfig

-----------------------------------------------------------------------------
InitializeConfig(authority, admin, treasury, mode) ==
  /\ config = NoConfig
  /\ UpgradeAuthority # Default                      \* ImmutableProgram
  /\ authority = UpgradeAuthority
  /\ admin # Default /\ treasury # Default
  /\ mode <= Permissionless
  /\ config' = [version |-> 1, admin |-> admin, pendingAdmin |-> Default,
                treasury |-> treasury, mode |-> mode]

\* Mutant: the zero-key check forgotten.
SetTreasuryUnchecked(signer, treasury) ==
  /\ ConfigLoads /\ signer = config.admin
  /\ config' = [config EXCEPT !.treasury = treasury]

SetTreasury(signer, treasury) ==
  /\ ConfigLoads
  /\ signer = config.admin
  /\ treasury # Default
  /\ config' = [config EXCEPT !.treasury = treasury]

\* Step one of two.  Nominating Default withdraws the nomination.
TransferAdmin(signer, pending) ==
  /\ ConfigLoads
  /\ signer = config.admin
  /\ config' = [config EXCEPT !.pendingAdmin = pending]

\* Mutant: the nomination survives its acceptance.
AcceptAdminKeepsNomination(signer) ==
  /\ ConfigLoads /\ signer = config.pendingAdmin
  /\ config' = [config EXCEPT !.admin = signer]

AcceptAdmin(signer) ==
  /\ ConfigLoads
  /\ config.pendingAdmin # Default
  /\ signer = config.pendingAdmin
  /\ config' = [config EXCEPT !.admin = signer, !.pendingAdmin = Default]

SetPoolCreation(signer, mode) ==
  /\ ConfigLoads
  /\ signer = config.admin
  /\ mode <= Permissionless
  /\ config' = [config EXCEPT !.mode = mode]

\* Instruction data is any key, the zero key included, and any mode byte:
\* 2 stands for every byte above MODE_PERMISSIONLESS.
ModeBytes == 0 .. 2
AnyKey == Keys \cup {Default}

ConfigStep ==
  \E signer \in Keys :
    \/ \E admin, treasury \in AnyKey, mode \in ModeBytes :
         InitializeConfig(signer, admin, treasury, mode)
    \/ \E treasury \in AnyKey : SetTreasury(signer, treasury)
    \/ \E pending \in AnyKey : TransferAdmin(signer, pending)
    \/ AcceptAdmin(signer)
    \/ \E mode \in ModeBytes : SetPoolCreation(signer, mode)

ConfigSpec == ConfigInit /\ [][ConfigStep]_config

-----------------------------------------------------------------------------
\* The account is absent, or holds real keys for the admin and the treasury
\* and a mode that is one of the two: the zero key never becomes an authority
\* and no third mode byte is ever stored.
ConfigTypeOK == config = NoConfig \/ config \in ProtocolConfig

\* The admin changes only by the hand-over of the nomination that stood in the
\* account: the nominee becomes admin and the nomination is used up.  Replacing
\* or withdrawing a nomination leaves the former nominee without a way in.
AdminHandover ==
  [][ (config # NoConfig /\ config'.admin # config.admin) =>
        /\ config.pendingAdmin # Default
        /\ config'.admin = config.pendingAdmin
        /\ config'.pendingAdmin = Default
        /\ config'.treasury = config.treasury /\ config'.mode = config.mode
    ]_config
=============================================================================
