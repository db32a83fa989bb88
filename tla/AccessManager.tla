----------------------------- MODULE AccessManager -----------------------------
(***************************************************************************)
(* The access manager program of Solana and what depends on it: who may    *)
(* administer an IBC program, and who may replace its code.  Several       *)
(* access managers can be deployed; a program names the one that governs   *)
(* it and can be moved to another, and the upgrade authority of a program  *)
(* can be moved too, each in two steps (propose, accept).                  *)
(*                                                                         *)
(* An instruction that fails changes nothing: it is not enabled.           *)
(***************************************************************************)
EXTENDS Integers, FiniteSets

CONSTANTS
    Managers,              \* deployed access manager programs
    Programs,              \* the IBC programs they govern
    Accounts,              \* keys and multisigs
    Via,                   \* [account]: the program it calls through, or Direct
    Direct,
    Roles,
    ADMIN_ROLE,
    MAX_MEMBERS,           \* bound of RoleData.members
    MAX_PENDING_TRANSFERS,
    None

ASSUME AccessAssumption ==
    /\ ADMIN_ROLE \in Roles
    /\ None \notin Managers \cup Accounts
    /\ Managers \cap Accounts = {}

VARIABLES
    initialized,           \* the managers whose AccessManager account exists
    members,               \* [manager][role]: RoleData.members
    whitelisted_programs,  \* [manager]
    pending,               \* [manager][program]: pending_authority_transfers
    authority,             \* [program]: its upgrade authority; a manager stands
                           \* for the address it derives for the program
    access_manager,        \* [program]: AccessManagerState.access_manager
    pending_access_manager \* [program]

Addresses == Managers \cup Accounts
Callers == {Via[a] : a \in Accounts} \ {Direct}

roleVars == <<initialized, members, whitelisted_programs>>
vars == <<roleVars, pending, authority, access_manager, pending_access_manager>>

Init ==
    /\ initialized = {}
    /\ members = [m \in Managers |-> [role \in Roles |-> {}]]
    /\ whitelisted_programs = [m \in Managers |-> {}]
    /\ pending = [m \in Managers |-> [p \in Programs |-> None]]
    /\ authority \in [Programs -> Accounts]
    /\ access_manager = [p \in Programs |-> None]
    /\ pending_access_manager = [p \in Programs |-> None]

-----------------------------------------------------------------------------
\* require_direct_call_or_whitelisted_caller
MayCall(m, caller) == Via[caller] \in {Direct} \cup whitelisted_programs[m]

require_admin(m, caller) ==
    /\ m \in initialized
    /\ MayCall(m, caller)
    /\ caller \in members[m][ADMIN_ROLE]

\* Signed by whoever deployed the manager.
initialize(m, admin) ==
    /\ m \notin initialized
    /\ initialized' = initialized \cup {m}
    /\ members' = [members EXCEPT ![m][ADMIN_ROLE] = {admin}]
    /\ UNCHANGED <<whitelisted_programs, pending, authority, access_manager, pending_access_manager>>

grant_role(m, caller, role, account) ==
    /\ require_admin(m, caller)
    /\ Cardinality(members[m][role] \cup {account}) <= MAX_MEMBERS
    /\ members' = [members EXCEPT ![m][role] = @ \cup {account}]
    /\ UNCHANGED <<initialized, whitelisted_programs, pending, authority, access_manager, pending_access_manager>>

\* Mutant: the check for the last administrator is missing.
remove_any_member(m, role, account) ==
    /\ account \in members[m][role]
    /\ members' = [members EXCEPT ![m][role] = @ \ {account}]
    /\ UNCHANGED <<initialized, whitelisted_programs, pending, authority, access_manager, pending_access_manager>>
\* AccessManager::revoke_role
remove_member(m, role, account) ==
    /\ ~(role = ADMIN_ROLE /\ members[m][role] = {account})
    /\ account \in members[m][role]
    /\ members' = [members EXCEPT ![m][role] = @ \ {account}]
    /\ UNCHANGED <<initialized, whitelisted_programs, pending, authority, access_manager, pending_access_manager>>

revoke_role(m, caller, role, account) ==
    require_admin(m, caller) /\ remove_member(m, role, account)

renounce_role(m, caller, role) ==
    m \in initialized /\ MayCall(m, caller) /\ remove_member(m, role, caller)

set_whitelisted_programs(m, caller, programs) ==
    /\ require_admin(m, caller)
    /\ whitelisted_programs' = [whitelisted_programs EXCEPT ![m] = programs]
    /\ UNCHANGED <<initialized, members, pending, authority, access_manager, pending_access_manager>>

-----------------------------------------------------------------------------
(***************************************************************************)
(* transfer_upgrade_authority.rs, claim_upgrade_authority.rs.  A proposal  *)
(* does not ask whether the manager holds the authority; accepting it does,*)
(* because the loader only obeys the current authority.                    *)
(***************************************************************************)
propose_upgrade_authority_transfer(m, caller, p, newAuthority) ==
    /\ require_admin(m, caller)
    /\ newAuthority # m
    /\ Cardinality({q \in Programs : pending[m][q] # None}) < MAX_PENDING_TRANSFERS
    /\ pending[m][p] = None
    /\ pending' = [pending EXCEPT ![m][p] = newAuthority]
    /\ UNCHANGED <<roleVars, authority, access_manager, pending_access_manager>>

\* The signer is a key, or the address of the manager that claims it.
accept_upgrade_authority_transfer(m, p, signer) ==
    /\ m \in initialized
    /\ pending[m][p] = signer
    /\ authority[p] = m
    /\ authority' = [authority EXCEPT ![p] = signer]
    /\ pending' = [pending EXCEPT ![m][p] = None]
    /\ UNCHANGED <<roleVars, access_manager, pending_access_manager>>

claim_upgrade_authority(m, caller, source, p) ==
    require_admin(m, caller) /\ accept_upgrade_authority_transfer(source, p, m)

cancel_upgrade_authority_transfer(m, caller, p) ==
    /\ require_admin(m, caller)
    /\ pending[m][p] # None
    /\ pending' = [pending EXCEPT ![m][p] = None]
    /\ UNCHANGED <<roleVars, authority, access_manager, pending_access_manager>>

\* External: the key that holds the authority of a program gives it to a
\* manager; the loader does not ask whether that manager is set up.
HandOver(p, m) ==
    /\ authority[p] \in Accounts
    /\ authority' = [authority EXCEPT ![p] = m]
    /\ UNCHANGED <<roleVars, pending, access_manager, pending_access_manager>>

\* initialize of an IBC program, signed by its upgrade authority.  Any address
\* is taken for the access manager, set up or not, a manager or not.
initialize_program(p, address) ==
    /\ access_manager[p] = None
    /\ authority[p] \in Accounts
    /\ access_manager' = [access_manager EXCEPT ![p] = address]
    /\ UNCHANGED <<roleVars, pending, authority, pending_access_manager>>

-----------------------------------------------------------------------------
(***************************************************************************)
(* helpers/access_manager_transfer.rs, the same in every IBC program.      *)
(***************************************************************************)
propose_access_manager_transfer(p, caller, newManager) ==
    /\ access_manager[p] # None /\ require_admin(access_manager[p], caller)
    /\ newManager # access_manager[p]
    /\ pending_access_manager[p] = None
    /\ pending_access_manager' = [pending_access_manager EXCEPT ![p] = newManager]
    /\ UNCHANGED <<roleVars, pending, authority, access_manager>>

accept_access_manager_transfer(p, caller) ==
    /\ pending_access_manager[p] # None
    /\ require_admin(pending_access_manager[p], caller)
    /\ access_manager' = [access_manager EXCEPT ![p] = pending_access_manager[p]]
    /\ pending_access_manager' = [pending_access_manager EXCEPT ![p] = None]
    /\ UNCHANGED <<roleVars, pending, authority>>

cancel_access_manager_transfer(p, caller) ==
    /\ access_manager[p] # None /\ require_admin(access_manager[p], caller)
    /\ pending_access_manager[p] # None
    /\ pending_access_manager' = [pending_access_manager EXCEPT ![p] = None]
    /\ UNCHANGED <<roleVars, pending, authority, access_manager>>

-----------------------------------------------------------------------------
RoleStep ==
    \E m \in Managers, caller \in Accounts :
        \/ initialize(m, caller)
        \/ \E role \in Roles :
               \/ renounce_role(m, caller, role)
               \/ \E account \in Accounts :
                      grant_role(m, caller, role, account) \/ revoke_role(m, caller, role, account)
        \/ \E programs \in SUBSET Callers :
               set_whitelisted_programs(m, caller, programs)

AuthorityStep ==
    \E m \in Managers, p \in Programs :
        \/ HandOver(p, m)
        \/ \E caller \in Accounts :
               \/ \E newAuthority \in Addresses :
                      propose_upgrade_authority_transfer(m, caller, p, newAuthority)
               \/ accept_upgrade_authority_transfer(m, p, caller)
               \/ cancel_upgrade_authority_transfer(m, caller, p)
               \/ \E source \in Managers : claim_upgrade_authority(m, caller, source, p)

ManagerStep ==
    \E p \in Programs :
        \/ \E address \in Addresses : initialize_program(p, address)
        \/ \E caller \in Accounts :
               \/ \E address \in Addresses : propose_access_manager_transfer(p, caller, address)
               \/ accept_access_manager_transfer(p, caller)
               \/ cancel_access_manager_transfer(p, caller)

Next == RoleStep \/ AuthorityStep \/ ManagerStep

Spec == Init /\ [][Next]_vars

-----------------------------------------------------------------------------
\* Type correctness of the accounts.
TypeOK ==
    /\ initialized \subseteq Managers
    /\ members \in [Managers -> [Roles -> SUBSET Accounts]]
    /\ whitelisted_programs \in [Managers -> SUBSET Callers]
    /\ pending \in [Managers -> [Programs -> Addresses \cup {None}]]
    /\ authority \in [Programs -> Addresses]
    /\ access_manager \in [Programs -> Addresses \cup {None}]
    /\ pending_access_manager \in [Programs -> Addresses \cup {None}]

Administered(m) == m \in initialized /\ members[m][ADMIN_ROLE] # {}

\* No program is stranded: an access manager that has an administrator keeps
\* one, a program that such a manager governs is from then on governed by such a
\* manager, and an upgrade authority that such a manager holds is from then on
\* held by such a manager or by a key, through any sequence of grants,
\* revocations, renunciations and transfers (state.rs:104-134,
\* access_manager_transfer.rs:61-89, claim_upgrade_authority.rs:80-118).  What a
\* deployer first chooses is not checked by the code and may be anything.
NoProgramStranded ==
    [][/\ \A m \in Managers : Administered(m) => Administered(m)'
       /\ \A p \in Programs :
             /\ Administered(access_manager[p]) => Administered(access_manager[p])'
             /\ Administered(authority[p]) =>
                    authority'[p] \in Accounts \/ Administered(authority[p])']_vars

=============================================================================
