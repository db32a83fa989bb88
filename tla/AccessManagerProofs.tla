-------------------------- MODULE AccessManagerProofs --------------------------
(***************************************************************************)
(* No program is stranded, for any number of managers, programs and        *)
(* accounts.  The argument: a manager that has an administrator keeps one  *)
(* whatever its administrators do, and a program moves only to a key or to *)
(* a manager one of whose administrators takes part in the move.           *)
(***************************************************************************)
EXTENDS AccessManager, TLAPS

\* The managers are well typed when they are set up.
LEMMA TypeInit == Init => TypeOK
BY DEF Init, TypeOK, Addresses

\* A step of a manager keeps the types.
LEMMA TypeRoles == TypeOK /\ RoleStep => TypeOK'
<1>1. SUFFICES ASSUME TypeOK, RoleStep PROVE TypeOK'
  OBVIOUS
<1>2. PICK m \in Managers, caller \in Accounts :
          \/ initialize(m, caller)
          \/ \E role \in Roles :
                 \/ renounce_role(m, caller, role)
                 \/ \E account \in Accounts :
                        grant_role(m, caller, role, account) \/ revoke_role(m, caller, role, account)
          \/ \E programs \in SUBSET Callers :
                 set_whitelisted_programs(m, caller, programs)
  BY <1>1, Zenon DEF RoleStep
<1>3. CASE initialize(m, caller)
  BY <1>1, <1>2, <1>3, AccessAssumption DEF TypeOK, initialize
<1>4. ASSUME NEW role \in Roles, NEW account \in Accounts, grant_role(m, caller, role, account)
      PROVE  TypeOK'
  BY <1>1, <1>2, <1>4 DEF TypeOK, grant_role
<1>5. ASSUME NEW role \in Roles, NEW account \in Accounts, remove_member(m, role, account)
      PROVE  TypeOK'
  BY <1>1, <1>2, <1>5 DEF TypeOK, remove_member
<1>6. ASSUME NEW programs \in SUBSET Callers, set_whitelisted_programs(m, caller, programs)
      PROVE  TypeOK'
  BY <1>1, <1>2, <1>6 DEF TypeOK, set_whitelisted_programs
<1> QED
  BY <1>2, <1>3, <1>4, <1>5, <1>6, Zenon DEF renounce_role, revoke_role

\* A manager that has an administrator keeps one (state.rs:104-134).
LEMMA AdministeredStays ==
    ASSUME TypeOK, RoleStep, NEW n \in Managers, Administered(n)
    PROVE  Administered(n)'
<1>2. PICK m \in Managers, caller \in Accounts :
          \/ initialize(m, caller)
          \/ \E role \in Roles :
                 \/ renounce_role(m, caller, role)
                 \/ \E account \in Accounts :
                        grant_role(m, caller, role, account) \/ revoke_role(m, caller, role, account)
          \/ \E programs \in SUBSET Callers :
                 set_whitelisted_programs(m, caller, programs)
  BY Zenon DEF RoleStep
<1>3. CASE initialize(m, caller)
  BY <1>2, <1>3, AccessAssumption DEF TypeOK, initialize, Administered
<1>4. ASSUME NEW role \in Roles, NEW account \in Accounts, grant_role(m, caller, role, account)
      PROVE  Administered(n)'
  BY <1>2, <1>4, AccessAssumption DEF TypeOK, grant_role, Administered
<1>5. ASSUME NEW role \in Roles, NEW account \in Accounts, remove_member(m, role, account)
      PROVE  Administered(n)'
  BY <1>2, <1>5, AccessAssumption DEF TypeOK, remove_member, Administered
<1>6. ASSUME NEW programs \in SUBSET Callers, set_whitelisted_programs(m, caller, programs)
      PROVE  Administered(n)'
  BY <1>2, <1>6 DEF TypeOK, set_whitelisted_programs, Administered
<1> QED
  BY <1>2, <1>3, <1>4, <1>5, <1>6, Zenon DEF renounce_role, revoke_role

\* What a step of a program may not do: leave it without an administrator.
Kept(p) ==
    /\ Administered(access_manager[p]) => Administered(access_manager[p])'
    /\ Administered(authority[p]) => authority'[p] \in Accounts \/ Administered(authority[p])'

\* A step of a manager moves no program, and the manager keeps its administrators.
LEMMA RolesKeep ==
    ASSUME TypeOK, RoleStep
    PROVE  /\ \A m \in Managers : Administered(m) => Administered(m)'
           /\ \A p \in Programs : Kept(p)
<1>1. authority' = authority /\ access_manager' = access_manager
  <2>1. ASSUME NEW m, NEW a,
               \/ initialize(m, a)
               \/ \E role : renounce_role(m, a, role)
               \/ \E role, b : grant_role(m, a, role, b) \/ revoke_role(m, a, role, b)
               \/ \E programs : set_whitelisted_programs(m, a, programs)
        PROVE  authority' = authority /\ access_manager' = access_manager
    BY <2>1, Zenon DEF initialize, renounce_role, grant_role, revoke_role, remove_member,
                       set_whitelisted_programs
  <2>2. QED
    BY <2>1, Zenon DEF RoleStep
<1>2. \A m : Administered(m) => m \in Managers
  BY Zenon DEF TypeOK, Administered
<1>3. \A m : Administered(m) => Administered(m)'
  BY <1>2, AdministeredStays, Zenon
<1>4. ASSUME NEW p \in Programs PROVE Kept(p)
  <2>1. Administered(access_manager[p]) => Administered(access_manager[p])'
    BY <1>1, <1>3, Zenon DEF Administered
  <2>2. Administered(authority[p]) => Administered(authority[p])'
    BY <1>1, <1>3, Zenon DEF Administered
  <2>3. QED
    BY <2>1, <2>2, Zenon DEF Kept
<1> QED
  BY <1>3, <1>4, Zenon

\* Managers keep their administrators while programs move.
LEMMA SameRoles ==
    ASSUME roleVars' = roleVars
    PROVE  \A m : Administered(m) <=> (m \in initialized' /\ members'[m][ADMIN_ROLE] # {})
BY DEF roleVars, Administered

\* A program that does not move is kept.
LEMMA Stays ==
    ASSUME roleVars' = roleVars, NEW p, access_manager'[p] = access_manager[p],
           authority'[p] = authority[p]
    PROVE  Kept(p)
<1>1. Administered(access_manager[p]) => Administered(access_manager[p])'
  BY SameRoles, Zenon DEF Administered
<1>2. Administered(authority[p]) => Administered(authority[p])'
  BY SameRoles, Zenon DEF Administered
<1> QED
  BY <1>1, <1>2, Zenon DEF Kept

\* The upgrade authority goes to a key, or to a manager whose administrator asks
\* for it (claim_upgrade_authority.rs:80-118).
LEMMA AuthorityKeeps ==
    ASSUME TypeOK, AuthorityStep
    PROVE  TypeOK' /\ roleVars' = roleVars /\ \A p \in Programs : Kept(p)
<1>1. PICK m \in Managers, p \in Programs :
          \/ HandOver(p, m)
          \/ \E caller \in Accounts :
                 \/ \E newAuthority \in Addresses :
                        propose_upgrade_authority_transfer(m, caller, p, newAuthority)
                 \/ accept_upgrade_authority_transfer(m, p, caller)
                 \/ cancel_upgrade_authority_transfer(m, caller, p)
                 \/ \E source \in Managers : claim_upgrade_authority(m, caller, source, p)
  BY Zenon DEF AuthorityStep
<1> DEFINE Goal == TypeOK' /\ roleVars' = roleVars /\ \A q \in Programs : Kept(q)
<1>2. CASE HandOver(p, m)
  <2>1. TypeOK'
    BY <1>1, <1>2 DEF TypeOK, HandOver, roleVars, Addresses
  <2>2. /\ roleVars' = roleVars /\ access_manager' = access_manager
        /\ authority[p] \in Accounts /\ authority' = [authority EXCEPT ![p] = m]
    BY <1>2, Zenon DEF HandOver
  <2>3. ~Administered(authority[p])
    BY <2>2, AccessAssumption DEF Administered, TypeOK
  <2>4. \A q \in Programs : q # p => authority'[q] = authority[q]
    BY <2>2 DEF TypeOK
  <2>5. Kept(p)
    <3>1. Administered(access_manager[p]) => Administered(access_manager[p])'
      BY <2>2, SameRoles, Zenon DEF Administered
    <3>2. QED
      BY <2>3, <3>1, Zenon DEF Kept
  <2>6. QED
    BY <2>1, <2>2, <2>4, <2>5, Stays, Zenon
<1>3. ASSUME NEW caller \in Accounts, NEW newAuthority \in Addresses,
             propose_upgrade_authority_transfer(m, caller, p, newAuthority)
      PROVE  Goal
  <2>1. TypeOK'
    BY <1>1, <1>3 DEF TypeOK, propose_upgrade_authority_transfer, roleVars
  <2>2. roleVars' = roleVars /\ access_manager' = access_manager /\ authority' = authority
    BY <1>3, Zenon DEF propose_upgrade_authority_transfer
  <2>3. QED
    BY <2>1, <2>2, Stays, Zenon
<1>4. ASSUME NEW caller \in Accounts, cancel_upgrade_authority_transfer(m, caller, p)
      PROVE  Goal
  <2>1. TypeOK'
    BY <1>1, <1>4 DEF TypeOK, cancel_upgrade_authority_transfer, roleVars
  <2>2. roleVars' = roleVars /\ access_manager' = access_manager /\ authority' = authority
    BY <1>4, Zenon DEF cancel_upgrade_authority_transfer
  <2>3. QED
    BY <2>1, <2>2, Stays, Zenon
<1>5. ASSUME NEW n \in Managers, NEW signer \in Addresses, accept_upgrade_authority_transfer(n, p, signer),
             signer \in Accounts \/ Administered(signer)
      PROVE  Goal
  <2>1. TypeOK'
    BY <1>1, <1>5 DEF TypeOK, accept_upgrade_authority_transfer, roleVars
  <2>2. /\ roleVars' = roleVars /\ access_manager' = access_manager
        /\ authority' = [authority EXCEPT ![p] = signer]
    BY <1>5, Zenon DEF accept_upgrade_authority_transfer
  <2>3. authority'[p] = signer /\ \A q \in Programs : q # p => authority'[q] = authority[q]
    BY <1>1, <2>2 DEF TypeOK
  <2>4. Kept(p)
    <3>1. Administered(access_manager[p]) => Administered(access_manager[p])'
      BY <2>2, SameRoles, Zenon DEF Administered
    <3>2. authority'[p] \in Accounts \/ Administered(authority[p])'
      BY <1>5, <2>2, <2>3, SameRoles, Zenon DEF Administered
    <3>3. QED
      BY <3>1, <3>2, Zenon DEF Kept
  <2>5. QED
    BY <2>1, <2>2, <2>3, <2>4, Stays, Zenon
<1>6. ASSUME NEW caller \in Accounts, accept_upgrade_authority_transfer(m, p, caller)
      PROVE  Goal
  BY <1>5, <1>6, Zenon DEF Addresses
<1>7. ASSUME NEW caller \in Accounts, NEW source \in Managers,
             claim_upgrade_authority(m, caller, source, p)
      PROVE  Goal
  <2>1. Administered(m)
    BY <1>7 DEF claim_upgrade_authority, require_admin, Administered
  <2>2. QED
    BY <1>5, <1>7, <2>1, Zenon DEF claim_upgrade_authority, Addresses
<1> QED
  BY <1>1, <1>2, <1>3, <1>4, <1>6, <1>7, Zenon

\* A program follows a new access manager when an administrator of that manager
\* accepts (access_manager_transfer.rs:61-89).
LEMMA ManagerKeeps ==
    ASSUME TypeOK, ManagerStep
    PROVE  TypeOK' /\ roleVars' = roleVars /\ \A p \in Programs : Kept(p)
<1>1. PICK p \in Programs :
          \/ \E address \in Addresses : initialize_program(p, address)
          \/ \E caller \in Accounts :
                 \/ \E address \in Addresses : propose_access_manager_transfer(p, caller, address)
                 \/ accept_access_manager_transfer(p, caller)
                 \/ cancel_access_manager_transfer(p, caller)
  BY Zenon DEF ManagerStep
<1> DEFINE Goal == TypeOK' /\ roleVars' = roleVars /\ \A q \in Programs : Kept(q)
<1>2. ASSUME NEW address \in Addresses, roleVars' = roleVars, authority' = authority, TypeOK',
             access_manager' = [access_manager EXCEPT ![p] = address],
             access_manager[p] = None \/ Administered(address)
      PROVE  Goal
  <2>1. access_manager'[p] = address /\ \A q \in Programs : q # p => access_manager'[q] = access_manager[q]
    BY <1>1, <1>2 DEF TypeOK
  <2>2. ~Administered(None)
    BY AccessAssumption DEF Administered, TypeOK
  <2>3. Kept(p)
    <3>1. Administered(access_manager[p]) => Administered(access_manager[p])'
      BY <1>2, <2>1, <2>2, SameRoles, Zenon DEF Administered
    <3>2. Administered(authority[p]) => Administered(authority[p])'
      BY <1>2, SameRoles, Zenon DEF Administered
    <3>3. QED
      BY <3>1, <3>2, Zenon DEF Kept
  <2>4. QED
    BY <1>2, <2>1, <2>3, Stays, Zenon
<1>3. ASSUME NEW address \in Addresses, initialize_program(p, address) PROVE Goal
  <2>1. TypeOK'
    BY <1>1, <1>3 DEF TypeOK, initialize_program, roleVars
  <2>2. QED
    BY <1>2, <1>3, <2>1, Zenon DEF initialize_program
<1>4. ASSUME NEW caller \in Accounts, accept_access_manager_transfer(p, caller) PROVE Goal
  <2>1. TypeOK'
    BY <1>1, <1>4 DEF TypeOK, accept_access_manager_transfer, roleVars
  <2>2. Administered(pending_access_manager[p])
    BY <1>4 DEF accept_access_manager_transfer, require_admin, Administered
  <2>3. pending_access_manager[p] \in Addresses
    BY <1>1, <1>4 DEF TypeOK, accept_access_manager_transfer
  <2>4. QED
    BY <1>2, <1>4, <2>1, <2>2, <2>3, Zenon DEF accept_access_manager_transfer
<1>5. ASSUME NEW caller \in Accounts, NEW address \in Addresses,
             propose_access_manager_transfer(p, caller, address)
      PROVE  Goal
  <2>1. TypeOK'
    BY <1>1, <1>5 DEF TypeOK, propose_access_manager_transfer, roleVars
  <2>2. roleVars' = roleVars /\ access_manager' = access_manager /\ authority' = authority
    BY <1>5, Zenon DEF propose_access_manager_transfer
  <2>3. QED
    BY <2>1, <2>2, Stays, Zenon
<1>6. ASSUME NEW caller \in Accounts, cancel_access_manager_transfer(p, caller) PROVE Goal
  <2>1. TypeOK'
    BY <1>1, <1>6 DEF TypeOK, cancel_access_manager_transfer, roleVars
  <2>2. roleVars' = roleVars /\ access_manager' = access_manager /\ authority' = authority
    BY <1>6, Zenon DEF cancel_access_manager_transfer
  <2>3. QED
    BY <2>1, <2>2, Stays, Zenon
<1> QED
  BY <1>1, <1>3, <1>4, <1>5, <1>6, Zenon

\* Every step leaves every manager and every program an administrator it had.
LEMMA StepKeeps ==
    ASSUME TypeOK, Next
    PROVE  /\ TypeOK'
           /\ \A m \in Managers : Administered(m) => Administered(m)'
           /\ \A p \in Programs : Kept(p)
<1>1. CASE RoleStep
  BY <1>1, TypeRoles, RolesKeep, Zenon
<1>2. ASSUME roleVars' = roleVars PROVE \A m \in Managers : Administered(m) => Administered(m)'
  BY <1>2, SameRoles, Zenon DEF Administered
<1>3. CASE AuthorityStep
  BY <1>2, <1>3, AuthorityKeeps, Zenon
<1>4. CASE ManagerStep
  BY <1>2, <1>4, ManagerKeeps, Zenon
<1> QED
  BY <1>1, <1>3, <1>4, Zenon DEF Next

\* The accounts stay well typed.
LEMMA Typed == Spec => []TypeOK
<1>1. TypeOK /\ [Next]_vars => TypeOK'
  <2>1. CASE UNCHANGED vars
    BY <2>1 DEF TypeOK, vars, roleVars
  <2>2. QED
    BY <2>1, StepKeeps, Zenon
<1>2. QED
  BY <1>1, TypeInit, PTL DEF Spec

\* A manager that has an administrator never loses the last one, and a program
\* that such a manager governs, or whose upgrade authority it holds, never ends
\* up with one that has none (state.rs:104-134, access_manager_transfer.rs:61-89,
\* claim_upgrade_authority.rs:80-118).
THEOREM NeverStranded == Spec => NoProgramStranded
<1>1. TypeOK /\ [Next]_vars =>
        [/\ \A m \in Managers : Administered(m) => Administered(m)'
         /\ \A p \in Programs :
               /\ Administered(access_manager[p]) => Administered(access_manager[p])'
               /\ Administered(authority[p]) =>
                      authority'[p] \in Accounts \/ Administered(authority[p])']_vars
  BY StepKeeps, Zenon DEF Kept
<1>2. QED
  BY <1>1, Typed, PTL DEF Spec, NoProgramStranded

=============================================================================
