SPECIFICATION Spec
CONSTANTS
  None = None  alice = alice  bob = bob  u1 = u1  u2 = u2  oidc = oidc  ldap = ldap
  s1 = s1  s2 = s2  k1 = k1
  Ids = {1, 2, 3, 4}
  Names = {alice, bob}
  Uids = {u1, u2}
  ProviderOf <- MCProviderOf
  Ldap = {ldap}
  Claim <- MCClaim
  RequireVerified = {}
  Mode = "auto"
  TotpEnabled = TRUE  AllowRecovery = TRUE  PasswordLoginDisable = FALSE
  Sessions = {s1, s2}
  Tokens = {k1}
  Requests = {1, 2}
  Ops <- AllOps
  MaxRequests = 2  MaxTotp = 2
  Populations <- MCPopulations
INVARIANTS CredentialCurrent UsersSound
PROPERTIES LocalNeverAdopted SecondFactorAsked
CHECK_DEADLOCK FALSE
