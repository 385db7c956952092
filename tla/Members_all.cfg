SPECIFICATION MembersSpec
CONSTANTS
    User = {founder, u1, u2}
    Founder = founder
    Invitation = {i1, i2}
    Request = {r1, r2}
    Assignable <- ThreeRoles
SYMMETRY Alike
CHECK_DEADLOCK FALSE
INVARIANTS MembersTypeOK OwnerRemains AdmitsOnce
PROPERTIES OwnersComeFromOwners
