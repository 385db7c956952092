----------------------------- MODULE MC_Members -----------------------------
(* An organization and the people it might come to have.                     *)
EXTENDS Members, TLC

ThreeRoles == {"owner", "admin", "member"}

Alike == Permutations(User \ {Founder})
           \cup Permutations(Invitation) \cup Permutations(Request)
=============================================================================
