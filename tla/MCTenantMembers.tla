--------------------------- MODULE MCTenantMembers ---------------------------
(* A tenant of three users, two of the organization, and three requests.    *)
EXTENDS TenantMembers

CONSTANTS ann, bob, cyd,        \* users
          s1, s2, s3            \* request slots

MCCaller == [s \in Sessions |-> IF s = s2 THEN bob ELSE ann]
=============================================================================
