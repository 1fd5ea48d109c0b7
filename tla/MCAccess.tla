------------------------------ MODULE MCAccess ------------------------------
(* Two tenants with an administrator and a member each, a key of the first *)
(* tenant and a service key of the second.                                 *)
EXTENDS Access, TLC
CONSTANTS t1, t2, ann, bob, cyd, apikey, svc, tiers, policy, on, off

MCHomeOf == ann :> t1 @@ bob :> t1 @@ cyd :> t2
MCKeyTenant == apikey :> t1 @@ svc :> t2
MCDefaultOf == tiers :> on @@ policy :> off
MCCallers == {<<ann, None>>, <<bob, None>>, <<cyd, None>>, <<cyd, t1>>, <<apikey, t2>>, <<svc, t1>>}
MCMenus == {{"ask", "review"}, {"review", "ask", "setRole"}, {"invite", "redeem"},
            {"createGroup", "updateGroup", "deleteGroup", "addMember", "removeMember"},
            {"configure", "view"}}
=============================================================================
