---------------------------- MODULE MCDeployment ----------------------------
(* A small instance of Deployment: two organizations, a member of each.    *)
EXTENDS Deployment, TLC

CONSTANTS abc, xyz, alice, dave

Fixtures == ([organization_id |-> abc, user_id |-> alice] :> "owner")
            @@ ([organization_id |-> xyz, user_id |-> dave] :> "member")
=============================================================================
