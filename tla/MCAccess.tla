------------------------------ MODULE MCAccess ------------------------------
(***************************************************************************)
(* Workloads of Access for TLC: the requests that race with one another,   *)
(* after those that make the organizations they are about.                 *)
(***************************************************************************)
EXTENDS Access, TLC

CONSTANTS r1, r2, r3, r4, r5, r6

Work(k1, k2, k3, k4, k5, k6) ==
    (r1 :> k1) @@ (r2 :> k2) @@ (r3 :> k3) @@ (r4 :> k4) @@ (r5 :> k5) @@ (r6 :> k6)

MCWorkloads ==
    {Work("register", "register", "add_member", "add_member",
          "switch_organization", "create_api_key"),
     Work("register", "create_api_key", "revoke_api_key", "revoke_api_key",
          "use_api_key", "logout"),
     Work("register", "register", "login", "create_organization",
          "switch_organization", "logout"),
     Work("register", "update_organization", "update_organization", "create_api_key",
          "call_gateway", "call_gateway")}

=============================================================================
