-------------------------- MODULE MCOrgMembership --------------------------
(***************************************************************************)
(* Users who all make requests, a free plan and a paid one that has room for  *)
(* one more member.                                                           *)
(***************************************************************************)
EXTENDS OrgMembership, TLC

MCOrgLimit == 0 :> 1 @@ 1 :> Unlimited
MCMemberLimit == 0 :> 1 @@ 1 :> 2
MCKinds == {"sync", "create", "add", "key", "deleteKey", "block"}
MCMixes ==
  {{"sync", "create", "block"}, {"create", "add"}, {"sync", "add"},
   {"sync", "key", "deleteKey", "block"}}
Symmetry == Permutations(Users) \cup Permutations(Handlers)
=============================================================================
