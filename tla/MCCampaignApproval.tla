------------------------- MODULE MCCampaignApproval -------------------------
(* Small instances of CampaignApproval for TLC. *)
EXTENDS CampaignApproval, TLC

TwoChannels == {"meta_ads", "email"}
HandlerSymmetry == Permutations(Handlers)
CrmScope == {"crm"}
=============================================================================
