---------------------------- MODULE MCCampaign ----------------------------
(* Small instances of Campaign: one split page per window, a price that both *)
(* windows share.                                                            *)
EXTENDS Campaign, TLC

CONSTANTS a, b, s1, s2, x

TwoWindows == << <<s1, x>>, <<s2, x>> >>

\* An acquisition and a backfill operator over both windows, or two
\* acquisition operators in the second one, or one with more authorizations.
Grants ==
  [w \in SUBSET {a, b} |->
     (a :> IF w = {b} THEN 2 ELSE IF w = {} THEN 1 ELSE 0)
     @@ (b :> IF w = {a} THEN 3 ELSE 1)]
MCInit ==
  /\ CampaignInit
  /\ \/ legacy = {b} /\ day = 1
     \/ legacy \in {{}, {a}} /\ day = 2
MCSpec ==
  MCInit /\ [][CampaignNext]_campaignVars /\ \A p \in Operators : WF_campaignVars(Work(p))
=============================================================================
