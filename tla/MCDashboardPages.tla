-------------------------- MODULE MCDashboardPages --------------------------
EXTENDS DashboardPages

CONSTANTS d1, d2

OwnerAndMember == <<"owner", "member">>
AroundTheStage == {-7, 30, 120}
=============================================================================
