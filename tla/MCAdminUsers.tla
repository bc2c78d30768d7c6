---------------------------- MODULE MCAdminUsers ----------------------------
(* An instance of AdminUsers: two accounts, two requests under way.        *)
EXTENDS AdminUsers

CONSTANTS usr1, usr2, req1, req2
=============================================================================
