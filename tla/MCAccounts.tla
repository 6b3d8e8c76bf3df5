------------------------------ MODULE MCAccounts ------------------------------
(* A small instance of Accounts: a merchant invited by a distributor, with    *)
(* two requests under way at a time.                                          *)
EXTENDS Accounts, TLC

CONSTANTS admin, distributor, merchant, k1, k2

Roles == admin :> "SUPER_ADMIN" @@ distributor :> "DISTRIBUTOR" @@ merchant :> "MERCHANT"
Inviters == merchant :> distributor

\* Many tokens for few links, or a token for more links.
ManyTokens == [tokens |-> 4, invite |-> 1, reset |-> 0]
ManyLinks == [tokens |-> 1, invite |-> 2, reset |-> 2]
BothBounds == {ManyTokens, ManyLinks}

===============================================================================
