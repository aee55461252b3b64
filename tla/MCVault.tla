------------------------------- MODULE MCVault -------------------------------
EXTENDS Vault

MCBudgets == {
    (* a card for two credentials, answered in one *)
    BudgetOf({"c1", "c2"}, {"ask"}, {"inject"}, 1, 1, 1, 0, {}),
    (* two cards of one credential, and the deadline they share *)
    BudgetOf({"c1"}, {"ask"}, {"inject"}, 0, 2, 1, 0, {}),
    (* custody alone *)
    BudgetOf({"c1", "c2"}, {"ask"}, {}, 3, 0, 0, 0, {}),
    (* switches and changes over a grant *)
    BudgetOf({"c1"}, {"ask"}, {"inject", "device_proxy"}, 2, 0, 1, 1, {}),
    (* proxied requests that share a grant *)
    BudgetOf({"c1"}, {"ask"}, {"device_proxy"}, 1, 0, 1, 1, {"k1", "k2"}),
    (* one that needs no grant, and the changes it may meet *)
    BudgetOf({"c1"}, {"auto"}, {"device_proxy"}, 2, 0, 0, 0, {"k1"})}
=============================================================================
