----------------------------- MODULE MCWalletPage -----------------------------
EXTENDS WalletPage
Visit(tools, a, f) == [use |-> tools, acts |-> a, faults |-> f]
MCVisits == {Visit({"month", "create"}, 4, 1), Visit({"month", "undo"}, 4, 0),
             Visit({"month", "settings"}, 3, 0), Visit({"month", "book"}, 4, 1),
             Visit({"reports"}, 2, 1), Visit({"month", "reports"}, 3, 0),
             Visit({"reports", "book"}, 3, 0), Visit({"review"}, 2, 1),
             Visit({"review", "month", "undo"}, 3, 0)}
=============================================================================
