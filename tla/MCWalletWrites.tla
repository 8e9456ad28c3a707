--------------------------- MODULE MCWalletWrites ---------------------------
(***************************************************************************)
(* Instances of WalletWrites.  Each behaviour is within one scenario: the  *)
(* sessions of one wallet that changes three times and of two wallets; one *)
(* write of the wallet's panel on a chain with three branches, and with a  *)
(* wallet that changes; two writes of two other consoles, with a wallet    *)
(* that changes and with blocks.                                           *)
(***************************************************************************)
EXTENDS WalletWrites, TLC

CONSTANTS panel, feed, follows

MCConsole == {panel, feed, follows}
ConsoleSymmetry == Permutations({feed, follows})

MCBlock == {"g", "a1", "a2", "b1", "c1", "c2"}
MCHeight == [b \in MCBlock |->
    CASE b = "g" -> 0 [] b \in {"a1", "b1", "c1"} -> 1 [] b \in {"a2", "c2"} -> 2]
MCAncestors == [b \in MCBlock |->
    CASE b = "g" -> {"g"}
      [] b = "a1" -> {"g", "a1"}
      [] b = "a2" -> {"g", "a1", "a2"}
      [] b = "b1" -> {"g", "b1"}
      [] b = "c1" -> {"g", "c1"}
      [] b = "c2" -> {"g", "c1", "c2"}]
NoLog == {}
NoBlockOf == [l \in NoLog |-> "g"]

Within(wallets, start, limit, calls, switching, consoles, writes, blocks) ==
    [wallets |-> wallets, start |-> start, changes |-> limit, reads |-> calls,
     switching |-> switching, consoles |-> consoles, writes |-> writes,
     blocks |-> blocks]

MCScenario ==
    {Within({"p"}, {"other"}, 3, {1, 2}, TRUE, {}, 0, {"g"}),
     Within({"p", "q"}, {"home", "other"}, 1, {1, 2}, TRUE, {}, 0, {"g"}),
     Within({"p"}, {"home"}, 0, {1}, FALSE, {panel}, 1, {"g", "a2", "b1", "c2"}),
     Within({"p"}, {"home"}, 1, {1}, FALSE, {panel}, 1, {"g", "a2"}),
     Within({"p"}, {"home"}, 1, {1}, FALSE, {feed, follows}, 2, {"g"}),
     Within({"p"}, {"home"}, 0, {1}, FALSE, {feed, follows}, 2, {"g", "a1"})}
=============================================================================
