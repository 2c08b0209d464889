------------------------------- MODULE MCLadder -------------------------------
(* Problems of all three domains, small enough for 128 bit strings.         *)
EXTENDS Ladder

Bond(coverage, cost, hqla, eligible, issuer) ==
  [coverage |-> coverage, cost |-> cost, hqla |-> hqla, eligible |-> eligible,
   issuer |-> issuer]

Pool(inventory, minimumHqla, cap, maxQubits) ==
  [domain |-> "collateral", inventory |-> inventory, minimumHqla |-> minimumHqla,
   cap |-> cap, maxQubits |-> maxQubits]

\* A cheap security, a free one, two equally efficient, and one not eligible.
Inventory ==
  <<Bond(4, 2, TRUE, TRUE, "x"), Bond(6, 3, FALSE, TRUE, "y"), Bond(9, 1, TRUE, FALSE, "x"),
    Bond(3, 0, FALSE, TRUE, "x"), Bond(5, 4, TRUE, TRUE, "z")>>

Owe(payer, payee, amount) == [payer |-> payer, payee |-> payee, amount |-> amount]

Batch(obligations, balance, ratio, penalty, maxQubits) ==
  [domain |-> "settlement", obligations |-> obligations, balance |-> balance, ratio |-> ratio,
   penalty |-> penalty, maxQubits |-> maxQubits]

\* A cycle that settles only as a whole, a side payment and a bystander.
Cycle == <<Owe("a", "b", 4), Owe("b", "c", 4), Owe("c", "a", 3), Owe("a", "c", 1)>>
Balances == ("a" :> 1) @@ ("b" :> 0) @@ ("c" :> 2) @@ ("d" :> 5)

Rail(id, network, rate, fraud, fee, capacity, approval) ==
  [id |-> id, network |-> network, rate |-> rate, fraud |-> fraud, fee |-> fee,
   capacity |-> capacity, approval |-> approval]

Payment(amount, eligible) == [amount |-> amount, eligible |-> eligible]

Payments(transactions, routes, share, floor, maxQubits) ==
  [domain |-> "routing", transactions |-> transactions, routes |-> routes, share |-> share,
   floor |-> floor, decline |-> 1, maxQubits |-> maxQubits]

\* The rail of the lowest rate is not always the cheapest, one has room for one
\* payment, and the fourth is cut off.
Rails ==
  <<Rail("card", "n", 3, 0, 1, 2, 9), Rail("rtp", "m", 1, 3, 2, 1, 7),
    Rail("ach", "m", 1, 1, 0, 2, 8), Rail("wire", "w", 9, 0, 9, 9, 10)>>

MCSpecs ==
  {Pool(Inventory, 1, 6, q) : q \in {1, 2, 5, 6, 7}}
    \cup {Pool(<<Bond(2, 1, FALSE, TRUE, "x"), Bond(2, 0, FALSE, TRUE, "x")>>, 1, 5, 6),
          Pool(<<Bond(2, 1, TRUE, FALSE, "x")>>, 0, 10, 6)}
    \cup {Batch(Cycle, Balances, 0, 8, q) : q \in {1, 2, 3, 4, 5, 6}}
    \cup {Batch(Cycle, Balances, 9, 8, 7), Batch(SubSeq(Cycle, 1, 2), Balances, 6, 2, 6)}
    \cup {Payments(<<Payment(2, {}), Payment(3, {"rtp"}), Payment(4, {"wire"})>>, Rails, 0, 0, q) :
            q \in {2, 6}}
    \cup {Payments(<<Payment(2, {}), Payment(3, {"ach", "card"})>>, Rails, s, f, 6) :
            s \in {5, 10}, f \in {8, 9}}
    \cup {Payments(<<>>, Rails, 5, 8, 6),
          Payments(<<Payment(2, {}), Payment(2, {}), Payment(3, {"rtp"})>>, SubSeq(Rails, 1, 2),
                   7, 0, 6)}

\* Two securities of the same cost; one alone falls just short of the target.
GroundSpecs ==
  {Pool(<<Bond(6, 1, TRUE, TRUE, "x"), Bond(5, 1, TRUE, TRUE, "y")>>, 0, 10, 6)}
=============================================================================
