------------------------------- MODULE MCWhen -------------------------------
(* A small calendar: days of two seconds, weeks of two days, months of two *)
(* or three days; label 9, the end of day 4, comes twice, at 9 and at 10.  *)
EXTENDS WhenProps

At(i) == Snap(Expr("name", Label(i)), i, i, File)
Keep == Snap(Expr("other", 6), 8, 8, File)
Early == Snap(Expr("other", 0), 8, 8, {})
NotUtf8 == Snap(Expr("garbled", 0), 0, 0, {})

MCFirstDays == <<0, 2, 4, 7>>
MCEarliest == -50

CONSTANTS loop, hand

Setup(i, D, takers, up) == [start |-> i, dirs |-> D, takers |-> takers, mounted |-> up]

MCSetups ==
    {Setup(7, {At(7)}, {}, TRUE), Setup(9, {At(5), NotUtf8}, {}, TRUE),
     Setup(9, {At(3), At(7)}, {loop}, TRUE), Setup(9, {At(5), Keep}, {loop}, TRUE),
     Setup(8, {Keep, Early}, {loop}, TRUE),
     Setup(9, {}, {loop, hand}, FALSE), Setup(9, {At(7), Keep}, {loop, hand}, FALSE)}

MCAsked == {Expr("span", 1), Expr("weekday", 1), Expr("date", 3), Expr("name", 9),
            Expr("span", 100), Expr("months", 5), Expr("other", 6)}

Symmetry == Permutations({loop, hand})
===============================================================================
