----------------------------- MODULE MCLinking ------------------------------
(* Three sets of four rows: a card payment with a near miss, a bulk charge  *)
(* and its refunds, and a conversion beside a plain transfer.               *)
EXTENDS Linking

Line(account, currency, cents, debit, day, rate, evident, words) ==
  [account |-> account, currency |-> currency, cents |-> cents, debit |-> debit, day |-> day,
   rate |-> rate, category |-> FALSE, evident |-> evident, words |-> words]
Says(type, side) == {[type |-> type, side |-> side, priority |-> 10]}

CardPayment ==
  <<Line("CAD", "CAD", 10000, TRUE, 5, 0, TRUE, Says("CREDIT_CARD_PAYMENT", "SOURCE")),
    Line("CreditCard", "CAD", 10001, FALSE, 5, 0, FALSE, Says("CREDIT_CARD_PAYMENT", "TARGET")),
    Line("CreditCard", "CAD", 10000, FALSE, 11, 0, FALSE, Says("CREDIT_CARD_PAYMENT", "TARGET")),
    Line("CAD", "CAD", 10000, TRUE, 12, 0, FALSE, {})>>
Refunds ==
  <<Line("CreditCard", "CAD", 30000, TRUE, 5, 0, FALSE, Says("REFUND", "SOURCE")),
    Line("CAD", "CAD", 15000, FALSE, 5, 0, FALSE, Says("REFUND", "TARGET")),
    Line("CAD", "CAD", 14000, FALSE, 5, 0, FALSE, Says("REFUND", "TARGET")),
    Line("CAD", "CAD", 5000, FALSE, 5, 0, FALSE, Says("REFUND", "TARGET"))>>
Conversion ==
  <<Line("CAD", "CAD", 13500, TRUE, 5, 135, FALSE, Says("INTERNAL_TRANSFER", "SOURCE")),
    Line("USD", "USD", 10000, FALSE, 6, 0, TRUE, Says("INTERNAL_TRANSFER", "TARGET")),
    Line("USD", "USD", 10090, FALSE, 6, 0, FALSE, {}),
    Line("Wise", "USD", 10000, TRUE, 8, 0, FALSE, Says("WISE_TRANSFER", "SOURCE"))>>
SomeBooks == {CardPayment, Refunds, Conversion}
=============================================================================
