----------------------------- MODULE MCMatching -----------------------------
(* Three proofs and three bank rows, in the books the hazards are about.   *)
EXTENDS Matching

Proof(marker, total, day, vendor) ==
  [marker |-> marker, opinion |-> "none", total |-> total, amount |-> 0, subtotal |-> 0, gst |-> 0,
   other |-> 0, paid |-> 0, dated |-> day, hinted |-> 0,
   vendor |-> vendor, filed |-> FALSE, income |-> FALSE]
Line(currency, cents, day, names) ==
  [cents |-> cents, currency |-> currency, day |-> day, names |-> names,
   card |-> FALSE, usd |-> 0, expense |-> TRUE]

(* Equal receipts against equal rows                                       *)
Equal == [papers |-> [d \in Docs |-> Proof("CAD", 10000, 100, "acme")],
          rows |-> [t \in Txns |-> Line("CAD", 10000, 100, "rail")]]

(* Two proofs want the first row, one of another party's, one too late, of *)
(* an amount that only an agent's word can settle                          *)
Contested ==
  [papers |-> <<Proof("CAD", 10000, 100, "acme"), Proof("CAD", 10150, 104, "acme"),
                [Proof("CAD", 10000, 160, "globex") EXCEPT !.paid = 150]>>,
   rows |-> <<Line("CAD", 10000, 100, "acme"), Line("CAD", 13500, 130, "globex"),
              Line("CAD", 10000, 110, "")>>]

(* Foreign invoices: at par with another currency, inside the band, quoted *)
(* on a card line, beside a converted figure, and a sale                   *)
Foreign ==
  [papers |-> <<[Proof("USD", 10000, 100, "acme") EXCEPT !.gst = 500, !.amount = 13500],
                Proof("EUR", 10000, 100, "acme"),
                [Proof("$", 10000, 71, "globex") EXCEPT !.income = TRUE, !.hinted = 105]>>,
   rows |-> <<Line("CAD", 10000, 100, "rail"), Line("CAD", 13500, 102, "acme"),
              [Line("CAD", 13500, 101, "") EXCEPT !.card = TRUE, !.usd = 10000]>>]

MCBooks == {Equal, Contested, Foreign}
=============================================================================
