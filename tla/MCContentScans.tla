--------------------------- MODULE MCContentScans ---------------------------
(* Instances of ContentScans: facts of the approved seed, a release that     *)
(* moves one of them, and sites that write the figures rightly, wrongly and  *)
(* in several ways.                                                          *)
EXTENDS FindingsReview, ZaCompliance

Url(protocol, host, path, query) ==
  [protocol |-> protocol, host |-> host, path |-> path, query |-> query]
MCHome  == Url("https", "shop", "/", "")
Rates   == Url("https", "shop", "/rates", "")
RatesQ  == Url("https", "shop", "/rates", "?print")
Plain   == Url("http", "shop", "/rates", "")
Moved   == Url("https", "shop", "/old-rates", "")
Partner == Url("https", "partner", "/rates", "")

(* Amounts as they are written. *)
Group(digits, width) == [digits |-> digits, width |-> width]
Thousands(a, mark, b) ==
  [groups |-> <<Group(a, IF a < 10 THEN 1 ELSE 2), Group(b, 3)>>,
   marks |-> <<mark>>, unit |-> 1]
Millions(a, mark, b) ==
  [groups |-> <<Group(a, 1), Group(b, 1)>>, marks |-> <<mark>>, unit |-> 1000000]

(* What follows a figure: nothing, or a word whose first letter is a unit   *)
(* (k rather than m: TLC's integers do not hold 17712 millions).            *)
Nothing == [groups |-> <<>>, marks |-> <<>>, unit |-> 1]
Kept    == [Nothing EXCEPT !.unit = 1000]

Words(terms) == [kind |-> "words", terms |-> terms]
AmountAbout(k, figure, tail) ==
  [kind |-> "amount", about |-> k, figure |-> figure, tail |-> tail]
DateAbout(k, d, m) ==
  [kind |-> "date", about |-> k, figure |-> [day |-> d, month |-> m]]

UifTopic     == Words({"UIF"})
UifWords     == <<UifTopic, Words({"ceiling"})>>
Uif(mark)    == Append(UifWords, AmountAbout("uif.ceiling", Thousands(17, mark, 712), Nothing))
OldUif       == Append(UifWords, AmountAbout("uif.ceiling", Thousands(16, " ", 0), Nothing))
UifKept      == Append(UifWords, AmountAbout("uif.ceiling", Thousands(17, " ", 712), Kept))
Contribution ==    \* UIF contribution (capped): R177.12
  <<UifTopic, Words({"cap"}),
    AmountAbout("contribution", [groups |-> <<Group(177, 3), Group(12, 2)>>,
                                 marks |-> <<".">>, unit |-> 1], Nothing)>>
Roe(d, m)    == <<Words({"return of earnings"}), DateAbout("coida.roe", d, m)>>
VatWords     == Words({"registration threshold"})
Vat(mark)    == <<VatWords, AmountAbout("vat.mandatory", Millions(2, mark, 3), Nothing)>>
Voluntary    ==    \* the voluntary registration threshold is R120 000
  <<Words({"voluntary registration", "registration threshold"}),
    AmountAbout("vat.voluntary",
      [groups |-> <<Group(120, 3), Group(0, 3)>>, marks |-> <<" ">>, unit |-> 1], Nothing)>>

Page(says, links) == [kind |-> "page", to |-> MCHome, says |-> says, links |-> links]
Empty         == Page({}, <<>>)
Redirect(to)  == [kind |-> "redirect", to |-> to, says |-> {}, links |-> <<>>]
Lost          == [kind |-> "lost", to |-> MCHome, says |-> {}, links |-> <<>>]

(* A shop with a home page and its rates; the other URLs answer as given. *)
Site(home, rates, plain, moved, sitemap) ==
  [answers |-> [u \in {MCHome, Rates, RatesQ, Plain, Moved, Partner} |->
      CASE u = MCHome -> home [] u \in {Rates, RatesQ} -> rates
        [] u = Plain -> plain [] u = Moved -> moved
        [] OTHER -> Page({OldUif}, <<>>)],
   sitemap |-> sitemap]

GoodUif  == Page({Uif(" ")}, <<>>)
BadUif   == Page({OldUif}, <<>>)

MCSites ==
  { Site(Page({<<UifTopic>>}, <<Rates, Moved, Partner>>), Page({Uif(" "), Roe(31, 3)}, <<>>),
         Empty, Redirect(Rates), <<>>),
    Site(Empty, BadUif, GoodUif, Lost, <<Rates, Plain>>),
    Site(GoodUif, BadUif, Empty, Redirect(Partner), <<MCHome, RatesQ, Moved>>),
    Site(Page({Vat(",")}, <<Rates>>), Page({Uif(","), Roe(30, 6)}, <<>>),
         Empty, Redirect(Moved), <<Partner>>),
    Site(Page({Voluntary, Roe(31, 3)}, <<Rates, Moved>>), Page({UifKept, Contribution}, <<>>),
         Empty, Redirect(Moved), <<>>) }

(* Sites that write amounts with a point between the thousands, as the      *)
(* value patterns allow.                                                    *)
DottedSites == {Site(Empty, Page({Uif(".")}, <<>>), Empty, Lost, <<Rates>>)}

Statements(rows) ==
  [i \in DOMAIN rows |-> FactStatement(rows[i])]
    \o SetToSeq({PatternStatement(p) : p \in UNION {Patterns(r) : r \in Range(rows)}})
Seed     == Statements(<<UifCeiling, RoeDeadline>>)
VatSeed  == Statements(<<VatMandatory>>)

(* The ceiling's former value with its end, then the current one. *)
Superseding ==
  <<FactStatement([UifCeiling EXCEPT !.value = 16000, !.until = ApprovedAt]),
    FactStatement(UifCeiling)>>
MCReleases == {Seed, VatSeed, Superseding}
JustSeed   == {Seed}
=============================================================================
