--------------------------- MODULE MCObservedSite ---------------------------
(* A clean site, sites one or two steps away from it in every compared or   *)
(* scored respect, and content checks that differ in facts, claims,         *)
(* findings and pages read.                                                 *)
EXTENDS ObservedSite, TLC

Clean ==
  [reached |-> TRUE, hops |-> 1, usedHttps |-> TRUE, status |-> 200,
   weakCipher |-> FALSE, protocol |-> "TLS 1.3", server |-> "nginx",
   cloudflare |-> FALSE, cms |-> "none", dns |-> {"hasA"},
   headers |-> [h \in HeaderKeys |-> {}], content |-> NoContent]

With(h, v)    == [Clean EXCEPT !.headers[h] = v]
Permissive    == With("referrerPolicy", {"permissive"})
Checked(c)    == [Clean EXCEPT !.content = c]

Vat(claims)   == "vat" :> [claims |-> claims, impact |-> "money"]
Tip           == "tip" :> [claims |-> <<>>, impact |-> "informational"]
Finding(type, severity, impact) ==
  [type |-> type, factKey |-> "vat", severity |-> severity, impact |-> impact]
Notes(n)      == [i \in 1..n |-> Finding("note", "informational", "informational")]
Stale         == Finding("figure-stale", "material", "money")
Wrong         == Finding("figure-mismatch", "critical", "money")
Contradiction == Finding("contradiction", "critical", "money")
Content(facts, findings) == [pages |-> 1, facts |-> facts, findings |-> findings]

MCSites ==
  { Clean, Permissive, With("referrerPolicy", Absent),
    [Clean EXCEPT !.reached = FALSE],
    [Permissive EXCEPT !.headers["xFrameOptions"] = {"unrecognized"}],
    With("contentSecurityPolicy", Absent),
    With("contentSecurityPolicy", {"report-uri"}),
    With("contentSecurityPolicy", {"unsafe-inline", "unsafe-eval", "wildcard"}),
    With("strictTransportSecurity", {"short max-age"}),
    [Clean EXCEPT !.headers = [h \in HeaderKeys |-> Absent]],
    [Clean EXCEPT !.usedHttps = FALSE], [Clean EXCEPT !.status = 404],
    [Clean EXCEPT !.weakCipher = TRUE],
    [Clean EXCEPT !.protocol = "TLS 1.2", !.hops = 2, !.cms = "WordPress"],
    [Clean EXCEPT !.dns = {"hasA", "hasMX"}, !.cloudflare = TRUE],
    Checked(Content(Vat(<<15>>), <<>>)),
    Checked(Content(Vat(<<15>>), Notes(1))),
    Checked(Content(Vat(<<15>>) @@ Tip, Notes(1))),
    Checked(Content(Vat(<<15>>), Notes(3))),
    Checked(Content(Vat(<<14>>), <<Stale>>)),
    Checked(Content(Vat(<<14>>), <<Wrong>>)),
    Checked(Content(Vat(<<14, 15>>), <<Wrong, Contradiction>>)),
    Checked([pages |-> 0, facts |-> <<>>, findings |-> <<>>]),
    [Permissive EXCEPT !.headers["contentSecurityPolicy"] = Absent,
                       !.content = Content(Vat(<<15>>), <<>>)] }
=============================================================================
